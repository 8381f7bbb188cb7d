--------------------- MODULE MCGuardedProcessPool ---------------------
(* Model values for GuardedProcessPool: ss-local is started without a     *)
(* restart callback, tun2socks with one (VpnService.startVpn).            *)
EXTENDS GuardedProcessPool
CONSTANTS ssLocal, tun2socks
MCGuard == {ssLocal, tun2socks}
MCRestartable == {tun2socks}
=======================================================================
