-------------------------- MODULE MCBaseService --------------------------
(* BaseService as it is checked: MaxSession comes from the cfg.           *)
EXTENDS BaseService
==========================================================================
