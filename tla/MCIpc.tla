------------------------------- MODULE MCIpc -------------------------------
(* The TLC instance of BogIpc; its constants are given in MCIpc.cfg.       *)
EXTENDS BogIpc
============================================================================
