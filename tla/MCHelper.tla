------------------------------- MODULE MCHelper -------------------------------
(* Helper with a queue and pings, three ways, and with calls on demand. *)
EXTENDS Helper

MCModes ==
  {{"QUEUE", "PING"}, {"QUEUE", "PING", "NORETRY"}, {"QUEUE", "PING", "CNCT1"}, {"CTONDMD"}}
===============================================================================
