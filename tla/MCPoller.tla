------------------------------- MODULE MCPoller -------------------------------
(* The instance of Poller: two big leagues and a cup in play, and a         *)
(* tournament that is over.                                                 *)
EXTENDS Poller

Comp(code, active, matchday) == [code |-> code, active |-> active, matchday |-> matchday]
MCComps == << Comp("CL", TRUE, TRUE), Comp("PL", TRUE, TRUE), Comp("SA", TRUE, TRUE),
              Comp("EC", FALSE, TRUE) >>
MCBurst == <<"PL", "SA">>
=============================================================================
