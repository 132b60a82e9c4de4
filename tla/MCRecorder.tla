----------------------------- MODULE MCRecorder -----------------------------
(***************************************************************************)
(* Small instances of Recorder: two pushers, two blocks, two pushes each.  *)
(***************************************************************************)
EXTENDS Recorder, TLC

\* Named and unnamed pushes that succeed, and pushes with one or two faults.
MCPushes ==
    {[name |-> n, faults |-> {}, if_exists |-> e] : n \in Names, e \in {"ignore", "raise"}}
    \cup {[name |-> NoName, faults |-> f, if_exists |-> "ignore"] :
             f \in {{}, {"name", "body"}, {"header", "body"}, {"body", "timeout"}}}

\* Pushes that succeed only.
SoundPushes ==
    {[name |-> n, faults |-> {}, if_exists |-> "ignore"] : n \in Names \cup {NoName}}
=============================================================================
