----------------------------- MODULE MCEventRelay -----------------------------
(***************************************************************************)
(* The stream that TLC reads: an event without data, one with an id and    *)
(* two data lines, and one whose data are no JSON.                         *)
(***************************************************************************)
EXTENDS EventRelay

MCSent == << [type |-> <<"done">>, id |-> <<>>,    data |-> <<>>],
             [type |-> <<>>,       id |-> <<"i1">>, data |-> <<"x", "y">>],
             [type |-> <<"done">>, id |-> <<>>,    data |-> <<"junk">>] >>
MCValues == {"done", "i1", "x", "y", "junk"}
MCTypes == {"done"}
=============================================================================
