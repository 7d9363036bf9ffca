---------------------------- MODULE HostAuthority -----------------------------
(***************************************************************************)
(* What the room promises about its host, without sockets, stories, timers *)
(* or tables: there is always one host; the seat becomes vacant only while *)
(* the host is away; it changes hands only by a present host's transfer or *)
(* by a present voter's claim of a vacant seat; and a host who comes back  *)
(* before anyone claims has the seat again at once.                        *)
(***************************************************************************)
CONSTANTS Voter, Creator

VARIABLES host, vacant, present

authorityVars == <<host, vacant, present>>

Init ==
    /\ host = Creator
    /\ vacant = FALSE
    /\ present = {}

Arrive(v) ==
    /\ present' = present \cup {v}
    /\ vacant' = (vacant /\ v # host)
    /\ UNCHANGED host

Depart(v) ==
    /\ present' = present \ {v}
    /\ UNCHANGED <<host, vacant>>

Vacate ==
    /\ host \notin present
    /\ vacant' = TRUE
    /\ UNCHANGED <<host, present>>

Claim(v) ==
    /\ vacant
    /\ v \in present
    /\ host' = v
    /\ vacant' = FALSE
    /\ UNCHANGED present

Transfer(v) ==
    /\ ~vacant
    /\ host \in present
    /\ v \in present \ {host}
    /\ host' = v
    /\ UNCHANGED <<vacant, present>>

Next ==
    \/ \E v \in Voter : Arrive(v) \/ Depart(v) \/ Claim(v) \/ Transfer(v)
    \/ Vacate

Spec == Init /\ [][Next]_authorityVars
=============================================================================
