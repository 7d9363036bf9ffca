------------------------------ MODULE RoomHistory ------------------------------
(***************************************************************************)
(* Room with two history variables, for properties that relate a vacancy   *)
(* to what came before it: when the present host's last socket closed, and *)
(* which state the room was in when it was declared vacant.                *)
(***************************************************************************)
EXTENDS Room

VARIABLES
    goneAt,       \* when the last socket of the host closed
    vacatedFrom   \* the room state the last vacancy replaced

historyVars == <<vars, goneAt, vacatedFrom>>

HostDeparts == hostId' = hostId /\ Live(hostId) /\ ~Live(hostId)'
BecomesVacant == roomState # "host_vacant" /\ roomState' = "host_vacant"
LeavesVacancy == roomState = "host_vacant" /\ roomState' # "host_vacant"

HistoryInit == Init /\ goneAt = NoTime /\ vacatedFrom = "lobby"

HistoryNext ==
    /\ Next
    /\ goneAt' = IF HostDeparts THEN now ELSE goneAt
    /\ vacatedFrom' = IF BecomesVacant THEN roomState ELSE vacatedFrom

HistorySpec == HistoryInit /\ [][HistoryNext]_historyVars

(* The grace is a grace for every departure: a room is declared vacant     *)
(* only when its host's last socket closed at least Grace ago.             *)
GraceHonoured == [][BecomesVacant => now - goneAt >= Grace]_historyVars

(* "a host who left during `review` should return to `review`".            *)
ReviewResumed ==
    [][LeavesVacancy /\ vacatedFrom = "review" => roomState' = "review"]_historyVars
=============================================================================
