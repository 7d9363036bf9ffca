----------------------------- MODULE HostHandlers -----------------------------
(***************************************************************************)
(* Who is in the room and who hosts it: JOIN_ROOM, CLAIM_HOST and          *)
(* TRANSFER_HOST of dispatcher.ts, the socket-close handlers of room.ts    *)
(* and the host_vacant task that the close of the host's last socket arms. *)
(***************************************************************************)
EXTENDS RoomTables

(* addVoter: the row of a voter the room has not seen.                     *)
AddVoter(v, asRole) ==
    /\ role[v] = "none"
    /\ role' = [role EXCEPT ![v] = asRole]
    /\ conn' = [conn EXCEPT ![v] = "connected"]

(* resumeOrAddVoter for a voter who presents their own resume token: the   *)
(* stored role stands.                                                     *)
ResumeVoter(v) ==
    /\ role[v] # "none"
    /\ conn' = [conn EXCEPT ![v] = "connected"]

(* The lifecycle block at the end of handleJoinRoom, for the voter v whose *)
(* socket has just joined.  Only `active` cancels the pending vacancy; in  *)
(* `lobby` and `review` the task is left to its re-check at fire time.     *)
HostReturns(v) ==
    \/ /\ v = hostId /\ roomState = "active"
       /\ CancelTasksByType("host_vacant")
       /\ UNCHANGED <<roomState, hostId, vacantSince, role>>
    \/ /\ v = hostId /\ roomState = "host_vacant"
       /\ SetRoomHost(v)
       /\ CancelTasksByType("host_vacant")
    \/ /\ v = hostId => roomState \in {"lobby", "review"}
       /\ UNCHANGED <<roomState, hostId, vacantSince, role, tasks, alarm>>

(* JOIN_ROOM on a fresh socket with no usable resumeVoterId.               *)
JoinNew(s, v, asRole) ==
    /\ boundTo[s] = NoVoter
    /\ AddVoter(v, asRole)
    /\ boundTo' = [boundTo EXCEPT ![s] = v]
    /\ UNCHANGED <<roomVars, taskVars, storyVars>>

(* JOIN_ROOM on a fresh socket with a voter's own resume token.            *)
JoinResume(s, v) ==
    /\ boundTo[s] = NoVoter
    /\ ResumeVoter(v)
    /\ boundTo' = [boundTo EXCEPT ![s] = v]
    /\ HostReturns(v)
    /\ UNCHANGED <<window, storyVars>>

(* JOIN_ROOM on a socket that is already bound keeps the binding and does  *)
(* not touch connection_state.                                             *)
ReJoin(s) ==
    /\ boundTo[s] # NoVoter
    /\ HostReturns(boundTo[s])
    /\ UNCHANGED <<window, conn, boundTo, storyVars>>

(* Mutant: no vacancy is scheduled.                                        *)
CloseSocket_NoGraceTask(s) ==
    /\ boundTo[s] # NoVoter
    /\ conn' = [conn EXCEPT ![boundTo[s]] = "left"]
    /\ boundTo' = [boundTo EXCEPT ![s] = NoVoter]
    /\ UNCHANGED <<role, roomVars, storyVars, taskVars>>

(* Mutant: the voter row is not marked left.                               *)
CloseSocket_KeepsRow(s) ==
    LET v == boundTo[s] IN
    /\ v # NoVoter
    /\ boundTo' = [boundTo EXCEPT ![s] = NoVoter]
    /\ \/ /\ v = hostId /\ ~HostIsLiveExcept(v, s)
          /\ ScheduleTask([type |-> "host_vacant", at |-> now + Grace,
                           host |-> v])
       \/ /\ v # hostId \/ HostIsLiveExcept(v, s)
          /\ UNCHANGED taskVars
    /\ UNCHANGED <<role, conn, roomVars, storyVars>>

(* webSocketClose and webSocketError: the voter is marked left whatever    *)
(* other sockets it has; if it is the host and this was its last socket,   *)
(* the vacancy is scheduled.                                               *)
CloseSocket(s) ==
    LET v == boundTo[s] IN
    /\ v # NoVoter
    /\ conn' = [conn EXCEPT ![v] = "left"]
    /\ boundTo' = [boundTo EXCEPT ![s] = NoVoter]
    /\ \/ /\ v = hostId /\ ~HostIsLiveExcept(v, s)
          /\ ScheduleTask([type |-> "host_vacant", at |-> now + Grace,
                           host |-> v])
       \/ /\ v # hostId \/ HostIsLiveExcept(v, s)
          /\ UNCHANGED taskVars
    /\ UNCHANGED <<role, roomVars, storyVars>>

(* Mutant: the room need not be vacant.                                    *)
ClaimHost_AnyState(s) ==
    /\ boundTo[s] # NoVoter
    /\ SetRoomHost(boundTo[s])
    /\ UNCHANGED <<window, conn, boundTo, storyVars, taskVars>>

(* CLAIM_HOST: any joined voter or spectator takes a vacant room; the      *)
(* first one to be handled wins.                                           *)
ClaimHost(s) ==
    /\ boundTo[s] # NoVoter
    /\ roomState = "host_vacant"
    /\ SetRoomHost(boundTo[s])
    /\ UNCHANGED <<window, conn, boundTo, storyVars, taskVars>>

(* TRANSFER_HOST from the host to a voter whose row does not say left.     *)
TransferHost(v) ==
    /\ RequireHost
    /\ role[v] # "none" /\ conn[v] # "left" /\ v # hostId
    /\ SetRoomHost(v)
    /\ UNCHANGED <<window, conn, boundTo, storyVars, taskVars>>

(* Mutant: liveness is not checked again when the task fires.              *)
HostVacantFire_TrustsTheTask(t) ==
    \/ /\ roomState # "host_vacant" /\ hostId = t.host
       /\ roomState' = "host_vacant"
       /\ vacantSince' = t.at - Grace
       /\ UNCHANGED <<hostId, window>>
    \/ /\ ~(roomState # "host_vacant" /\ hostId = t.host)
       /\ UNCHANGED roomVars

(* Mutant: the grace is taken off twice.                                   *)
HostVacantFire_DoubleGrace(t) ==
    LET stillGone == /\ roomState # "host_vacant"
                     /\ hostId = t.host
                     /\ ~Live(t.host)
    IN  \/ /\ stillGone
           /\ roomState' = "host_vacant"
           /\ vacantSince' = t.at - 2 * Grace
           /\ UNCHANGED <<hostId, window>>
        \/ /\ ~stillGone
           /\ UNCHANGED roomVars

(* Mutant: the first cut of the eligible states, `active` only.            *)
HostVacantFire_ActiveOnly(t) ==
    \/ /\ roomState = "active" /\ hostId = t.host /\ ~Live(t.host)
       /\ roomState' = "host_vacant"
       /\ vacantSince' = t.at - Grace
       /\ UNCHANGED <<hostId, window>>
    \/ /\ ~(roomState = "active" /\ hostId = t.host /\ ~Live(t.host))
       /\ UNCHANGED roomVars

(* The host_vacant task fires: "30s elapsed, not host is gone".  The       *)
(* task's disconnectedAt is its due time less the grace.                   *)
HostVacantFire(t) ==
    LET stillGone == /\ roomState # "host_vacant"
                     /\ hostId = t.host
                     /\ ~Live(t.host)
    IN  \/ /\ stillGone
           /\ roomState' = "host_vacant"
           /\ vacantSince' = t.at - Grace
           /\ UNCHANGED <<hostId, window>>
        \/ /\ ~stillGone
           /\ UNCHANGED roomVars
=============================================================================
