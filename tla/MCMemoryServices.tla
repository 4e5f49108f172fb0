--------------------------- MODULE MCMemoryServices ---------------------------
(***************************************************************************)
(* The two services over the in-memory repositories.  They share no state, *)
(* so a behaviour calls one of them and leaves the other as it was made:   *)
(* the run sees every sequence of calls of either service.                 *)
(***************************************************************************)
EXTENDS MatchmakingService, RoomService

MemoryInit == ServiceInit /\ RoomServiceInit

CallMatchmaking == /\ roomAnswer.outcome = "none"
                   /\ ServiceNext /\ UNCHANGED roomServiceVars

CallRooms == /\ answer.outcome = "none"
             /\ RoomServiceNext /\ UNCHANGED <<queue, answer>>

MemorySpec ==
  MemoryInit /\ [][CallMatchmaking \/ CallRooms]_<<queue, answer, roomServiceVars>>
=============================================================================
