----------------------------- MODULE MCEndpoint -----------------------------
(***************************************************************************)
(* An endpoint in one of the settings of Settings, which the first state   *)
(* chooses:                                                                *)
(*   "whole"      two threads post sends, one of which also tests whether  *)
(*                the endpoint is drained, and another progresses;         *)
(*   "split"      a thread posts to two ranks, on a network without        *)
(*                immediate data, where puts with it are split, and tests; *)
(*   "fair"       it posts to one rank, under fair scheduling;             *)
(*   "self lock"  the same for a put that is injected.                     *)
(* The constants of the module are what the settings have together: the    *)
(* invariants are those of module Endpoint, of which a setting posts less. *)
(***************************************************************************)
EXTENDS Endpoint

CONSTANTS Settings, t1, t2, t3, r1, r2

VARIABLE setting

E(s) == INSTANCE Endpoint WITH
    Posters <- IF s = "whole" THEN {t1, t2} ELSE {t1},
    Progressers <- IF s = "whole" THEN {t3} ELSE {t2, t3},
    Drainers <- CASE s = "whole" -> {t2} [] s = "split" -> {t1} [] OTHER -> {},
    Targets <- IF s = "split" THEN {r1, r2} ELSE {r1},
    Kinds <- CASE s = "whole" -> {"send"}
               [] s = "self lock" -> {"putImms"}
               [] OTHER -> {"send", "putImm"},
    SupportPutimm <- s = "whole",
    MaxPosts <- IF s = "self lock" THEN 1 ELSE 2

ASSUME SettingsConstants == \A s \in Settings : E(s)!EndpointAssumption

MCInit == \E s \in Settings : setting = s /\ E(s)!Init

MCNext == UNCHANGED setting /\ \E s \in Settings : setting = s /\ E(s)!Next

FairSettings == Settings \cap {"fair", "self lock"}

\* A thread inside a call runs on, progress is called again and again, and a
\* device that is asked again and again takes the operation some time.
MCFairSpec ==
    /\ MCInit /\ [][MCNext]_<<setting, vars>>
    /\ \A s \in FairSettings : \A t \in {t1, t2, t3} :
          /\ WF_vars(setting = s /\ E(s)!Continue(t))
          /\ WF_vars(setting = s /\ (E(s)!ImplTake(t) \/ E(s)!ImplRetry(t)))
          /\ SF_vars(setting = s /\ E(s)!ImplTake(t))
          /\ WF_vars(setting = s /\ E(s)!Progress(t))
          /\ WF_vars(setting = s /\ E(s)!ProgressReturn(t))

-----------------------------------------------------------------------------
\* What enters the backlog queue reaches the device (tutorial.md: "Call
\* progress() frequently to ensure pending operations complete").
BacklogDrains ==
    \A s \in FairSettings : \A it \in {i \in E(s)!Items : i.rank = r1} :
        (setting = s /\ it \in Waiting) ~>
            (setting = s /\ it \notin Waiting /\ it \in Taken(it.rank))
=============================================================================
