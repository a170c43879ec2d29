---------------------------- MODULE MCChatWindow ----------------------------
(* Small instances of ChatWindow: pages of two messages, a chat of a few.  *)
EXTENDS ChatWindow

(* A behaviour with its deeds; those that are not named are never done.    *)
Times(deeds) == [k \in Deeds |-> IF k \in DOMAIN deeds THEN deeds[k] ELSE 0]
Plan(known, last, gone, cache, cap, errors, deeds) ==
    [known |-> known, last |-> last, gone |-> gone, cache |-> cache, cap |-> cap,
     errors |-> errors, times |-> Times(deeds)]

(* No cache, an old one or a recent one; visits, scrolls and jumps, with   *)
(* errors.                                                                 *)
PagePlans ==
    {Plan(5, 6, {3}, S, 20, TRUE, "visit" :> 1 @@ "older" :> 1 @@ "around" :> 2) : S \in {{}, {1, 2}, {4, 5}}}

(* No cache and one jump, in a longer chat.                                *)
SeamPlan == Plan(6, 8, {}, {}, 20, FALSE, "visit" :> 1 @@ "older" :> 2 @@ "around" :> 1)

(* An edit and a send race the pages, in a window at its cap.              *)
ChangePlans ==
    {Plan(3, 4, {}, S, 3, FALSE, "older" :> 1 @@ "around" :> 1 @@ "edit" :> 1 @@ "send" :> 1) :
        S \in {{}, {1, 2}}}

(* The gateway drops, the network stops, the sync runs.                    *)
DropPlan == Plan(3, 4, {2}, {}, 2, FALSE, "visit" :> 1 @@ "older" :> 1 @@ "since" :> 1
                                             @@ "drop" :> 1 @@ "stop" :> 1)

(* Errors and a stop: what must end.                                       *)
EndPlan == Plan(3, 3, {2}, {}, 3, TRUE, "visit" :> 1 @@ "older" :> 1 @@ "around" :> 1
                                           @@ "since" :> 1 @@ "stop" :> 1)

MCPlans == PagePlans \cup ChangePlans \cup {SeamPlan, DropPlan, EndPlan}
=============================================================================
