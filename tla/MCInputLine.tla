---------------------------- MODULE MCInputLine ----------------------------
(* Instances of InputLine for TLC. *)
EXTENDS InputLine, TLC

CONSTANTS c1, c2, n1, n2

MCNetOf == c1 :> n1 @@ c2 :> n2

Both == {c1, c2}

\* Windows that open, close and change, with drafts; one of search results.
WindowsPlan == [deeds |-> {"goto", "close", "open", "gone", "hook", "browse"},
    chats |-> Both, agg |-> FALSE]
SearchPlan == [deeds |-> {"goto", "close", "open", "gone", "search", "hook"},
    chats |-> Both, agg |-> FALSE]

\* The modes of the input, and a window that changes under them.
ModesPlan == [deeds |-> {"goto", "open", "gone", "hook", "reply", "edit", "paste", "multi"},
    chats |-> {c1}, agg |-> FALSE]
CaptionPlan == [deeds |-> {"goto", "open", "image", "caption"},
    chats |-> Both, agg |-> FALSE]
FailsPlan == [deeds |-> {"goto", "open", "gone", "hook", "edit", "editfails", "reply", "paste"},
    chats |-> Both, agg |-> FALSE]

\* Logins that interrupt all that.
LoginsPlan == [deeds |-> {"goto", "open", "close", "prompt", "stop", "reply"},
    chats |-> Both, agg |-> FALSE]
BrokenPlan == [deeds |-> {"open", "close", "search", "prompt", "stop"},
    chats |-> {c1}, agg |-> FALSE]
PastePlan == [deeds |-> {"goto", "open", "close", "prompt", "stop", "reply", "paste", "edit"},
    chats |-> {c1}, agg |-> FALSE]
LandingPlan == [deeds |-> {"goto", "open", "search", "gone", "edit", "editfails", "prompt", "stop"},
    chats |-> {c1}, agg |-> TRUE]

\* Chats and accounts that go.
AccountPlan == [deeds |-> {"goto", "open", "prompt", "stop", "prune", "account", "reply"},
    chats |-> Both, agg |-> FALSE]

\* A login while window 0 has a draft.
LoginPlan == [deeds |-> {"goto", "open", "prompt"}, chats |-> Both, agg |-> FALSE]

MCPlans == {WindowsPlan, SearchPlan, ModesPlan, CaptionPlan, FailsPlan, LoginsPlan, BrokenPlan,
            PastePlan, LandingPlan, AccountPlan}
JustLogin == {LoginPlan}
=============================================================================
