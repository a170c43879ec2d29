---------------------------- MODULE MCCacheStore ----------------------------
(* Instances of CacheStore for TLC. *)
EXTENDS CacheStore, TLC

CONSTANTS c1, c2, a1, a2

Telegram == [history |-> TRUE, sync |-> TRUE, early |-> FALSE]
Discord == [history |-> TRUE, sync |-> FALSE, early |-> TRUE]
Irc == [history |-> FALSE, sync |-> FALSE, early |-> FALSE]

\* The deeds that are not named are never done.
Does(n, deeds) ==
    [net |-> n, times |-> [d \in Deed |-> IF d \in DOMAIN deeds THEN deeds[d] ELSE 0]]

\* Two accounts, one after the other.
AccountsPlan == Does(Telegram, "start" :> 2 @@ "login" :> 2 @@ "dialogs" :> 1 @@ "post" :> 2 @@ "page" :> 1)

\* Edits and pages, while writes wait.
EditsPlan == Does(Discord, "start" :> 2 @@ "login" :> 1 @@ "post" :> 2 @@ "edit" :> 1 @@ "page" :> 1
                           @@ "leave" :> 1 @@ "miss" :> 1)

\* The files are the only copy.
OnlyCopyPlan == Does(Irc, "start" :> 2 @@ "login" :> 1 @@ "post" :> 2 @@ "close" :> 1
                          @@ "clear" :> 1 @@ "leave" :> 1)

\* Chats that go while the sync runs.
SyncPlan == Does(Telegram, "start" :> 1 @@ "login" :> 2 @@ "dialogs" :> 2 @@ "miss" :> 1
                           @@ "leave" :> 1 @@ "fail" :> 1)

\* Crashes and writes that fail.
FailPlan == Does(Irc, "start" :> 2 @@ "login" :> 1 @@ "post" :> 2 @@ "close" :> 1 @@ "fail" :> 1 @@ "kill" :> 1)

\* A message, then /clear.
ClearPlan == Does(Irc, "start" :> 1 @@ "login" :> 1 @@ "post" :> 1 @@ "clear" :> 1)

\* A login between two of another account, stopped before its list.
StopPlan == Does(Telegram, "start" :> 2 @@ "login" :> 3 @@ "dialogs" :> 1 @@ "post" :> 1)

MCPlans == {AccountsPlan, EditsPlan, OnlyCopyPlan, SyncPlan, FailPlan}
JustStop == {StopPlan}
JustClear == {ClearPlan}
=============================================================================
