------------------------- MODULE RecordClientsProofs -------------------------
(***************************************************************************)
(* Telegram and Discord, for any number of slots, targets, messages and    *)
(* steps: the invariants of their records. Each step is the step of one    *)
(* scene; it changes the fields of that scene and leaves the others. The   *)
(* theorems are of ClientsProofs, where the clients run side by side.      *)
(***************************************************************************)
EXTENDS RecordClients, FiniteSets, Sequences, FiniteSetTheorems, SequenceTheorems, TLAPS

-----------------------------------------------------------------------------
(* Records. Telegram and Discord keep their state in one record each: what *)
(* an EXCEPT changes, and what it leaves.                                  *)

IsRec(F, p) == p = [f \in F |-> p[f]]
Only(G, p, q) == DOMAIN q = DOMAIN p /\ \A f \in DOMAIN p \ G : q[f] = p[f]
With(p, f, v) == [p EXCEPT ![f] = v]
With2(p, f, v, g, w) == With(With(p, f, v), g, w)
With3(p, f, v, g, w, h, x) == With(With2(p, f, v, g, w), h, x)
With4(p, f, v, g, w, h, x, i, y) == With(With3(p, f, v, g, w, h, x), i, y)

LEMMA Put == ASSUME NEW F, NEW p, IsRec(F, p), NEW f \in F, NEW v
             PROVE  IsRec(F, With(p, f, v)) /\ With(p, f, v)[f] = v /\ Only({f}, p, With(p, f, v))
  BY SMT DEF IsRec, Only, With

LEMMA Put2 == ASSUME NEW F, NEW p, IsRec(F, p), NEW f \in F, NEW g \in F, f # g, NEW v, NEW w
              PROVE  /\ IsRec(F, With2(p, f, v, g, w)) /\ Only({f, g}, p, With2(p, f, v, g, w))
                     /\ With2(p, f, v, g, w)[f] = v /\ With2(p, f, v, g, w)[g] = w
<1>1. PICK q : q = With2(p, f, v, g, w)
  OBVIOUS
<1>2. IsRec(F, With(p, f, v)) /\ With(p, f, v)[f] = v /\ Only({f}, p, With(p, f, v))
  BY Put
<1>3. IsRec(F, q) /\ q[g] = w /\ Only({g}, With(p, f, v), q)
  BY <1>1, <1>2, Put DEF With2
<1>4. q[f] = v /\ Only({f, g}, p, q)
  BY <1>2, <1>3 DEF IsRec, Only
<1> QED
  BY <1>1, <1>3, <1>4

LEMMA Put3 == ASSUME NEW F, NEW p, IsRec(F, p), NEW f \in F, NEW g \in F, NEW h \in F, f # g, f # h, g # h,
                     NEW v, NEW w, NEW x
              PROVE  /\ IsRec(F, With3(p, f, v, g, w, h, x)) /\ Only({f, g, h}, p, With3(p, f, v, g, w, h, x))
                     /\ With3(p, f, v, g, w, h, x)[f] = v /\ With3(p, f, v, g, w, h, x)[g] = w
                     /\ With3(p, f, v, g, w, h, x)[h] = x
<1>1. PICK q : q = With3(p, f, v, g, w, h, x)
  OBVIOUS
<1> DEFINE r == With2(p, f, v, g, w)
<1>3. IsRec(F, r) /\ r[f] = v /\ r[g] = w /\ Only({f, g}, p, r)
  BY Put2
<1> HIDE DEF r
<1>4. IsRec(F, q) /\ q[h] = x /\ Only({h}, r, q)
  <2>1. q = With(r, h, x)
    BY <1>1 DEF r, With3
  <2> QED
    BY <2>1, <1>3, Put
<1>5. q[f] = v /\ q[g] = w /\ Only({f, g, h}, p, q)
  BY <1>3, <1>4 DEF IsRec, Only
<1> QED
  BY <1>1, <1>4, <1>5

LEMMA Put4 == ASSUME NEW F, NEW p, IsRec(F, p), NEW f \in F, NEW g \in F, NEW h \in F, NEW i \in F,
                     f # g, f # h, g # h, f # i, g # i, h # i, NEW v, NEW w, NEW x, NEW y
              PROVE  /\ IsRec(F, With4(p, f, v, g, w, h, x, i, y))
                     /\ Only({f, g, h, i}, p, With4(p, f, v, g, w, h, x, i, y))
                     /\ With4(p, f, v, g, w, h, x, i, y)[f] = v /\ With4(p, f, v, g, w, h, x, i, y)[g] = w
                     /\ With4(p, f, v, g, w, h, x, i, y)[h] = x /\ With4(p, f, v, g, w, h, x, i, y)[i] = y
<1>1. PICK q : q = With4(p, f, v, g, w, h, x, i, y)
  OBVIOUS
<1> DEFINE r == With3(p, f, v, g, w, h, x)
<1>3. IsRec(F, r) /\ r[f] = v /\ r[g] = w /\ r[h] = x /\ Only({f, g, h}, p, r)
  BY Put3
<1> HIDE DEF r
<1>4. IsRec(F, q) /\ q[i] = y /\ Only({i}, r, q)
  <2>1. q = With(r, i, y)
    BY <1>1 DEF r, With4
  <2> QED
    BY <2>1, <1>3, Put
<1>5. q[f] = v /\ q[g] = w /\ q[h] = x /\ Only({f, g, h, i}, p, q)
  BY <1>3, <1>4 DEF IsRec, Only
<1> QED
  BY <1>1, <1>4, <1>5

LEMMA RecDomain == ASSUME NEW F, NEW p, IsRec(F, p) PROVE DOMAIN p = F
  BY DEF IsRec

LEMMA Only2 == ASSUME NEW G, NEW H, NEW p, NEW q, NEW r, Only(G, p, q), Only(H, q, r) PROVE Only(G \cup H, p, r)
  BY DEF Only

LEMMA AppendAt == ASSUME NEW S, NEW s \in Seq(S), NEW e \in S
    PROVE /\ Append(s, e) \in Seq(S) /\ DOMAIN Append(s, e) = DOMAIN s \cup {Len(s) + 1} /\ Len(s) + 1 \notin DOMAIN s
          /\ Append(s, e)[Len(s) + 1] = e /\ \A i \in DOMAIN s : Append(s, e)[i] = s[i] /\ i < Len(s) + 1
  OBVIOUS

-----------------------------------------------------------------------------
(* Telegram: which fields of its record a step changes.                    *)

TgFields == {"scene", "now", "until", "warns", "openings", "seen", "calls", "sv", "ui", "ups", "tasks", "fills", "fillSeq",
             "read", "was", "sure", "pinFetched", "files", "path", "temps", "gone", "cancelled", "lg"}
TgCallFields == {"now", "until", "warns", "openings", "seen", "calls"}
TgUpdateFields == {"sv", "ui", "ups", "tasks", "fills", "fillSeq", "read", "was", "sure", "pinFetched"}
TgFileFields == {"files", "path", "temps", "gone", "cancelled"}
TgShape == IsRec(TgFields, tg)

TgCallStep == T!Tick \/ T!Calls \/ \E op \in T!Ops : T!Call(op)
TgUpdateStep == \/ T!ServerEdits \/ (\E v \in SUBSET {"me", "other"} : T!ServerReacts(v)) \/ (\E id \in 1..2 : T!ServerPins(id))
                \/ T!Handle \/ T!Tasks \/ T!FetchPins \/ (\E v \in SUBSET {"me"} : T!React(v))
TgFileStep == T!Download \/ (\E work \in BOOLEAN : T!Upload(work)) \/ T!Transfers \/ T!Cancel
TgLoginStep == T!ShowQR \/ T!Type \/ T!Login

LEMMA TgNextParts == T!TgcNext <=> TgCallStep \/ TgUpdateStep \/ TgFileStep \/ TgLoginStep
  BY DEF T!TgcNext, TgCallStep, TgUpdateStep, TgFileStep, TgLoginStep

(* The login.                                                              *)
QRFields == {"auth", "at", "overlay", "prompt", "typed"}
TgLoginInv ==
    /\ IsRec(QRFields, tg.lg)
    /\ tg.lg.auth \in {"on", "off", "ok", "password", "failed"}
    /\ tg.lg.at = "qr" => tg.lg.auth # "off"
    /\ tg.lg.at \notin {"qr", "off"} => tg.lg.auth # "on" /\ ~tg.lg.overlay

LEMMA TgLoginOnly == ASSUME TgShape, NEW lg, tg' = With(tg, "lg", lg) PROVE TgShape' /\ tg'.lg = lg /\ Only({"lg"}, tg, tg')
<1>1. "lg" \in TgFields
  BY DEF TgFields
<1> QED
  BY <1>1, Put DEF TgShape

LEMMA TgLoginPut == ASSUME TgShape, IsRec(QRFields, tg.lg), NEW f \in QRFields, NEW v, tg' = With(tg, "lg", With(tg.lg, f, v))
                    PROVE  /\ TgShape' /\ Only({"lg"}, tg, tg')
                           /\ IsRec(QRFields, tg'.lg) /\ tg'.lg[f] = v /\ \A g \in QRFields \ {f} : tg'.lg[g] = tg.lg[g]
  BY TgLoginOnly, Put, RecDomain DEF Only

LEMMA TgQRDone == ASSUME TgShape, IsRec(QRFields, tg.lg), NEW where, NEW prompt, tg' = T!QRDone(tg, where, prompt)
                  PROVE  /\ TgShape' /\ Only({"lg"}, tg, tg')
                         /\ IsRec(QRFields, tg'.lg) /\ tg'.lg.auth = tg.lg.auth /\ tg'.lg.at = where
                         /\ tg'.lg.overlay = FALSE /\ tg'.lg.prompt = prompt
<1>1. PICK no : no = FALSE
  OBVIOUS
<1> DEFINE lg == With4(tg.lg, "at", where, "overlay", no, "prompt", prompt, "typed", no)
<1>2. tg' = With(tg, "lg", lg)
  BY <1>1 DEF T!QRDone, With4, With3, With2, With, TgShape, IsRec, TgFields
<1>3. IsRec(QRFields, lg) /\ lg.at = where /\ lg.overlay = FALSE /\ lg.prompt = prompt /\ Only({"at", "overlay", "prompt", "typed"}, tg.lg, lg)
  <2>1. /\ "at" \in QRFields /\ "overlay" \in QRFields /\ "prompt" \in QRFields /\ "typed" \in QRFields
        /\ "at" # "overlay" /\ "at" # "prompt" /\ "at" # "typed" /\ "overlay" # "prompt" /\ "overlay" # "typed" /\ "prompt" # "typed"
    BY DEF QRFields
  <2> QED
    BY <1>1, <2>1, Put4
<1> HIDE DEF lg
<1>4. lg.auth = tg.lg.auth
  BY <1>3 DEF Only, IsRec, QRFields
<1> QED
  BY <1>2, <1>3, <1>4, TgLoginOnly

LEMMA TgLoginRight == ASSUME TgShape, TgLoginInv, TgLoginStep PROVE (TgShape /\ TgLoginInv)' /\ Only({"lg"}, tg, tg')
<1>1. ASSUME NEW f \in QRFields \ {"auth", "at"}, NEW v, tg' = With(tg, "lg", With(tg.lg, f, v)), f = "overlay" => tg.lg.auth = "on"
      PROVE (TgShape /\ TgLoginInv)' /\ Only({"lg"}, tg, tg')
  <2>1. TgShape' /\ Only({"lg"}, tg, tg') /\ IsRec(QRFields, tg'.lg) /\ tg'.lg.auth = tg.lg.auth /\ tg'.lg.at = tg.lg.at
        /\ (tg'.lg.overlay = tg.lg.overlay \/ f = "overlay")
    BY <1>1, TgLoginPut DEF TgLoginInv, QRFields
  <2> QED
    BY <1>1, <2>1 DEF TgLoginInv
<1>2. CASE T!ShowQR
  <2>1. tg' = With(tg, "lg", With(tg.lg, "overlay", TRUE)) /\ tg.lg.auth = "on"
    BY <1>2 DEF T!ShowQR, T!Does, With
  <2> QED
    BY <2>1, <1>1 DEF QRFields
<1>3. CASE T!Type
  <2>1. tg' = With(tg, "lg", With(tg.lg, "typed", TRUE))
    BY <1>3 DEF T!Type, T!Does, With
  <2> QED
    BY <2>1, <1>1 DEF QRFields
<1>4. CASE T!Ask
  <2>1. tg' = With(tg, "lg", With(tg.lg, "prompt", "plain"))
    BY <1>4 DEF T!Ask, T!Goes, With
  <2> QED
    BY <2>1, <1>1 DEF QRFields
<1>5. ASSUME NEW r \in {"ok", "password", "failed"}, T!AuthEnds(r) PROVE (TgShape /\ TgLoginInv)' /\ Only({"lg"}, tg, tg')
  <2>1. tg' = With(tg, "lg", With(tg.lg, "auth", r))
    BY <1>5 DEF T!AuthEnds, T!Goes, With
  <2>2. TgShape' /\ Only({"lg"}, tg, tg') /\ IsRec(QRFields, tg'.lg) /\ tg'.lg.auth = r /\ tg'.lg.at = tg.lg.at
        /\ tg'.lg.overlay = tg.lg.overlay
    BY <2>1, TgLoginPut DEF TgLoginInv, QRFields
  <2> QED
    BY <2>2 DEF TgLoginInv
<1>6. ASSUME NEW where \in {"in", "phone", "password"}, NEW prompt, tg' = T!QRDone(tg, where, prompt), tg.lg.auth # "on"
      PROVE (TgShape /\ TgLoginInv)' /\ Only({"lg"}, tg, tg')
  <2>1. tg'.lg.auth = tg.lg.auth /\ tg'.lg.at = where /\ tg'.lg.overlay = FALSE /\ IsRec(QRFields, tg'.lg) /\ TgShape' /\ Only({"lg"}, tg, tg')
    BY <1>6, TgQRDone DEF TgLoginInv
  <2> QED
    BY <2>1, <1>6 DEF TgLoginInv
<1>7. CASE T!Answered
  BY <1>7, <1>6 DEF T!Answered, T!Goes, TgLoginInv
<1>8. CASE T!TakeLine
  BY <1>8, <1>6 DEF T!TakeLine, T!Goes, TgLoginInv
<1>9. CASE T!TakeAuth
  BY <1>9, <1>6 DEF T!TakeAuth, T!Goes, TgLoginInv
<1> QED
  BY <1>2, <1>3, <1>4, <1>5, <1>7, <1>8, <1>9 DEF TgLoginStep, T!Login

(* The calls and the breaker.                                              *)
Breaker(p) ==
    /\ p.now \in Int /\ p.until \in Int /\ p.warns \in Int /\ p.openings \in Int
    /\ p.warns = p.openings
\* What a call may do to the breaker and to the peers seen.
Kept(p, q) ==
    /\ IsRec(TgFields, q) /\ Breaker(q) /\ Only(TgCallFields, p, q)
    /\ q.until >= p.until /\ (p.seen = "whole" => q.seen = "whole")

LEMMA KeptSame == ASSUME NEW p, IsRec(TgFields, p), Breaker(p) PROVE Kept(p, p)
  BY DEF Kept, Breaker, Only

LEMMA KeptTrans == ASSUME NEW p, NEW q, NEW r, IsRec(TgFields, p), Breaker(p), Kept(p, q), Kept(q, r) PROVE Kept(p, r)
<1>1. Only(TgCallFields, p, r)
  BY DEF Kept, Only
<1> QED
  BY <1>1 DEF Kept, Breaker

LEMMA KeptCalls == ASSUME NEW p, IsRec(TgFields, p), Breaker(p), NEW v PROVE Kept(p, With(p, "calls", v))
<1>1. PICK q : q = With(p, "calls", v)
  OBVIOUS
<1>2. IsRec(TgFields, q) /\ Only({"calls"}, p, q)
  <2>1. "calls" \in TgFields
    BY DEF TgFields
  <2> QED
    BY <1>1, <2>1, Put
<1>3. /\ q.now = p.now /\ q.until = p.until /\ q.warns = p.warns /\ q.openings = p.openings /\ q.seen = p.seen
      /\ Only(TgCallFields, p, q)
  BY <1>2, RecDomain DEF Only, TgFields, TgCallFields
<1> QED
  BY <1>1, <1>2, <1>3 DEF Kept, Breaker

LEMMA KeptRemember == ASSUME NEW p, IsRec(TgFields, p), Breaker(p), NEW e \in {"min", "whole"} PROVE Kept(p, T!Remember(p, e))
<1>1. PICK q : q = T!Remember(p, e)
  OBVIOUS
<1>2. PICK v : v = IF e = "min" /\ p.seen # "none" THEN p.seen ELSE e
  OBVIOUS
<1>3. q = With(p, "seen", v)
  BY <1>1, <1>2 DEF T!Remember, With
<1>4. IsRec(TgFields, q) /\ Only({"seen"}, p, q) /\ q.seen = v
  <2>1. "seen" \in TgFields
    BY DEF TgFields
  <2> QED
    BY <1>3, <2>1, Put
<1>5. /\ q.now = p.now /\ q.until = p.until /\ q.warns = p.warns /\ q.openings = p.openings
      /\ Only(TgCallFields, p, q)
  BY <1>4, RecDomain DEF Only, TgFields, TgCallFields
<1>6. p.seen = "whole" => v = "whole"
  BY <1>2
<1> QED
  BY <1>1, <1>4, <1>5, <1>6 DEF Kept, Breaker

LEMMA PutFlood == ASSUME NEW p, IsRec(TgFields, p), NEW u, NEW w, NEW o
                  PROVE  LET z == With3(p, "until", u, "warns", w, "openings", o)
                         IN  /\ IsRec(TgFields, z) /\ Only({"until", "warns", "openings"}, p, z)
                             /\ z["until"] = u /\ z["warns"] = w /\ z["openings"] = o
<1>1. /\ "until" \in TgFields /\ "warns" \in TgFields /\ "openings" \in TgFields
      /\ "until" # "warns" /\ "until" # "openings" /\ "warns" # "openings"
  BY DEF TgFields
<1> QED
  BY <1>1, Put3

LEMMA KeptFloodTrip == ASSUME NEW p, IsRec(TgFields, p), Breaker(p), Wait \in Nat PROVE Kept(p, T!FloodTrip(p, Wait))
<1>1. PICK q : q = T!FloodTrip(p, Wait)
  OBVIOUS
<1>2. PICK u : u = IF p.now + Wait > p.until THEN p.now + Wait ELSE p.until
  OBVIOUS
<1>3. PICK w : w = IF T!FloodOK(p) THEN p.warns + 1 ELSE p.warns
  OBVIOUS
<1>4. PICK o : o = IF T!FloodOK(p) THEN p.openings + 1 ELSE p.openings
  OBVIOUS
<1>5. q = With3(p, "until", u, "warns", w, "openings", o)
  BY <1>1, <1>2, <1>3, <1>4 DEF T!FloodTrip, With3, With2, With
<1>9. LET z == With3(p, "until", u, "warns", w, "openings", o)
      IN  IsRec(TgFields, z) /\ Only({"until", "warns", "openings"}, p, z) /\ z["until"] = u /\ z["warns"] = w /\ z["openings"] = o
  BY PutFlood
<1>6. IsRec(TgFields, q) /\ Only({"until", "warns", "openings"}, p, q) /\ q.until = u /\ q.warns = w /\ q.openings = o
  BY <1>5, <1>9
<1>7. q.now = p.now /\ q.seen = p.seen /\ Only(TgCallFields, p, q)
  BY <1>6, RecDomain DEF Only, TgFields, TgCallFields
<1>8. u \in Int /\ w \in Int /\ o \in Int /\ u >= p.until /\ w = o
  BY <1>2, <1>3, <1>4 DEF Breaker
<1> QED
  BY <1>1, <1>6, <1>7, <1>8 DEF Kept, Breaker

LEMMA KeptEnds == ASSUME NEW p, IsRec(TgFields, p), Breaker(p), NEW c, NEW ph, NEW ok
                  PROVE  Kept(p, T!To(p, c, ph)) /\ Kept(p, T!Ends(p, c, ok))
<1>1. \E v : T!To(p, c, ph) = With(p, "calls", v)
  BY DEF T!To, With
<1>2. \E v : T!Ends(p, c, ok) = With(p, "calls", v)
  BY DEF T!Ends, With
<1> QED
  BY <1>1, <1>2, KeptCalls

\* A call, however it ends, keeps the breaker.
LEMMA TgCallKept == ASSUME TgShape, Breaker(tg), Wait \in Nat, TgCallStep PROVE Kept(tg, tg')
<1> USE DEF TgShape
<1>1. CASE T!Tick
  <2>1. tg' = With(tg, "now", tg.now + 1)
    BY <1>1 DEF T!Tick, With
  <2>2. IsRec(TgFields, tg') /\ Only({"now"}, tg, tg') /\ tg'.now = tg.now + 1
    <3>1. "now" \in TgFields
      BY DEF TgFields
    <3> QED
      BY <2>1, <3>1, Put
  <2>3. /\ tg'.until = tg.until /\ tg'.warns = tg.warns /\ tg'.openings = tg.openings /\ tg'.seen = tg.seen
        /\ Only(TgCallFields, tg, tg')
    BY <2>2, RecDomain DEF Only, TgFields, TgCallFields
  <2> QED
    BY <2>2, <2>3 DEF Kept, Breaker
<1>2. ASSUME NEW op, T!Call(op) PROVE Kept(tg, tg')
  <2>1. tg' = tg \/ \E v : tg' = With(tg, "calls", v)
    BY <1>2 DEF T!Call, T!Does, With
  <2> QED
    BY <2>1, KeptSame, KeptCalls
<1>3. ASSUME NEW c, T!Check(c) PROVE Kept(tg, tg')
  BY <1>3, KeptEnds DEF T!Check, T!Goes
<1>4. ASSUME NEW c, NEW r \in {"err", "flood", "panic", "min", "whole"}, tg' = T!Returned(tg, c, r) PROVE Kept(tg, tg')
  <2>1. PICK q : /\ q = tg \/ q = T!FloodTrip(tg, Wait)
                 /\ q = IF r = "flood" /\ (IF c.ph = "net" THEN c.op.trips ELSE c.op.more \in {"gated", "trips"})
                        THEN T!FloodTrip(tg, Wait) ELSE tg
    OBVIOUS
  <2>2. PICK known : /\ known = q \/ (r \in {"min", "whole"} /\ known = T!Remember(q, r))
                     /\ known = IF r \in {"min", "whole"} THEN T!Remember(q, r) ELSE q
    OBVIOUS
  <2>3. Kept(tg, q)
    BY <2>1, KeptSame, KeptFloodTrip
  <2>4. Kept(q, known)
    BY <2>2, <2>3, KeptSame, KeptRemember DEF Kept
  <2>5. Kept(tg, known)
    BY <2>3, <2>4, KeptTrans
  <2>6. ASSUME NEW z, Kept(tg, z), NEW v, Kept(z, v) PROVE Kept(tg, v)
    BY <2>6, KeptTrans
  <2>7. ASSUME NEW z, Kept(tg, z), NEW ph, NEW ok PROVE Kept(tg, T!To(z, c, ph)) /\ Kept(tg, T!Ends(z, c, ok))
    BY <2>6, <2>7, KeptEnds DEF Kept
  <2> DEFINE ok == r \notin {"err", "flood"}
  <2>8. T!Returned(tg, c, r) =
          CASE r = "panic" -> IF c.op.name \in T!Quiet \/ c.op.answer # "always" THEN T!To(tg, c, "lost") ELSE T!Ends(tg, c, FALSE)
          [] c.ph = "net" /\ ok /\ r # "panic" -> IF c.op.more = "none" THEN T!Ends(known, c, TRUE) ELSE T!To(known, c, "more")
          [] c.ph = "net" /\ ~ok -> T!Ends(q, c, c.op.gate = "soft" \/ c.op.name = "loadReactions")
          [] OTHER -> T!Ends(known, c, ok \/ c.op.more \in {"gated", "trips"})
    BY <2>1, <2>2 DEF T!Returned
  <2> QED
    BY <1>4, <2>3, <2>5, <2>7, <2>8, KeptSame
<1>5. CASE T!Calls
  BY <1>3, <1>4, <1>5 DEF T!Calls, T!Returns, T!Goes
<1> QED
  BY <1>1, <1>2, <1>5 DEF TgCallStep

(* The steps of the other scenes leave the rest of the record alone.       *)
Within(F, G, p, q) == IsRec(F, q) /\ Only(G, p, q)

LEMMA WithinSame == ASSUME NEW F, NEW G, NEW p, IsRec(F, p) PROVE Within(F, G, p, p)
  BY DEF Within, Only

LEMMA WithinPut == ASSUME NEW F, NEW G, G \subseteq F, NEW p, NEW q, Within(F, G, p, q), NEW f \in G, NEW v
                   PROVE  Within(F, G, p, With(q, f, v))
<1>1. IsRec(F, With(q, f, v)) /\ Only({f}, q, With(q, f, v))
  BY Put DEF Within
<1>2. Only(G, p, With(q, f, v))
  BY <1>1 DEF Within, Only
<1> QED
  BY <1>1, <1>2 DEF Within

LEMMA WithinPut2 == ASSUME NEW F, NEW G, G \subseteq F, NEW p, NEW q, Within(F, G, p, q), NEW f \in G, NEW v, NEW g \in G, NEW w
                    PROVE  Within(F, G, p, With2(q, f, v, g, w))
<1>1. Within(F, G, p, With(q, f, v))
  BY WithinPut
<1> QED
  BY <1>1, WithinPut DEF With2

LEMMA WithinPut3 == ASSUME NEW F, NEW G, G \subseteq F, NEW p, NEW q, Within(F, G, p, q), NEW f \in G, NEW v, NEW g \in G, NEW w,
                           NEW h \in G, NEW x
                    PROVE  Within(F, G, p, With3(q, f, v, g, w, h, x))
<1>1. Within(F, G, p, With2(q, f, v, g, w))
  BY WithinPut2
<1> QED
  BY <1>1, WithinPut DEF With3

TgUpdate(p, q) == Within(TgFields, TgUpdateFields, p, q)
TgFile(p, q) == Within(TgFields, TgFileFields, p, q)

LEMMA TgUpdatePut == ASSUME NEW p, NEW q, TgUpdate(p, q), NEW f \in TgUpdateFields, NEW v PROVE TgUpdate(p, With(q, f, v))
  BY WithinPut DEF TgUpdate, TgFields, TgUpdateFields

LEMMA TgFilePut == ASSUME NEW p, NEW q, TgFile(p, q), NEW f \in TgFileFields, NEW v PROVE TgFile(p, With(q, f, v))
  BY WithinPut DEF TgFile, TgFields, TgFileFields

LEMMA TgUpdateMany ==
    ASSUME NEW p, NEW q, TgUpdate(p, q)
    PROVE  /\ \A v : TgUpdate(p, With(q, "sv", v)) /\ TgUpdate(p, With(q, "ui", v)) /\ TgUpdate(p, With(q, "ups", v))
                     /\ TgUpdate(p, With(q, "tasks", v)) /\ TgUpdate(p, With(q, "fills", v))
           /\ \A v : TgUpdate(p, With(q, "fillSeq", v)) /\ TgUpdate(p, With(q, "read", v)) /\ TgUpdate(p, With(q, "was", v))
                     /\ TgUpdate(p, With(q, "sure", v)) /\ TgUpdate(p, With(q, "pinFetched", v))
<1>1. /\ "sv" \in TgUpdateFields /\ "ui" \in TgUpdateFields /\ "ups" \in TgUpdateFields /\ "tasks" \in TgUpdateFields
      /\ "fills" \in TgUpdateFields /\ "fillSeq" \in TgUpdateFields /\ "read" \in TgUpdateFields /\ "was" \in TgUpdateFields
      /\ "sure" \in TgUpdateFields /\ "pinFetched" \in TgUpdateFields
  BY DEF TgUpdateFields
<1> QED
  BY <1>1, TgUpdatePut

LEMMA TgFileMany ==
    ASSUME NEW p, NEW q, TgFile(p, q)
    PROVE  \A v : TgFile(p, With(q, "files", v)) /\ TgFile(p, With(q, "path", v)) /\ TgFile(p, With(q, "temps", v))
                  /\ TgFile(p, With(q, "gone", v)) /\ TgFile(p, With(q, "cancelled", v))
<1>1. /\ "files" \in TgFileFields /\ "path" \in TgFileFields /\ "temps" \in TgFileFields /\ "gone" \in TgFileFields
      /\ "cancelled" \in TgFileFields
  BY DEF TgFileFields
<1> QED
  BY <1>1, TgFilePut

LEMMA TgFileFrame == ASSUME TgShape, TgFileStep PROVE TgFile(tg, tg')
<1>1. TgFile(tg, tg)
  BY WithinSame DEF TgFile, TgShape
<1>2. CASE T!Download \/ \E work \in BOOLEAN : T!Upload(work)
  <2>1. \E v : tg' = With(tg, "files", v)
    BY <1>2 DEF T!Download, T!Upload, T!Does, With
  <2> QED
    BY <1>1, <2>1, TgFileMany
<1>3. CASE T!Cancel
  <2>1. \E v : tg' = With(tg, "cancelled", v)
    BY <1>3 DEF T!Cancel, T!Does, With
  <2> QED
    BY <1>1, <2>1, TgFileMany
<1>4. ASSUME NEW x, T!Slot(x) PROVE TgFile(tg, tg')
  <2>1. \E v : tg' = With(tg, "files", v)
    BY <1>4 DEF T!Slot, T!Goes, With
  <2> QED
    BY <1>1, <2>1, TgFileMany
<1>5. ASSUME NEW x, T!Get(x) PROVE TgFile(tg, tg')
  <2>1. \/ \E v : tg' = With(tg, "files", v)
        \/ \E v, w : tg' = With(With(tg, "files", v), "temps", w)
        \/ \E u, v, w : tg' = With(With(With(tg, "temps", u), "path", v), "files", w)
    BY <1>5 DEF T!Get, T!Goes, With
  <2> QED
    BY <1>1, <2>1, TgFileMany
<1>6. ASSUME NEW x, T!Put(x) PROVE TgFile(tg, tg')
  <2>1. \E v, w : tg' = With(With(tg, "gone", v), "files", w)
    BY <1>6 DEF T!Put, T!Goes, With
  <2> QED
    BY <1>1, <2>1, TgFileMany
<1> QED
  BY <1>2, <1>3, <1>4, <1>5, <1>6 DEF TgFileStep, T!Transfers, T!Transfer

LEMMA TgUpdateHelpers == ASSUME NEW p, NEW q, TgUpdate(p, q)
                         PROVE  /\ \A v, fill : TgUpdate(p, T!OnMessage(q, v, fill)) /\ TgUpdate(p, T!Reacted(q, v, fill))
                                /\ \A id : TgUpdate(p, T!Pinned(q, id)) /\ TgUpdate(p, T!FetchedPin(q, id))
                                /\ \A k : TgUpdate(p, T!Gone(q, k))
<1>1. ASSUME NEW v, NEW fill PROVE TgUpdate(p, T!OnMessage(q, v, fill))
  <2>1. \E a1, b1, c1, d1, e1 : T!OnMessage(q, v, fill) = With(With(With(With(With(q, "fillSeq", a1), "fills", b1), "ui", c1), "ui", d1), "tasks", e1)
    BY Zenon DEF T!OnMessage, With
  <2> QED
    BY <2>1, TgUpdateMany
<1>2. ASSUME NEW v, NEW fill PROVE TgUpdate(p, T!Reacted(q, v, fill))
  <2>1. \E a1 : T!Reacted(q, v, fill) = With(q, "ui", a1)
    BY DEF T!Reacted, With
  <2> QED
    BY <2>1, TgUpdateMany
<1>3. ASSUME NEW id PROVE TgUpdate(p, T!Pinned(q, id))
  <2>1. \E a1 : T!Pinned(q, id) = With(q, "ui", a1)
    BY DEF T!Pinned, With
  <2> QED
    BY <2>1, TgUpdateMany
<1>4. ASSUME NEW id PROVE TgUpdate(p, T!FetchedPin(q, id))
  <2>1. \E a1 : T!FetchedPin(q, id) = With(q, "ui", a1)
    BY DEF T!FetchedPin, With
  <2> QED
    BY <2>1, TgUpdateMany
<1>5. ASSUME NEW k PROVE TgUpdate(p, T!Gone(q, k))
  <2>1. \E a1 : T!Gone(q, k) = With(q, "tasks", a1)
    BY DEF T!Gone, With
  <2> QED
    BY <2>1, TgUpdateMany
<1> QED
  BY <1>1, <1>2, <1>3, <1>4, <1>5
LEMMA TgUpdateFrame == ASSUME TgShape, TgUpdateStep PROVE TgUpdate(tg, tg')
<1>1. TgUpdate(tg, tg)
  BY WithinSame DEF TgUpdate, TgShape
<1>2. ASSUME NEW next, NEW up, T!Server(next, up) PROVE TgUpdate(tg, tg')
  <2>1. \E a1, b1 : tg' = With(With(tg, "sv", a1), "ups", b1)
    BY <1>2, Zenon DEF T!Server, T!Does, With
  <2> QED
    BY <1>1, <2>1, TgUpdateMany
<1>3. CASE T!ServerEdits
  BY <1>3, <1>2 DEF T!ServerEdits
<1>4. ASSUME NEW v, T!ServerReacts(v) PROVE TgUpdate(tg, tg')
  BY <1>4, <1>2 DEF T!ServerReacts
<1>5. ASSUME NEW id, T!ServerPins(id) PROVE TgUpdate(tg, tg')
  BY <1>5, <1>2 DEF T!ServerPins
<1>6. CASE T!Handle
  <2>1. PICK up : up = Head(tg.ups)
    OBVIOUS
  <2>2. PICK p : p = With(tg, "ups", Tail(tg.ups))
    OBVIOUS
  <2>3. p = [tg EXCEPT !.ups = Tail(@)]
    BY <2>2 DEF With
  <2>4. \/ \E fill : tg' = T!OnMessage(p, up.v, fill)
        \/ tg' = With(T!Reacted(p, up.v, FALSE), "sure", TRUE)
        \/ tg' = T!Pinned(p, up.v)
    BY <1>6, <2>1, <2>3, Zenon DEF T!Handle, T!Goes, With
  <2>5. TgUpdate(tg, p)
    BY <1>1, <2>2, TgUpdateMany
  <2>6. \A v, fill : TgUpdate(tg, T!OnMessage(p, v, fill)) /\ TgUpdate(tg, T!Reacted(p, v, fill)) /\ TgUpdate(tg, T!Pinned(p, v))
    BY <2>5, TgUpdateHelpers
  <2> QED
    BY <2>4, <2>6, TgUpdateMany
<1>7. ASSUME NEW k, T!FillLater(k) PROVE TgUpdate(tg, tg')
  <2>1. \/ \E a1 : tg' = With(tg, "tasks", a1)
        \/ \E a1, b1, c1 : tg' = With(With(With(tg, "fills", a1), "read", b1), "tasks", c1)
        \/ \E a1, b1 : tg' = With(With(tg, "tasks", a1), "ui", b1)
    <3>1. CASE \E a1 : tg' = T!Step(k, a1, [k EXCEPT !.ph = "read"])
      BY <3>1, Zenon DEF T!Step, With
    <3>2. CASE tg' = [T!Gone(tg, k) EXCEPT !.ui.quote = TRUE]
      BY <3>2, Zenon DEF T!Gone, With
    <3>3. ASSUME NEW ok, NEW last,
                 tg' = LET p == [tg EXCEPT !.fills = IF last THEN None ELSE @, !.read = IF ok THEN @ \cup {k.v} ELSE @]
                       IN  [p EXCEPT !.tasks = (@ \ {k}) \cup IF last /\ ok THEN {[k EXCEPT !.ph = "post"]} ELSE {}]
          PROVE \E a1, b1, c1 : tg' = With(With(With(tg, "fills", a1), "read", b1), "tasks", c1)
      BY <3>3, Zenon DEF With
    <3> QED
      BY <1>7, <3>1, <3>2, <3>3, Zenon DEF T!FillLater, T!Goes
  <2> QED
    BY <1>1, <2>1, TgUpdateMany
<1>8. ASSUME NEW v, T!React(v) PROVE TgUpdate(tg, tg')
  <2>1. \E a1 : tg' = With(tg, "tasks", a1)
    BY <1>8, Zenon DEF T!React, T!Does, With
  <2> QED
    BY <1>1, <2>1, TgUpdateMany
<1>9. CASE T!FetchPins
  <2>1. \E a1, b1 : tg' = With(With(tg, "pinFetched", a1), "tasks", b1)
    BY <1>9, Zenon DEF T!FetchPins, T!Does, With
  <2> QED
    BY <1>1, <2>1, TgUpdateMany
<1>10. \A k, ph, z : TgUpdate(tg, T!Step(k, ph, z)) /\ TgUpdate(tg, T!Gone(tg, k))
  <2>1. \A k, ph, z : \E a1 : T!Step(k, ph, z) = With(tg, "tasks", a1)
    BY Zenon DEF T!Step, With
  <2> QED
    BY <1>1, <2>1, TgUpdateHelpers, TgUpdateMany
<1>11. ASSUME NEW k, T!ReactGoes(k) PROVE TgUpdate(tg, tg')
  <2>1. \/ tg' = T!Gone(tg, k)
        \/ \E ph, z, a1, b1, c1 : tg' = With(With(With(T!Step(k, ph, z), "sv", a1), "was", b1), "ups", c1)
        \/ \E ph, z, w, y, b1 : tg' = With(T!Reacted(T!Step(k, ph, z), w, y), "sure", b1)
        \/ \E ph, z : tg' = T!Step(k, ph, z)
        \/ \E w, y, b1 : tg' = With(T!Reacted(T!Gone(tg, k), w, y), "sure", b1)
    <3>1. ASSUME NEW v, tg' = [T!Step(k, "post", [k EXCEPT !.ph = "post", !.v = v]) EXCEPT
                                  !.sv.reacts = v, !.was = tg.sv.reacts, !.ups = Append(@, [k |-> "reacts", v |-> v])]
          PROVE \E ph, z, a1, b1, c1 : tg' = With(With(With(T!Step(k, ph, z), "sv", a1), "was", b1), "ups", c1)
      BY <3>1, Zenon DEF With
    <3>2. CASE tg' = [T!Reacted(T!Step(k, "read", [k EXCEPT !.ph = "read"]), k.v, FALSE) EXCEPT !.sure = k.v = tg.sv.reacts]
      BY <3>2, Zenon DEF With
    <3>3. CASE tg' = [T!Reacted(T!Gone(tg, k), k.v, TRUE) EXCEPT !.sure = @ \/ k.v = tg.sv.reacts]
      BY <3>3, Zenon DEF With
    <3> QED
      BY <1>11, <3>1, <3>2, <3>3, Zenon DEF T!ReactGoes, T!Goes
  <2>2. \A ph, z, w, y : TgUpdate(tg, T!Reacted(T!Step(k, ph, z), w, y)) /\ TgUpdate(tg, T!Reacted(T!Gone(tg, k), w, y))
    BY <1>10, TgUpdateHelpers
  <2>3. CASE \E ph, z, a1, b1, c1 : tg' = With(With(With(T!Step(k, ph, z), "sv", a1), "was", b1), "ups", c1)
    BY <2>3, <1>10, TgUpdateMany
  <2> QED
    BY <2>1, <2>2, <2>3, <1>10, TgUpdateMany
<1>12. ASSUME NEW k, T!PinsGo(k) PROVE TgUpdate(tg, tg')
  <2>1. \A id : TgUpdate(tg, T!FetchedPin(T!Gone(tg, k), id))
    BY <1>10, TgUpdateHelpers
  <2> QED
    BY <1>12, <1>10, <2>1 DEF T!PinsGo, T!Goes
<1> QED
  BY <1>3, <1>4, <1>5, <1>6, <1>7, <1>8, <1>9, <1>11, <1>12 DEF TgUpdateStep, T!Tasks

(* The breaker, for any length of a FLOOD_WAIT.                            *)
TgBreakerInv == TgShape /\ Breaker(tg)

LEMMA TgInitRight == ASSUME T!TgcInit PROVE TgShape /\ TgLoginInv /\ Breaker(tg)
<1>1. tg.now = 1 /\ tg.until = 0 /\ tg.warns = 0 /\ tg.openings = 0
  BY DEF T!TgcInit
<1>2. TgShape
  BY DEF T!TgcInit, TgShape, IsRec, TgFields
<1>3. IsRec(QRFields, tg.lg)
  BY DEF T!TgcInit, IsRec, QRFields
<1>4. /\ tg.lg.auth \in {"on", "off"}
      /\ tg.lg.at = "qr" => tg.lg.auth # "off"
      /\ tg.lg.at \in {"qr", "off"}
  BY DEF T!TgcInit
<1> QED
  BY <1>1, <1>2, <1>3, <1>4 DEF Breaker, TgLoginInv

LEMMA TgBreakerStep == ASSUME TgBreakerInv, TgLoginInv, [T!TgcNext]_tgcVars, Wait \in Nat PROVE TgBreakerInv' /\ T!BreakerHolds
<1>1. CASE TgCallStep
  <2>1. Kept(tg, tg')
    BY <1>1, TgCallKept DEF TgBreakerInv
  <2> QED
    BY <2>1 DEF Kept, TgBreakerInv, TgShape, T!BreakerHolds, Breaker
<1>2. ASSUME TgShape', NEW G, Only(G, tg, tg'), G \cap {"now", "until", "warns", "openings", "seen"} = {} PROVE TgBreakerInv' /\ T!BreakerHolds
  <2>1. tg'.now = tg.now /\ tg'.until = tg.until /\ tg'.warns = tg.warns /\ tg'.openings = tg.openings /\ tg'.seen = tg.seen
    BY <1>2, RecDomain DEF Only, TgFields, TgBreakerInv, TgShape
  <2> QED
    BY <1>2, <2>1 DEF TgBreakerInv, Breaker, T!BreakerHolds
<1>3. CASE TgUpdateStep
  <2>1. TgShape' /\ Only(TgUpdateFields, tg, tg')
    BY <1>3, TgUpdateFrame DEF TgUpdate, Within, TgBreakerInv, TgShape
  <2> QED
    BY <2>1, <1>2 DEF TgUpdateFields
<1>4. CASE TgFileStep
  <2>1. TgShape' /\ Only(TgFileFields, tg, tg')
    BY <1>4, TgFileFrame DEF TgFile, Within, TgBreakerInv, TgShape
  <2> QED
    BY <2>1, <1>2 DEF TgFileFields
<1>5. CASE TgLoginStep
  BY <1>5, <1>2, TgLoginRight DEF TgBreakerInv
<1>6. CASE UNCHANGED tgcVars
  BY <1>6 DEF tgcVars, TgBreakerInv, TgShape, Breaker, T!BreakerHolds
<1> QED
  BY <1>1, <1>3, <1>4, <1>5, <1>6, TgNextParts

LEMMA TgLoginKept == ASSUME TgBreakerInv, TgLoginInv, [T!TgcNext]_tgcVars, Wait \in Nat PROVE TgLoginInv'
<1>1. ASSUME NEW G, Only(G, tg, tg'), "lg" \notin G PROVE TgLoginInv'
  <2>1. tg'.lg = tg.lg
    BY <1>1, RecDomain DEF Only, TgFields, TgBreakerInv, TgShape
  <2> QED
    BY <2>1 DEF TgLoginInv
<1>2. CASE TgCallStep
  BY <1>2, <1>1, TgCallKept DEF TgBreakerInv, Kept, TgCallFields
<1>3. CASE TgUpdateStep
  BY <1>3, <1>1, TgUpdateFrame DEF TgUpdate, Within, TgBreakerInv, TgUpdateFields
<1>4. CASE TgFileStep
  BY <1>4, <1>1, TgFileFrame DEF TgFile, Within, TgBreakerInv, TgFileFields
<1>5. CASE TgLoginStep
  BY <1>5, TgLoginRight DEF TgBreakerInv
<1>6. CASE UNCHANGED tgcVars
  BY <1>6 DEF tgcVars, TgLoginInv
<1> QED
  BY <1>2, <1>3, <1>4, <1>5, <1>6, TgNextParts

-----------------------------------------------------------------------------
(* Files in transfer, of Telegram and of Discord alike: each transfer has  *)
(* its number, a temporary file belongs to one that runs, and what is gone *)
(* of the disk was sent.                                                   *)

Temps(files) == {x \in files : x.got = "temp"}
FilesInv(files, path, temps, gone, n) ==
    /\ n \in Int
    /\ IsFiniteSet(files)
    /\ \A x \in files : /\ x.id \in Int /\ x.id < n
                        /\ x.got \in {None, "temp", "whole", "error", "sent"}
                        /\ x.got = "temp" => x.ph = "run"
                        /\ x.id \in gone => x.work /\ x.got = "sent" /\ x.ph = "done"
    /\ \A x \in files, y \in files : x.id = y.id => x = y
    /\ path \in {"none", "whole"}
    /\ temps \in Int /\ temps = Cardinality(Temps(files))
    /\ \A id \in gone : id \in Int /\ id < n

LEMMA TempsReplaced ==
    ASSUME NEW files, IsFiniteSet(files), NEW x \in files, NEW y, y = x \/ y \notin files, NEW n \in Int,
           n = Cardinality(Temps(files)) + (IF y.got = "temp" THEN 1 ELSE 0) - (IF x.got = "temp" THEN 1 ELSE 0)
    PROVE  n = Cardinality(Temps((files \ {x}) \cup {y}))
<1> DEFINE less == Temps(files \ {x})
<1>1. IsFiniteSet(files \ {x}) /\ IsFiniteSet(Temps(files)) /\ IsFiniteSet(less)
  BY FS_RemoveElement, FS_Subset DEF Temps
<1>2. Cardinality(less) = Cardinality(Temps(files)) - (IF x.got = "temp" THEN 1 ELSE 0)
  <2>1. CASE x.got = "temp"
    <3>1. less = Temps(files) \ {x} /\ x \in Temps(files)
      BY <2>1 DEF Temps
    <3> QED
      BY <3>1, <2>1, <1>1, FS_RemoveElement, FS_CardinalityType
  <2>2. CASE x.got # "temp"
    <3>1. less = Temps(files)
      BY <2>2 DEF Temps
    <3> QED
      BY <3>1, <2>2, <1>1, FS_CardinalityType
  <2> QED
    BY <2>1, <2>2
<1>3. Cardinality(Temps((files \ {x}) \cup {y})) = Cardinality(less) + (IF y.got = "temp" THEN 1 ELSE 0)
  <2>1. CASE y.got = "temp"
    <3>1. Temps((files \ {x}) \cup {y}) = less \cup {y} /\ y \notin less
      BY <2>1 DEF Temps
    <3> QED
      BY <3>1, <2>1, <1>1, FS_AddElement, FS_CardinalityType
  <2>2. CASE y.got # "temp"
    <3>1. Temps((files \ {x}) \cup {y}) = less
      BY <2>2 DEF Temps
    <3> QED
      BY <3>1, <2>2, <1>1, FS_CardinalityType
  <2> QED
    BY <2>1, <2>2
<1>4. Cardinality(Temps(files)) \in Int /\ Cardinality(less) \in Int
  BY <1>1, FS_CardinalityType
<1> QED
  BY <1>2, <1>3, <1>4

\* From x to y: the number stays, the temporary files follow, what goes was sent.
Later(n, n2) == n2 \in Int /\ n2 >= n
Moved(x, y) == /\ y.id = x.id /\ y.work = x.work /\ x.ph # "done"
               /\ y.got \in {None, "temp", "whole", "error", "sent"} /\ (y.got = "temp" => y.ph = "run")
TempsMoved(x, y, temps, temps2) == temps2 = temps + (IF y.got = "temp" THEN 1 ELSE 0) - (IF x.got = "temp" THEN 1 ELSE 0)
GoneMoved(y, gone, gone2) == gone2 = gone \/ (gone2 = gone \cup {y.id} /\ y.work /\ y.got = "sent" /\ y.ph = "done")

LEMMA FilesReplace ==
    ASSUME NEW files, NEW path, NEW temps, NEW gone, NEW n, FilesInv(files, path, temps, gone, n),
           NEW x \in files, NEW y, Moved(x, y), NEW path2 \in {"none", "whole"},
           NEW temps2, TempsMoved(x, y, temps, temps2), NEW gone2, GoneMoved(y, gone, gone2), NEW n2, Later(n, n2)
    PROVE  FilesInv((files \ {x}) \cup {y}, path2, temps2, gone2, n2)
<1> USE DEF Moved, TempsMoved, GoneMoved, Later
<1> DEFINE next == (files \ {x}) \cup {y}
<1>1. IsFiniteSet(next)
  BY FS_RemoveElement, FS_AddElement DEF FilesInv
<1>2. x.id \in Int /\ x.id < n /\ x.id \notin gone /\ n \in Int
  BY DEF FilesInv
<1>3. \A z \in next : z = y \/ (z \in files /\ z # x /\ z.id # x.id)
  BY DEF FilesInv
<1>4. \A z \in next : /\ z.id \in Int /\ z.id < n2
                      /\ z.got \in {None, "temp", "whole", "error", "sent"}
                      /\ z.got = "temp" => z.ph = "run"
                      /\ z.id \in gone2 => z.work /\ z.got = "sent" /\ z.ph = "done"
  <2> SUFFICES ASSUME NEW z \in next
               PROVE  /\ z.id \in Int /\ z.id < n2
                      /\ z.got \in {None, "temp", "whole", "error", "sent"}
                      /\ z.got = "temp" => z.ph = "run"
                      /\ z.id \in gone2 => z.work /\ z.got = "sent" /\ z.ph = "done"
    OBVIOUS
  <2>1. CASE z = y
    BY <2>1, <1>2
  <2>2. CASE z \in files /\ z.id # x.id
    <3>1. z.id \in gone2 => z.id \in gone
      BY <2>2
    <3> QED
      BY <2>2, <3>1, <1>2 DEF FilesInv
  <2> QED
    BY <1>3, <2>1, <2>2
<1>5. \A z \in next, w \in next : z.id = w.id => z = w
  BY <1>3 DEF FilesInv
<1>6. temps2 = Cardinality(Temps(next)) /\ temps2 \in Int
  <2>1. y = x \/ y \notin files
    BY DEF FilesInv
  <2>2. temps2 \in Int
    BY DEF FilesInv
  <2>3. temps2 = Cardinality(Temps(files)) + (IF y.got = "temp" THEN 1 ELSE 0) - (IF x.got = "temp" THEN 1 ELSE 0)
    BY DEF FilesInv
  <2> HIDE DEF next
  <2> QED
    BY <2>1, <2>2, <2>3, TempsReplaced DEF FilesInv, next
<1>7. \A id \in gone2 : id \in Int /\ id < n2
  BY <1>2 DEF FilesInv
<1> HIDE DEF next
<1>8. FilesInv(next, path2, temps2, gone2, n2)
  BY <1>1, <1>4, <1>5, <1>6, <1>7 DEF FilesInv
<1> QED
  BY <1>8 DEF next

LEMMA FilesAdd ==
    ASSUME NEW files, NEW path, NEW temps, NEW gone, NEW n, FilesInv(files, path, temps, gone, n),
           NEW x, x.id = n, x.got = None, None # "temp"
    PROVE  FilesInv(files \cup {x}, path, temps, gone, n + 1)
<1>1. IsFiniteSet(files \cup {x})
  BY FS_AddElement DEF FilesInv
<1>2. Temps(files \cup {x}) = Temps(files)
  BY DEF Temps
<1> QED
  BY <1>1, <1>2 DEF FilesInv

LEMMA FilesLater == ASSUME NEW files, NEW path, NEW temps, NEW gone, NEW n, FilesInv(files, path, temps, gone, n),
                           NEW n2 \in Int, n2 >= n
                    PROVE  FilesInv(files, path, temps, gone, n2)
  BY DEF FilesInv

LEMMA FilesAreRight ==
    ASSUME NEW files, NEW path, NEW temps, NEW gone, NEW n, FilesInv(files, path, temps, gone, n), None # "part"
    PROVE  /\ path # "part" /\ \A x \in files : x.got # "part"
           /\ (\A x \in files : x.ph = "done") => temps = 0
           /\ \A x \in files : x.id \in gone => x.work /\ x.got = "sent"
<1>1. ASSUME \A x \in files : x.ph = "done" PROVE temps = 0
  <2>1. Temps(files) = {}
    BY <1>1 DEF Temps, FilesInv
  <2> QED
    BY <2>1, FS_EmptySet DEF FilesInv
<1> QED
  BY <1>1 DEF FilesInv
(* The transfers of Telegram.                                              *)
TgXfer == {"id", "kind", "work", "ph", "got"}
TgFilesInv == (\A x \in tg.files : IsRec(TgXfer, x) /\ (x.got = "temp" => x.kind = "down")) /\ FilesInv(tg.files, tg.path, tg.temps, tg.gone, tgMoves)

LEMMA PutGet == ASSUME NEW p, IsRec(TgFields, p), NEW u, NEW v, NEW w
                PROVE  LET q == With3(p, "temps", u, "path", v, "files", w)
                       IN  IsRec(TgFields, q) /\ q["temps"] = u /\ q["path"] = v /\ q["files"] = w /\ Only({"temps", "path", "files"}, p, q)
<1>1. /\ "temps" \in TgFields /\ "path" \in TgFields /\ "files" \in TgFields
      /\ "temps" # "path" /\ "temps" # "files" /\ "path" # "files"
  BY DEF TgFields
<1> QED
  BY <1>1, Put3

LEMMA TgPutFiles == ASSUME TgShape
    PROVE  /\ \A v : LET q == With(tg, "files", v)
                     IN  IsRec(TgFields, q) /\ q["files"] = v /\ q["path"] = tg.path /\ q["temps"] = tg.temps /\ q["gone"] = tg.gone
           /\ \A v, w : LET q == With2(tg, "files", v, "temps", w)
                        IN  IsRec(TgFields, q) /\ q["files"] = v /\ q["temps"] = w /\ q["path"] = tg.path /\ q["gone"] = tg.gone
           /\ \A u, v, w : LET q == With3(tg, "temps", u, "path", v, "files", w)
                           IN  IsRec(TgFields, q) /\ q["temps"] = u /\ q["path"] = v /\ q["files"] = w /\ q["gone"] = tg.gone
           /\ \A v, w : LET q == With2(tg, "gone", v, "files", w)
                        IN  IsRec(TgFields, q) /\ q["gone"] = v /\ q["files"] = w /\ q["path"] = tg.path /\ q["temps"] = tg.temps
           /\ \A v : LET q == With(tg, "cancelled", v)
                     IN  IsRec(TgFields, q) /\ q["files"] = tg.files /\ q["path"] = tg.path /\ q["temps"] = tg.temps /\ q["gone"] = tg.gone
<1>1. /\ "files" \in TgFields /\ "path" \in TgFields /\ "temps" \in TgFields /\ "gone" \in TgFields /\ "cancelled" \in TgFields
      /\ "files" # "temps" /\ "gone" # "files" /\ "temps" # "path" /\ "temps" # "files" /\ "path" # "files"
  BY DEF TgFields
<1>2. DOMAIN tg = TgFields
  BY RecDomain DEF TgShape
<1>3. \A v : LET q == With(tg, "files", v)
             IN  IsRec(TgFields, q) /\ q["files"] = v /\ Only({"files"}, tg, q)
  BY <1>1, Put DEF TgShape
<1>4. ASSUME NEW v, NEW w
      PROVE  LET q == With2(tg, "files", v, "temps", w)
             IN  IsRec(TgFields, q) /\ q["files"] = v /\ q["temps"] = w /\ Only({"files", "temps"}, tg, q)
  BY <1>1, Put2 DEF TgShape
<1>5. ASSUME NEW u, NEW v, NEW w
      PROVE  LET q == With3(tg, "temps", u, "path", v, "files", w)
             IN  IsRec(TgFields, q) /\ q["temps"] = u /\ q["path"] = v /\ q["files"] = w /\ Only({"temps", "path", "files"}, tg, q)
  BY PutGet DEF TgShape
<1>6. ASSUME NEW v, NEW w
      PROVE  LET q == With2(tg, "gone", v, "files", w)
             IN  IsRec(TgFields, q) /\ q["gone"] = v /\ q["files"] = w /\ Only({"gone", "files"}, tg, q)
  <2>1. "gone" \in TgFields /\ "files" \in TgFields /\ "gone" # "files"
    BY <1>1
  <2>2. IsRec(TgFields, tg)
    BY DEF TgShape
  <2> QED
    BY <2>1, <2>2, Put2
<1>7. \A v : LET q == With(tg, "cancelled", v)
             IN  IsRec(TgFields, q) /\ Only({"cancelled"}, tg, q)
  BY <1>1, Put DEF TgShape
<1>8. \A G, q : Only(G, tg, q) => /\ "files" \in G \/ q["files"] = tg.files
                                  /\ "path" \in G \/ q["path"] = tg.path
                                  /\ "temps" \in G \/ q["temps"] = tg.temps
                                  /\ "gone" \in G \/ q["gone"] = tg.gone
  BY <1>1, <1>2 DEF Only
<1>9. /\ "path" \notin {"files"} /\ "temps" \notin {"files"} /\ "gone" \notin {"files"}
      /\ "path" \notin {"files", "temps"} /\ "gone" \notin {"files", "temps"}
      /\ "gone" \notin {"temps", "path", "files"}
      /\ "path" \notin {"gone", "files"} /\ "temps" \notin {"gone", "files"}
      /\ "files" \notin {"cancelled"} /\ "path" \notin {"cancelled"} /\ "temps" \notin {"cancelled"} /\ "gone" \notin {"cancelled"}
  OBVIOUS
<1> QED
  BY <1>3, <1>4, <1>5, <1>6, <1>7, <1>8, <1>9

LEMMA TgXferPut == ASSUME NEW x, IsRec(TgXfer, x), NEW ph, NEW end
                   PROVE  LET y == With2(x, "ph", ph, "got", end)
                          IN  IsRec(TgXfer, y) /\ y.ph = ph /\ y.got = end /\ y.id = x.id /\ y.kind = x.kind /\ y.work = x.work
<1>2. LET y == With2(x, "ph", ph, "got", end)
      IN  IsRec(TgXfer, y) /\ y["ph"] = ph /\ y["got"] = end /\ Only({"ph", "got"}, x, y)
  <2>1. "ph" \in TgXfer /\ "got" \in TgXfer /\ "ph" # "got"
    BY DEF TgXfer
  <2> QED
    BY <2>1, Put2
<1> QED
  BY <1>2, RecDomain DEF Only, TgXfer

\* A transfer goes from one phase to another.
LEMMA TgXferGoes ==
    ASSUME TgShape, TgFilesInv, NEW x \in tg.files, NEW ph, NEW end,
           tg'.files = T!Xfers(x, ph, end), TgShape', tgMoves' = tgMoves, x.ph # "done",
           end \in {None, "temp", "whole", "error", "sent"}, end = "temp" => ph = "run" /\ x.kind = "down",
           tg'.path \in {"none", "whole"},
           tg'.temps = tg.temps + (IF end = "temp" THEN 1 ELSE 0) - (IF x.got = "temp" THEN 1 ELSE 0),
           tg'.gone = tg.gone \/ (tg'.gone = tg.gone \cup {x.id} /\ x.work /\ end = "sent" /\ ph = "done")
    PROVE  (TgShape /\ TgFilesInv)'
<1> DEFINE y == With2(x, "ph", ph, "got", end)
<1>1. IsRec(TgXfer, y) /\ y.ph = ph /\ y.got = end /\ y.id = x.id /\ y.kind = x.kind /\ y.work = x.work
  <2>1. IsRec(TgXfer, x)
    BY DEF TgFilesInv
  <2> QED
    BY <2>1, TgXferPut
<1>2. tg'.files = (tg.files \ {x}) \cup {y}
  BY DEF T!Xfers, With2, With
<1> HIDE DEF y
<1>3. FilesInv((tg.files \ {x}) \cup {y}, tg'.path, tg'.temps, tg'.gone, tgMoves)
  <2>1. PICK path2 \in {"none", "whole"} : path2 = tg'.path
    OBVIOUS
  <2>2. PICK temps2, gone2 : temps2 = tg'.temps /\ gone2 = tg'.gone
    OBVIOUS
  <2>3. Later(tgMoves, tgMoves) /\ FilesInv(tg.files, tg.path, tg.temps, tg.gone, tgMoves)
    BY DEF TgFilesInv, FilesInv, Later
  <2>4. Moved(x, y)
    BY <1>1 DEF Moved
  <2>5. TempsMoved(x, y, tg.temps, temps2)
    BY <1>1, <2>2 DEF TempsMoved
  <2>6. GoneMoved(y, tg.gone, gone2)
    BY <1>1, <2>2 DEF GoneMoved
  <2>7. FilesInv((tg.files \ {x}) \cup {y}, path2, temps2, gone2, tgMoves)
    BY <2>3, <2>4, <2>5, <2>6, FilesReplace
  <2> QED
    BY <2>1, <2>2, <2>7
<1>4. \A z \in tg'.files : IsRec(TgXfer, z) /\ (z.got = "temp" => z.kind = "down")
  BY <1>1, <1>2 DEF TgFilesInv
<1> QED
  BY <1>2, <1>3, <1>4 DEF TgFilesInv

LEMMA TgFileKept == ASSUME TgShape, TgFilesInv, TgFileStep, None \notin {"temp", "part", "whole"} PROVE (TgShape /\ TgFilesInv)'
<1>1. TgShape'
  BY TgFileFrame DEF TgFile, Within, TgShape
<1>2. tg.path \in {"none", "whole"} /\ tg.temps \in Int /\ tgMoves \in Int
  BY DEF TgFilesInv, FilesInv
<1>3. ASSUME NEW kind, NEW work, T!Does([tg EXCEPT !.files = @ \cup {T!Xfer(kind, work)}]) PROVE TgFilesInv'
  <2>1. PICK x : x = T!Xfer(kind, work)
    OBVIOUS
  <2>2. x.id = tgMoves /\ x.got = None /\ IsRec(TgXfer, x)
    BY <2>1 DEF T!Xfer, IsRec, TgXfer
  <2>3. tg' = With(tg, "files", tg.files \cup {x}) /\ tgMoves' = tgMoves + 1
    BY <1>3, <2>1 DEF T!Does, With
  <2>4. tg'.files = tg.files \cup {x} /\ tg'.path = tg.path /\ tg'.temps = tg.temps /\ tg'.gone = tg.gone
    BY <2>3, TgPutFiles
  <2>5. FilesInv(tg.files \cup {x}, tg.path, tg.temps, tg.gone, tgMoves + 1)
    BY <2>2, FilesAdd DEF TgFilesInv
  <2> QED
    BY <2>2, <2>3, <2>4, <2>5 DEF TgFilesInv
<1>4. CASE T!Download \/ \E work \in BOOLEAN : T!Upload(work)
  BY <1>1, <1>3, <1>4 DEF T!Download, T!Upload
<1>5. CASE T!Cancel
  <2>1. tg' = With(tg, "cancelled", TRUE) /\ tgMoves' = tgMoves + 1
    BY <1>5 DEF T!Cancel, T!Does, With
  <2>2. tg'.files = tg.files /\ tg'.path = tg.path /\ tg'.temps = tg.temps /\ tg'.gone = tg.gone
    BY <2>1, TgPutFiles
  <2>3. FilesInv(tg.files, tg.path, tg.temps, tg.gone, tgMoves + 1)
    <3>1. tgMoves + 1 \in Int /\ tgMoves + 1 >= tgMoves
      BY <1>2
    <3> QED
      BY <3>1, FilesLater DEF TgFilesInv
  <2> QED
    BY <1>1, <2>1, <2>2, <2>3 DEF TgFilesInv
<1>6. ASSUME NEW x \in tg.files, x.ph # "done", x.got # "temp", tgMoves' = tgMoves,
             NEW ph, NEW end \in {None, "whole", "error"}, tg' = With(tg, "files", T!Xfers(x, ph, end)) PROVE TgFilesInv'
  <2>1. tg'.files = T!Xfers(x, ph, end) /\ tg'.path = tg.path /\ tg'.temps = tg.temps /\ tg'.gone = tg.gone
    BY <1>6, TgPutFiles
  <2>2. end # "temp"
    BY <1>6
  <2>3. tg'.temps = tg.temps + (IF end = "temp" THEN 1 ELSE 0) - (IF x.got = "temp" THEN 1 ELSE 0)
    BY <2>1, <2>2, <1>6, <1>2
  <2> QED
    BY <1>6, <2>1, <2>2, <2>3, <1>1, <1>2, TgXferGoes
<1>7. ASSUME NEW x \in tg.files, T!Slot(x) PROVE TgFilesInv'
  <2>1. x.ph = "wait" /\ x.ph # "done" /\ x.got # "temp"
    BY <1>7 DEF T!Slot, TgFilesInv, FilesInv
  <2>2. \/ tg' = With(tg, "files", T!Xfers(x, "run", None))
        \/ \E end \in {None, "error"} : tg' = With(tg, "files", T!Xfers(x, "done", end))
    BY <1>7 DEF T!Slot, T!Goes, With
  <2>3. tgMoves' = tgMoves
    BY <1>7 DEF T!Slot, T!Goes
  <2> QED
    BY <2>1, <2>2, <2>3, <1>6
<1>8. ASSUME NEW x \in tg.files, x.ph = "run", x.kind = "down", T!Get(x) PROVE TgFilesInv'
  <2>0. tgMoves' = tgMoves /\ x.ph # "done"
    BY <1>8 DEF T!Get, T!Goes
  <2>1. CASE x.got = None /\ tg.path # "none" /\ tg' = With(tg, "files", T!Xfers(x, "done", tg.path))
    <3>1. tg.path \in {None, "whole", "error"} /\ x.got # "temp"
      BY <2>1, <1>2
    <3> QED
      BY <2>0, <2>1, <3>1, <1>6
  <2>2. CASE x.got = None /\ tg' = With2(tg, "files", T!Xfers(x, "run", "temp"), "temps", tg.temps + 1)
    <3>1. tg'.files = T!Xfers(x, "run", "temp") /\ tg'.temps = tg.temps + 1 /\ tg'.path = tg.path /\ tg'.gone = tg.gone
      BY <2>2, TgPutFiles
    <3>2. tg'.temps = tg.temps + (IF "temp" = "temp" THEN 1 ELSE 0) - (IF x.got = "temp" THEN 1 ELSE 0)
      BY <3>1, <2>2, <1>2
    <3> QED
      BY <2>0, <3>1, <3>2, <1>8, <1>1, <1>2, TgXferGoes
  <2>3. ASSUME NEW ok \in BOOLEAN, x.got = "temp",
               tg' = With3(tg, "temps", tg.temps - 1, "path", IF ok THEN "whole" ELSE tg.path, "files", T!Xfers(x, "done", IF ok THEN "whole" ELSE "error"))
        PROVE  TgFilesInv'
    <3>1. PICK end : end \in {"whole", "error"} /\ end # "temp" /\ end = IF ok THEN "whole" ELSE "error"
      OBVIOUS
    <3>2. PICK path \in {"none", "whole"} : path = IF ok THEN "whole" ELSE tg.path
      BY <1>2
    <3>3. PICK n : n = tg.temps - 1
      OBVIOUS
    <3>4. tg' = With3(tg, "temps", n, "path", path, "files", T!Xfers(x, "done", end))
      BY <2>3, <3>1, <3>2, <3>3
    <3>5. tg'.files = T!Xfers(x, "done", end) /\ tg'.temps = n /\ tg'.path = path /\ tg'.gone = tg.gone
      BY <3>4, TgPutFiles
    <3>6. tg'.temps = tg.temps + (IF end = "temp" THEN 1 ELSE 0) - (IF x.got = "temp" THEN 1 ELSE 0)
      BY <3>5, <3>3, <3>1, <2>3, <1>2
    <3> QED
      BY <2>0, <3>1, <3>5, <3>6, <1>1, <1>2, TgXferGoes
  <2>4. \/ x.got = None /\ tg.path # "none" /\ tg' = With(tg, "files", T!Xfers(x, "done", tg.path))
        \/ x.got = None /\ tg' = With2(tg, "files", T!Xfers(x, "run", "temp"), "temps", tg.temps + 1)
        \/ x.got = "temp" /\ \E ok \in BOOLEAN :
              tg' = With3(tg, "temps", tg.temps - 1, "path", IF ok THEN "whole" ELSE tg.path, "files", T!Xfers(x, "done", IF ok THEN "whole" ELSE "error"))
    <3>1. \A v : [tg EXCEPT !.files = v, !.temps = @ + 1] = With2(tg, "files", v, "temps", tg.temps + 1)
      <4>1. \A v : With(tg, "files", v)["temps"] = tg.temps
        BY TgPutFiles
      <4> QED
        BY <4>1, Zenon DEF With2, With
    <3>2. \A ok, v : [tg EXCEPT !.temps = @ - 1, !.path = IF ok THEN "whole" ELSE @, !.files = v] =
                     With3(tg, "temps", tg.temps - 1, "path", IF ok THEN "whole" ELSE tg.path, "files", v)
      <4>1. \A v : With(tg, "temps", v)["path"] = tg.path
        <5>1. "temps" \in TgFields /\ "path" \in TgFields /\ "temps" # "path"
          BY DEF TgFields
        <5> QED
          BY <5>1, Put, RecDomain DEF TgShape, Only
      <4> QED
        BY <4>1, Zenon DEF With3, With2, With
    <3> QED
      BY <1>8, <3>1, <3>2, Zenon DEF T!Get, T!Goes, With
  <2> QED
    BY <2>1, <2>2, <2>3, <2>4
<1>9. ASSUME NEW x \in tg.files, x.ph = "run", x.got # "temp", T!Put(x) PROVE TgFilesInv'
  <2>1. PICK ok \in BOOLEAN : /\ tgMoves' = tgMoves
                              /\ tg' = [tg EXCEPT !.gone = IF ok /\ x.work THEN @ \cup {x.id} ELSE @,
                                                  !.files = T!Xfers(x, "done", IF ok THEN "sent" ELSE "error")]
    BY <1>9 DEF T!Put, T!Goes
  <2>2. PICK gone : /\ gone = tg.gone \/ (gone = tg.gone \cup {x.id} /\ x.work /\ ok)
                    /\ gone = IF ok /\ x.work THEN tg.gone \cup {x.id} ELSE tg.gone
    OBVIOUS
  <2>3. PICK end : end \in {"sent", "error"} /\ end # "temp" /\ (ok => end = "sent") /\ end = IF ok THEN "sent" ELSE "error"
    OBVIOUS
  <2>4. tg' = With2(tg, "gone", gone, "files", T!Xfers(x, "done", end))
    BY <2>1, <2>2, <2>3 DEF With2, With
  <2>5. tg'.files = T!Xfers(x, "done", end) /\ tg'.temps = tg.temps /\ tg'.path = tg.path /\ tg'.gone = gone
    BY <2>4, TgPutFiles
  <2>6. tg'.temps = tg.temps + (IF end = "temp" THEN 1 ELSE 0) - (IF x.got = "temp" THEN 1 ELSE 0)
    BY <2>5, <2>3, <1>9, <1>2
  <2>7. tg'.gone = tg.gone \/ (tg'.gone = tg.gone \cup {x.id} /\ x.work /\ end = "sent" /\ "done" = "done")
    BY <2>2, <2>3, <2>5
  <2> QED
    BY <2>1, <2>3, <2>5, <2>6, <2>7, <1>9, <1>1, <1>2, TgXferGoes
<1>10. \A x \in tg.files : x.kind = "up" => x.got # "temp"
  BY DEF TgFilesInv
<1> QED
  BY <1>1, <1>4, <1>5, <1>7, <1>8, <1>9, <1>10 DEF TgFileStep, T!Transfers, T!Transfer
LEMMA TgMovesOn == ASSUME TgLoginInv, [T!TgcNext]_tgcVars PROVE tgMoves' = tgMoves \/ tgMoves' = tgMoves + 1
<1> DEFINE G == tgMoves' = tgMoves \/ tgMoves' = tgMoves + 1
<1>1. (\E next : T!Does(next) \/ T!Goes(next)) => G
  BY Zenon DEF T!Does, T!Goes
<1>2. CASE TgCallStep
  <2>1. CASE T!Tick
    BY <2>1, Zenon DEF T!Tick
  <2>2. \A op : T!Call(op) => G
    BY <1>1, Zenon DEF T!Call
  <2>3. \A c : T!Check(c) => G
    BY <1>1 DEF T!Check, T!Goes
  <2>4. \A c : T!Returns(c) => G
    BY <1>1, Zenon DEF T!Returns
  <2> QED
    BY <1>2, <2>1, <2>2, <2>3, <2>4, Zenon DEF TgCallStep, T!Calls
<1>3. CASE TgUpdateStep
  <2>1. T!ServerEdits \/ (\E v : T!ServerReacts(v)) \/ (\E id : T!ServerPins(id)) => G
    BY <1>1, Zenon DEF T!ServerEdits, T!ServerReacts, T!ServerPins, T!Server
  <2>2. T!Handle => G
    BY <1>1, Zenon DEF T!Handle
  <2>3. \A k : T!FillLater(k) => G
    BY <1>1, Zenon DEF T!FillLater
  <2>4. \A k : T!ReactGoes(k) => G
    BY <1>1, Zenon DEF T!ReactGoes
  <2>5. \A k : T!PinsGo(k) => G
    BY <1>1, Zenon DEF T!PinsGo
  <2>6. T!FetchPins \/ (\E v : T!React(v)) => G
    BY <1>1, Zenon DEF T!FetchPins, T!React
  <2> QED
    BY <1>3, <2>1, <2>2, <2>3, <2>4, <2>5, <2>6, Zenon DEF TgUpdateStep, T!Tasks
<1>4. CASE TgFileStep
  <2>1. T!Download \/ (\E work : T!Upload(work)) \/ T!Cancel => G
    BY <1>1, Zenon DEF T!Download, T!Upload, T!Cancel
  <2>2. \A x : T!Slot(x) \/ T!Transfer(x) => G
    BY <1>1, Zenon DEF T!Slot, T!Transfer, T!Get, T!Put
  <2> QED
    BY <1>4, <2>1, <2>2, Zenon DEF TgFileStep, T!Transfers
<1>5. CASE TgLoginStep
  <2>1. T!ShowQR \/ T!Type => G
    BY <1>1, Zenon DEF T!ShowQR, T!Type
  <2>2. T!Ask \/ T!Answered \/ T!TakeLine \/ (\E r : T!AuthEnds(r)) => G
    BY <1>1, Zenon DEF T!Ask, T!Answered, T!TakeLine, T!AuthEnds
  <2>3. T!TakeAuth => G
    BY <1>1 DEF T!TakeAuth, T!Goes, TgLoginInv
  <2> QED
    BY <1>5, <2>1, <2>2, <2>3, Zenon DEF TgLoginStep, T!Login
<1>6. CASE UNCHANGED tgcVars
  BY <1>6 DEF tgcVars
<1> QED
  BY <1>2, <1>3, <1>4, <1>5, <1>6, TgNextParts

LEMMA TgFilesInit == ASSUME T!TgcInit PROVE TgFilesInv
<1>1. tg.files = {} /\ tg.path = "none" /\ tg.temps = 0 /\ tg.gone = {} /\ tgMoves = 0
  BY DEF T!TgcInit
<1>2. Temps(tg.files) = {}
  BY <1>1 DEF Temps
<1> QED
  BY <1>1, <1>2, FS_EmptySet DEF TgFilesInv, FilesInv

LEMMA TgFilesKept == ASSUME TgBreakerInv, TgLoginInv, TgFilesInv, [T!TgcNext]_tgcVars, Wait \in Nat, None \notin {"temp", "part", "whole"}
                     PROVE  TgFilesInv'
<1>1. ASSUME NEW G, Only(G, tg, tg'), G \cap TgFileFields = {} PROVE TgFilesInv'
  <2>1. tg'.files = tg.files /\ tg'.path = tg.path /\ tg'.temps = tg.temps /\ tg'.gone = tg.gone
    BY <1>1, RecDomain DEF Only, TgFields, TgFileFields, TgBreakerInv, TgShape
  <2>2. Later(tgMoves, tgMoves')
    BY TgMovesOn DEF Later, TgFilesInv, FilesInv
  <2>3. PICK m : m = tgMoves'
    OBVIOUS
  <2>4. FilesInv(tg.files, tg.path, tg.temps, tg.gone, m)
    BY <2>2, <2>3, FilesLater DEF TgFilesInv, Later
  <2> QED
    BY <2>1, <2>3, <2>4 DEF TgFilesInv
<1>2. CASE TgCallStep
  <2>1. Only(TgCallFields, tg, tg')
    BY <1>2, TgCallKept DEF TgBreakerInv, Kept
  <2> QED
    BY <2>1, <1>1 DEF TgCallFields, TgFileFields
<1>3. CASE TgUpdateStep
  <2>1. Only(TgUpdateFields, tg, tg')
    BY <1>3, TgUpdateFrame DEF TgUpdate, Within, TgBreakerInv
  <2> QED
    BY <2>1, <1>1 DEF TgUpdateFields, TgFileFields
<1>4. CASE TgFileStep
  BY <1>4, TgFileKept DEF TgBreakerInv
<1>5. CASE TgLoginStep
  <2>1. Only({"lg"}, tg, tg')
    BY <1>5, TgLoginRight DEF TgBreakerInv
  <2> QED
    BY <2>1, <1>1 DEF TgFileFields
<1>6. CASE UNCHANGED tgcVars
  BY <1>6 DEF tgcVars, TgFilesInv
<1> QED
  BY <1>2, <1>3, <1>4, <1>5, <1>6, TgNextParts

LEMMA TgFilesAreRight == ASSUME TgFilesInv, None \notin {"temp", "part", "whole"} PROVE T!FilesRight
<1>1. FilesInv(tg.files, tg.path, tg.temps, tg.gone, tgMoves) /\ None # "part"
  BY DEF TgFilesInv
<1> QED
  BY <1>1, FilesAreRight DEF T!FilesRight
-----------------------------------------------------------------------------
(* Telegram: what the updates on their way say last of a version or of the *)
(* reactions is what the server holds.                                     *)
IsUps(s) == s \in Seq({s[i] : i \in DOMAIN s})
LastSays(ups, k, v) == \A i \in DOMAIN ups : ups[i].k = k /\ (\A j \in DOMAIN ups : j > i => ups[j].k # k) => ups[i].v = v
Pending(ups, k) == \E i \in DOMAIN ups : ups[i].k = k

LEMMA UpsAppend == ASSUME NEW ups, IsUps(ups), NEW up
                   PROVE  /\ IsUps(Append(ups, up)) /\ DOMAIN Append(ups, up) = DOMAIN ups \cup {Len(ups) + 1}
                          /\ Len(ups) \in Nat /\ DOMAIN ups = 1..Len(ups)
                          /\ Append(ups, up)[Len(ups) + 1] = up /\ \A i \in DOMAIN ups : Append(ups, up)[i] = ups[i]
<1>1. PICK S : S = {ups[i] : i \in DOMAIN ups}
  OBVIOUS
<1>2. ups \in Seq(S \cup {up}) /\ up \in S \cup {up}
  <2>1. ups \in Seq(S) 
    BY <1>1 DEF IsUps
  <2> QED
    BY <2>1
<1>3. PICK new : new = Append(ups, up)
  OBVIOUS
<1>4. /\ DOMAIN new = DOMAIN ups \cup {Len(ups) + 1} /\ Len(ups) \in Nat /\ DOMAIN ups = 1..Len(ups)
      /\ new[Len(ups) + 1] = up /\ \A i \in DOMAIN ups : new[i] = ups[i]
  BY <1>2, <1>3, AppendAt, LenProperties, AppendProperties
<1>5. \A i \in DOMAIN new : new[i] \in {new[j] : j \in DOMAIN new}
  OBVIOUS
<1>6. new \in Seq({new[j] : j \in DOMAIN new})
  <2>1. new \in Seq(S \cup {up})
    BY <1>2, <1>3, AppendAt
  <2> QED
    BY <2>1, <1>5
<1> QED
  BY <1>3, <1>4, <1>6 DEF IsUps

LEMMA UpsTail == ASSUME NEW ups, IsUps(ups), ups # <<>>
                 PROVE  /\ IsUps(Tail(ups)) /\ Head(ups) = ups[1] /\ Len(ups) \in Nat \ {0} /\ DOMAIN ups = 1..Len(ups)
                        /\ DOMAIN Tail(ups) = 1..(Len(ups) - 1) /\ \A i \in DOMAIN Tail(ups) : Tail(ups)[i] = ups[i + 1]
<1>1. PICK S : S = {ups[i] : i \in DOMAIN ups}
  OBVIOUS
<1>2. ups \in Seq(S)
  BY <1>1 DEF IsUps
<1>3. PICK new : new = Tail(ups)
  OBVIOUS
<1>4. /\ Head(ups) = ups[1] /\ Len(ups) \in Nat \ {0} /\ DOMAIN ups = 1..Len(ups)
      /\ new \in Seq(S) /\ DOMAIN new = 1..(Len(ups) - 1) /\ \A i \in DOMAIN new : new[i] = ups[i + 1]
  BY <1>2, <1>3, HeadTailProperties, LenProperties, EmptySeq
<1>5. new \in Seq({new[j] : j \in DOMAIN new})
  BY <1>4
<1> QED
  BY <1>3, <1>4, <1>5 DEF IsUps

LEMMA SaysAppend == ASSUME NEW ups, IsUps(ups), NEW up, NEW k, NEW v, up.k = k => up.v = v, up.k # k => LastSays(ups, k, v)
                    PROVE  /\ LastSays(Append(ups, up), k, v)
                           /\ Pending(Append(ups, up), k) \/ up.k # k
                           /\ Pending(ups, k) => Pending(Append(ups, up), k)
<1>1. PICK new : new = Append(ups, up)
  OBVIOUS
<1>2. PICK n : n = Len(ups) + 1
  OBVIOUS
<1>3. /\ IsUps(new) /\ DOMAIN new = DOMAIN ups \cup {n} /\ new[n] = up /\ DOMAIN ups = 1..(n - 1) /\ n \in Nat
      /\ \A i \in DOMAIN ups : new[i] = ups[i]
  BY <1>1, <1>2, UpsAppend
<1>4. ASSUME NEW i \in DOMAIN new, new[i].k = k, \A j \in DOMAIN new : j > i => new[j].k # k PROVE new[i].v = v
  <2>1. CASE i = n
    BY <2>1, <1>3, <1>4
  <2>2. CASE i \in DOMAIN ups
    <3>1. i < n
      BY <2>2, <1>3
    <3>2. up.k # k
      BY <3>1, <1>3, <1>4
    <3>3. \A j \in DOMAIN ups : j > i => ups[j].k # k
      BY <1>3, <1>4
    <3> QED
      BY <3>2, <3>3, <2>2, <1>3, <1>4 DEF LastSays
  <2> QED
    BY <2>1, <2>2, <1>3
<1>5. LastSays(new, k, v)
  BY <1>4 DEF LastSays
<1> QED
  BY <1>1, <1>3, <1>5 DEF Pending

LEMMA SaysTail == ASSUME NEW ups, IsUps(ups), ups # <<>>, NEW k, NEW v, LastSays(ups, k, v)
                  PROVE  /\ LastSays(Tail(ups), k, v)
                         /\ Pending(Tail(ups), k) \/ ~Pending(ups, k) \/ (Head(ups).k = k /\ Head(ups).v = v)
<1>1. PICK new : new = Tail(ups)
  OBVIOUS
<1>2. PICK n : n = Len(ups)
  OBVIOUS
<1>3. /\ IsUps(new) /\ Head(ups) = ups[1] /\ n \in Nat \ {0} /\ DOMAIN ups = 1..n
      /\ DOMAIN new = 1..(n - 1) /\ \A i \in DOMAIN new : new[i] = ups[i + 1]
  BY <1>1, <1>2, UpsTail
<1>4. ASSUME NEW i \in DOMAIN new, new[i].k = k, \A j \in DOMAIN new : j > i => new[j].k # k PROVE new[i].v = v
  <2>1. i + 1 \in DOMAIN ups /\ ups[i + 1].k = k
    BY <1>3, <1>4
  <2>2. ASSUME NEW j \in DOMAIN ups, j > i + 1 PROVE ups[j].k # k
    <3>1. j - 1 \in DOMAIN new /\ j - 1 > i /\ (j - 1) + 1 = j
      BY <2>2, <1>3
    <3> QED
      BY <3>1, <1>3, <1>4
  <2>3. ups[i + 1].v = v
    BY <2>1, <2>2 DEF LastSays
  <2> QED
    BY <2>3, <1>3
<1>5. LastSays(new, k, v)
  BY <1>4 DEF LastSays
<1>6. ASSUME ~Pending(new, k), Pending(ups, k) PROVE Head(ups).k = k /\ Head(ups).v = v
  <2>1. \A i \in DOMAIN ups : i > 1 => ups[i].k # k
    <3>1. SUFFICES ASSUME NEW i \in DOMAIN ups, i > 1 PROVE ups[i].k # k
      OBVIOUS
    <3>2. i - 1 \in DOMAIN new /\ (i - 1) + 1 = i
      BY <3>1, <1>3
    <3> QED
      BY <3>2, <1>3, <1>6 DEF Pending
  <2>2. 1 \in DOMAIN ups /\ ups[1].k = k
    BY <2>1, <1>3, <1>6 DEF Pending
  <2> QED
    BY <2>1, <2>2, <1>3 DEF LastSays
<1> QED
  BY <1>1, <1>5, <1>6

(* The reads of quotes: numbered in order, the last one the only one that   *)
(* may post, and what was read and is not posted yet is on its way.        *)
Fills(tasks) == {k \in tasks : k.k = "fill"}
FillTask(v, ph) == [k |-> "fill", v |-> v, ph |-> ph]
FillRight(tasks, fills, seq, read, quote) ==
    /\ seq \in Nat /\ read \subseteq Nat /\ \A n \in read : n <= seq
    /\ \A k \in Fills(tasks) : k = FillTask(k.v, k.ph) /\ k.v \in Nat /\ k.v <= seq /\ (k.v = seq /\ k.ph \in {"start", "read"} => fills = seq)
    /\ \A k, l \in Fills(tasks) : k.v = l.v => k = l
    /\ seq \in read => quote \/ \E k \in Fills(tasks) : k.v = seq /\ k.ph = "post"

\* Another message: its read is the newest.
LEMMA FillMore == ASSUME NEW tasks, NEW fills, NEW seq, NEW read, NEW quote, FillRight(tasks, fills, seq, read, quote), NEW more, NEW f,
                         more = {} \/ (more = {T!Task("fill", seq + 1)} /\ f = seq + 1), NEW q
                  PROVE  FillRight(tasks \cup more, f, seq + 1, read, q)
<1>1. PICK new : new = tasks \cup more
  OBVIOUS
<1>2. \A k \in Fills(new) : k \in Fills(tasks) \/ (k = T!Task("fill", seq + 1) /\ f = seq + 1)
  BY <1>1 DEF Fills
<1>3. \A k \in Fills(tasks) : k.v \in Nat /\ k.v < seq + 1
  BY DEF FillRight
<1>4. T!Task("fill", seq + 1) = FillTask(seq + 1, "start") /\ seq + 1 \in Nat
  BY DEF T!Task, FillTask, FillRight
<1>9. FillTask(seq + 1, "start").v = seq + 1 /\ FillTask(seq + 1, "start").ph = "start"
  BY DEF FillTask
<1>10. \A k \in Fills(tasks) : k = FillTask(k.v, k.ph)
  BY DEF FillRight
<1>5. \A k \in Fills(new) : k = FillTask(k.v, k.ph) /\ k.v \in Nat /\ k.v <= seq + 1 /\ (k.v = seq + 1 => f = seq + 1)
  BY <1>2, <1>3, <1>4, <1>9, <1>10
<1>6. \A k, l \in Fills(new) : k.v = l.v => k = l
  <2>1. \A k, l \in Fills(tasks) : k.v = l.v => k = l
    BY DEF FillRight
  <2> QED
    BY <1>2, <1>3, <1>4, <1>9, <2>1
<1>7. seq + 1 \notin read /\ \A n \in read : n <= seq + 1
  BY DEF FillRight
<1> QED
  BY <1>1, <1>4, <1>5, <1>6, <1>7 DEF FillRight

\* A task of another kind comes, changes or goes.
LEMMA FillOther == ASSUME NEW tasks, NEW new, Fills(new) = Fills(tasks), NEW fills, NEW seq, NEW read, NEW quote,
                          FillRight(tasks, fills, seq, read, quote)
                   PROVE  FillRight(new, fills, seq, read, quote)
  BY DEF FillRight

\* A read takes its slot.
LEMMA FillStarts == ASSUME NEW tasks, NEW fills, NEW seq, NEW read, NEW quote, FillRight(tasks, fills, seq, read, quote),
                           NEW k \in Fills(tasks), k.ph = "start"
                    PROVE  FillRight((tasks \ {k}) \cup {[k EXCEPT !.ph = "read"]}, fills, seq, read, quote)
<1>1. PICK l : l = [k EXCEPT !.ph = "read"]
  OBVIOUS
<1>2. PICK new : new = (tasks \ {k}) \cup {l}
  OBVIOUS
<1>3. l = FillTask(l.v, l.ph) /\ l.v = k.v /\ l.k = "fill"
  <2>1. k = FillTask(k.v, k.ph)
    BY DEF FillRight
  <2>2. l = FillTask(k.v, "read")
    BY <1>1, <2>1 DEF FillTask
  <2> QED
    BY <2>2 DEF FillTask
<1>4. Fills(new) = (Fills(tasks) \ {k}) \cup {l}
  BY <1>2, <1>3 DEF Fills
<1>5. \A m \in Fills(tasks) : m.v = k.v => m = k
  BY DEF FillRight
<1>6. \A m \in Fills(new) : m = FillTask(m.v, m.ph) /\ m.v \in Nat /\ m.v <= seq /\ (m.v = seq /\ m.ph \in {"start", "read"} => fills = seq)
  BY <1>3, <1>4 DEF FillRight
<1>7. \A m, n \in Fills(new) : m.v = n.v => m = n
  BY <1>3, <1>4, <1>5 DEF FillRight
<1>8. seq \in read => quote \/ \E m \in Fills(new) : m.v = seq /\ m.ph = "post"
  <2>1. \A m \in Fills(tasks) : m.ph = "post" => m \in Fills(new)
    BY <1>4
  <2> QED
    BY <2>1 DEF FillRight
<1> QED
  BY <1>1, <1>2, <1>6, <1>7, <1>8 DEF FillRight

\* A read ends: the newest posts, an older one posts nothing.
LEMMA FillReads == ASSUME NEW tasks, NEW fills, NEW seq, NEW read, NEW quote, FillRight(tasks, fills, seq, read, quote),
                          NEW k \in Fills(tasks), k.ph = "read", NEW f, NEW r, NEW more, NEW ok \in BOOLEAN,
                          f = fills \/ fills = k.v, r = IF ok THEN read \cup {k.v} ELSE read,
                          more = IF fills = k.v /\ ok THEN {[k EXCEPT !.ph = "post"]} ELSE {}
                   PROVE  FillRight((tasks \ {k}) \cup more, f, seq, r, quote)
<1>1. PICK l : l = [k EXCEPT !.ph = "post"]
  OBVIOUS
<1>2. PICK new : new = (tasks \ {k}) \cup more
  OBVIOUS
<1>3. l = FillTask(l.v, l.ph) /\ l.v = k.v /\ l.k = "fill" /\ l.ph = "post"
  <2>1. k = FillTask(k.v, k.ph)
    BY DEF FillRight
  <2>2. l = FillTask(k.v, "post")
    BY <1>1, <2>1 DEF FillTask
  <2> QED
    BY <2>2 DEF FillTask
<1>4. Fills(new) = (Fills(tasks) \ {k}) \cup more /\ (more = {} \/ more = {l})
  BY <1>1, <1>2, <1>3 DEF Fills
<1>5. \A m \in Fills(tasks) : m.v = k.v => m = k
  BY DEF FillRight
<1>6. \A m \in Fills(new) : m = FillTask(m.v, m.ph) /\ m.v \in Nat /\ m.v <= seq /\ (m.v = seq /\ m.ph \in {"start", "read"} => f = seq)
  BY <1>3, <1>4, <1>5 DEF FillRight
<1>7. \A m, n \in Fills(new) : m.v = n.v => m = n
  BY <1>3, <1>4, <1>5 DEF FillRight
<1>8. ASSUME seq \in r PROVE quote \/ \E m \in Fills(new) : m.v = seq /\ m.ph = "post"
  <2>1. CASE k.v = seq /\ ok
    BY <2>1, <1>1, <1>3, <1>4 DEF FillRight
  <2>2. CASE ~(k.v = seq /\ ok)
    <3>1. seq \in read
      BY <1>8, <2>2
    <3>2. \A m \in Fills(tasks) : m.ph = "post" => m \in Fills(new)
      BY <1>4
    <3> QED
      BY <3>1, <3>2 DEF FillRight
  <2> QED
    BY <2>1, <2>2
<1>9. r \subseteq Nat /\ \A n \in r : n <= seq
  BY DEF FillRight
<1> QED
  BY <1>2, <1>6, <1>7, <1>8, <1>9 DEF FillRight

\* The post of the read.
LEMMA FillPosts == ASSUME NEW tasks, NEW fills, NEW seq, NEW read, NEW quote, FillRight(tasks, fills, seq, read, quote), NEW k, NEW q, q = TRUE
                   PROVE  FillRight(tasks \ {k}, fills, seq, read, q)
<1>1. Fills(tasks \ {k}) \subseteq Fills(tasks)
  BY DEF Fills
<1> QED
  BY <1>1 DEF FillRight

(* What the screen shows of a version, a quote and the reactions.          *)
SvFields == {"ver", "reacts", "pins"}
UiFields == {"ver", "quote", "reacts", "flags", "pin"}
ShownRight(sv, ui, ups, sure) ==
    /\ IsRec(SvFields, sv) /\ IsRec(UiFields, ui)
    /\ IsUps(ups) /\ LastSays(ups, "msg", sv.ver) /\ LastSays(ups, "reacts", sv.reacts)
    /\ Pending(ups, "msg") \/ ui.ver = sv.ver
    /\ Pending(ups, "reacts") \/ (sure /\ sv.reacts # {} => ui.reacts # {})
TaskFields == {"k", "v", "ph"}
TgUpdatesInv ==
    /\ ShownRight(tg.sv, tg.ui, tg.ups, tg.sure)
    /\ \A k \in tg.tasks : IsRec(TaskFields, k)
    /\ FillRight(tg.tasks, tg.fills, tg.fillSeq, tg.read, tg.ui.quote)

\* The server changes a version or the reactions, or a pin, and says so.
Told(up, sv, next) ==
    \/ up.k = "msg" /\ up.v = next.ver /\ next.reacts = sv.reacts
    \/ up.k = "reacts" /\ up.v = next.reacts /\ next.ver = sv.ver
    \/ up.k = "pin" /\ next.ver = sv.ver /\ next.reacts = sv.reacts

LEMMA ShownServer == ASSUME NEW sv, NEW ui, NEW ups, NEW sure, ShownRight(sv, ui, ups, sure), NEW next, IsRec(SvFields, next),
                            NEW up, Told(up, sv, next)
                     PROVE  ShownRight(next, ui, Append(ups, up), sure)
<1>1. PICK new : new = Append(ups, up)
  OBVIOUS
<1>2. IsUps(ups) /\ LastSays(ups, "msg", sv.ver) /\ LastSays(ups, "reacts", sv.reacts)
  BY DEF ShownRight
<1>3. IsUps(new)
  BY <1>1, <1>2, UpsAppend
<1>4. /\ up.k = "msg" => up.v = next.ver
      /\ up.k # "msg" => LastSays(ups, "msg", next.ver)
  BY <1>2 DEF Told
<1>5. /\ up.k = "reacts" => up.v = next.reacts
      /\ up.k # "reacts" => LastSays(ups, "reacts", next.reacts)
  BY <1>2 DEF Told
<1>6. LastSays(new, "msg", next.ver) /\ (Pending(new, "msg") \/ up.k # "msg") /\ (Pending(ups, "msg") => Pending(new, "msg"))
  BY <1>1, <1>2, <1>4, SaysAppend
<1>7. LastSays(new, "reacts", next.reacts) /\ (Pending(new, "reacts") \/ up.k # "reacts") /\ (Pending(ups, "reacts") => Pending(new, "reacts"))
  BY <1>1, <1>2, <1>5, SaysAppend
<1>8. Pending(new, "msg") \/ ui.ver = next.ver
  BY <1>6 DEF ShownRight, Told
<1>9. Pending(new, "reacts") \/ (sure /\ next.reacts # {} => ui.reacts # {})
  <2>1. up.k = "reacts" \/ next.reacts = sv.reacts
    BY DEF Told
  <2> QED
    BY <1>7, <2>1 DEF ShownRight
<1> QED
  BY <1>1, <1>3, <1>6, <1>7, <1>8, <1>9 DEF ShownRight

\* An update is taken: the screen shows what it says.
Takes(up, ui, u, s, sure) ==
    \/ up.k = "msg" /\ u.ver = up.v /\ u.reacts = ui.reacts /\ s = sure
    \/ up.k = "reacts" /\ u.reacts = up.v /\ u.ver = ui.ver
    \/ up.k = "pin" /\ u.ver = ui.ver /\ u.reacts = ui.reacts /\ s = sure

LEMMA ShownTakes == ASSUME NEW sv, NEW ui, NEW ups, NEW sure, ShownRight(sv, ui, ups, sure), ups # <<>>,
                           NEW u, IsRec(UiFields, u), NEW s, Takes(Head(ups), ui, u, s, sure)
                    PROVE  ShownRight(sv, u, Tail(ups), s)
<1>1. PICK new : new = Tail(ups)
  OBVIOUS
<1>2. PICK up : up = Head(ups)
  OBVIOUS
<1>3. IsUps(ups) /\ LastSays(ups, "msg", sv.ver) /\ LastSays(ups, "reacts", sv.reacts) /\ Takes(up, ui, u, s, sure)
  BY <1>2 DEF ShownRight
<1>4. IsUps(new)
  BY <1>1, <1>3, UpsTail
<1>5. LastSays(new, "msg", sv.ver) /\ (Pending(new, "msg") \/ ~Pending(ups, "msg") \/ (up.k = "msg" /\ up.v = sv.ver))
  BY <1>1, <1>2, <1>3, SaysTail
<1>6. LastSays(new, "reacts", sv.reacts) /\ (Pending(new, "reacts") \/ ~Pending(ups, "reacts") \/ (up.k = "reacts" /\ up.v = sv.reacts))
  BY <1>1, <1>2, <1>3, SaysTail
<1>7. up.k = "msg" => Pending(ups, "msg")
  <2>1. up = ups[1] /\ 1 \in DOMAIN ups
    BY <1>2, <1>3, UpsTail
  <2> QED
    BY <2>1 DEF Pending
<1>8. up.k = "reacts" => Pending(ups, "reacts")
  <2>1. up = ups[1] /\ 1 \in DOMAIN ups
    BY <1>2, <1>3, UpsTail
  <2> QED
    BY <2>1 DEF Pending
<1>9. Pending(new, "msg") \/ u.ver = sv.ver
  BY <1>3, <1>5, <1>7 DEF ShownRight, Takes
<1>10. Pending(new, "reacts") \/ (s /\ sv.reacts # {} => u.reacts # {})
  BY <1>3, <1>6, <1>8 DEF ShownRight, Takes
<1> QED
  BY <1>1, <1>4, <1>5, <1>6, <1>9, <1>10 DEF ShownRight

\* A read or an answer reaches the screen, the updates stay.
LEMMA ShownRead == ASSUME NEW sv, NEW ui, NEW ups, NEW sure, ShownRight(sv, ui, ups, sure), NEW u, IsRec(UiFields, u), u.ver = ui.ver, NEW s,
                          (u.reacts = ui.reacts /\ s = sure) \/ (s /\ sv.reacts # {} => u.reacts # {} \/ (sure /\ ui.reacts = {}))
                   PROVE  ShownRight(sv, u, ups, s)
  BY DEF ShownRight

(* The fields of the updates, one changed.                                 *)
TgSame(p, q, f) == /\ IsRec(TgFields, q)
                   /\ f # "sv" => q.sv = p.sv
                   /\ f # "ui" => q.ui = p.ui
                   /\ f # "ups" => q.ups = p.ups
                   /\ f # "tasks" => q.tasks = p.tasks
                   /\ f # "fills" => q.fills = p.fills
                   /\ f # "fillSeq" => q.fillSeq = p.fillSeq
                   /\ f # "read" => q.read = p.read
                   /\ f # "sure" => q.sure = p.sure

LEMMA TgPut == ASSUME NEW p, IsRec(TgFields, p), NEW f \in TgFields, NEW v
               PROVE  TgSame(p, With(p, f, v), f) /\ With(p, f, v)[f] = v
<1>1. PICK q : q = With(p, f, v)
  OBVIOUS
<1>2. IsRec(TgFields, q) /\ q[f] = v /\ Only({f}, p, q)
  BY <1>1, Put
<1>3. \A g \in TgFields : g # f => q[g] = p[g]
  BY <1>2, RecDomain DEF Only
<1>4. TgSame(p, q, f)
  BY <1>2, <1>3 DEF TgSame, TgFields
<1> QED
  BY <1>1, <1>2, <1>4

LEMMA UpServer == ASSUME TgShape, TgUpdatesInv, NEW next, IsRec(SvFields, next), NEW up, Told(up, tg.sv, next), T!Server(next, up)
                  PROVE  TgUpdatesInv'
<1>1. PICK q : q = With(tg, "sv", next)
  OBVIOUS
<1>2. tg' = With(q, "ups", Append(tg.ups, up))
  <2>1. tg' = [tg EXCEPT !.sv = next, !.ups = Append(@, up)]
    BY DEF T!Server, T!Does
  <2>2. q.ups = tg.ups
    BY <1>1, TgPut DEF TgShape, TgSame, TgFields
  <2> QED
    BY <1>1, <2>1, <2>2 DEF With
<1>3. "sv" \in TgFields /\ "ups" \in TgFields
  BY DEF TgFields
<1>4. TgSame(tg, q, "sv") /\ q.sv = next
  BY <1>1, <1>3, TgPut DEF TgShape
<1>5. TgSame(q, tg', "ups") /\ tg'.ups = Append(tg.ups, up)
  <2>1. IsRec(TgFields, q)
    BY <1>4 DEF TgSame
  <2> QED
    BY <1>2, <1>3, <2>1, TgPut
<1>6. /\ tg'.sv = next /\ tg'.ui = tg.ui /\ tg'.tasks = tg.tasks /\ tg'.fills = tg.fills /\ tg'.fillSeq = tg.fillSeq
      /\ tg'.read = tg.read /\ tg'.sure = tg.sure /\ tg'.ups = Append(tg.ups, up)
  BY <1>4, <1>5 DEF TgSame
<1> QED
  BY <1>6, ShownServer DEF TgUpdatesInv

LEMMA UpServers == ASSUME TgShape, TgUpdatesInv,
                          T!ServerEdits \/ (\E v : T!ServerReacts(v)) \/ (\E id : T!ServerPins(id))
                   PROVE  TgUpdatesInv'
<1>1. IsRec(SvFields, tg.sv)
  BY DEF TgUpdatesInv, ShownRight
<1>2. ASSUME NEW f \in SvFields, NEW v
      PROVE  IsRec(SvFields, With(tg.sv, f, v)) /\ With(tg.sv, f, v)[f] = v /\ \A g \in SvFields : g # f => With(tg.sv, f, v)[g] = tg.sv[g]
  BY <1>1, Put, RecDomain DEF Only
<1>3. CASE T!ServerEdits
  <2>1. PICK next : next = With(tg.sv, "ver", tg.sv.ver + 1)
    OBVIOUS
  <2>2. PICK up : up = [k |-> "msg", v |-> tg.sv.ver + 1]
    OBVIOUS
  <2>3. T!Server(next, up)
    BY <1>3, <2>1, <2>2 DEF T!ServerEdits, With
  <2>4. IsRec(SvFields, next) /\ next.ver = tg.sv.ver + 1 /\ next.reacts = tg.sv.reacts
    BY <1>2, <2>1 DEF SvFields
  <2>5. Told(up, tg.sv, next)
    BY <2>2, <2>4 DEF Told
  <2> QED
    BY <2>3, <2>4, <2>5, UpServer
<1>4. ASSUME NEW v, T!ServerReacts(v) PROVE TgUpdatesInv'
  <2>1. PICK next : next = With(tg.sv, "reacts", v)
    OBVIOUS
  <2>2. PICK up : up = [k |-> "reacts", v |-> v]
    OBVIOUS
  <2>3. T!Server(next, up)
    BY <1>4, <2>1, <2>2 DEF T!ServerReacts, With
  <2>4. IsRec(SvFields, next) /\ next.ver = tg.sv.ver /\ next.reacts = v
    BY <1>2, <2>1 DEF SvFields
  <2>5. Told(up, tg.sv, next)
    BY <2>2, <2>4 DEF Told
  <2> QED
    BY <2>3, <2>4, <2>5, UpServer
<1>5. ASSUME NEW id, T!ServerPins(id) PROVE TgUpdatesInv'
  <2>1. PICK pins, u : T!Server(With(tg.sv, "pins", pins), [k |-> "pin", v |-> u])
    <3>1. \E pins, u : T!Server([tg.sv EXCEPT !.pins = pins], [k |-> "pin", v |-> u])
      BY <1>5, Zenon DEF T!ServerPins
    <3> QED
      BY <3>1 DEF With
  <2>2. PICK next : next = With(tg.sv, "pins", pins)
    OBVIOUS
  <2>3. PICK up : up = [k |-> "pin", v |-> u]
    OBVIOUS
  <2>4. IsRec(SvFields, next) /\ next.ver = tg.sv.ver /\ next.reacts = tg.sv.reacts
    BY <1>2, <2>2 DEF SvFields
  <2>5. Told(up, tg.sv, next)
    BY <2>3, <2>4 DEF Told
  <2>6. T!Server(next, up)
    BY <2>1, <2>2, <2>3
  <2> QED
    BY <2>4, <2>5, <2>6, UpServer
<1> QED
  BY <1>3, <1>4, <1>5

(* The handlers.                                                           *)
LEMMA UiPut == ASSUME NEW ui, IsRec(UiFields, ui), NEW f \in UiFields, NEW v
               PROVE  IsRec(UiFields, With(ui, f, v)) /\ With(ui, f, v)[f] = v /\ \A g \in UiFields : g # f => With(ui, f, v)[g] = ui[g]
  BY Put, RecDomain DEF Only

MessageShown(p, v, q) ==
    /\ IsRec(TgFields, q) /\ q.sv = p.sv /\ q.ups = p.ups /\ q.read = p.read /\ q.sure = p.sure
    /\ q.fillSeq = p.fillSeq + 1
    /\ IsRec(UiFields, q.ui) /\ q.ui.ver = v /\ q.ui.reacts = p.ui.reacts
    /\ \E more : q.tasks = p.tasks \cup more /\ (more = {} \/ (more = {T!Task("fill", p.fillSeq + 1)} /\ q.fills = p.fillSeq + 1))
ReactsShown(p, v, again, q) ==
    /\ TgSame(p, q, "ui") /\ IsRec(UiFields, q.ui) /\ q.ui.ver = p.ui.ver /\ q.ui.quote = p.ui.quote
    /\ q.ui.reacts = IF again /\ v = {} /\ p.ui.reacts # {} THEN p.ui.reacts ELSE v
PinShown(p, q) ==
    /\ TgSame(p, q, "ui") /\ IsRec(UiFields, q.ui) /\ q.ui.ver = p.ui.ver /\ q.ui.quote = p.ui.quote
    /\ q.ui.reacts = p.ui.reacts

LEMMA OnMessageIs ==
    ASSUME NEW p, IsRec(TgFields, p), IsRec(UiFields, p.ui), NEW v, NEW fill \in BOOLEAN, NEW q, q = T!OnMessage(p, v, fill)
    PROVE  MessageShown(p, v, q)
<1>0. PICK no : no = FALSE
  OBVIOUS
<1>1. PICK seq : seq = p.fillSeq + 1
  OBVIOUS
<1>2. PICK f : f = IF fill THEN seq ELSE None
  OBVIOUS
<1>3. PICK u : u = With(p.ui, "ver", v)
  OBVIOUS
<1>4. PICK w : w = With(u, "quote", no)
  OBVIOUS
<1>5. PICK more : more = IF fill THEN {T!Task("fill", seq)} ELSE {}
  OBVIOUS
<1>6. PICK q1 : q1 = With(p, "fillSeq", seq)
  OBVIOUS
<1>7. PICK q2 : q2 = With(q1, "fills", f)
  OBVIOUS
<1>8. PICK q3 : q3 = With(q2, "ui", u)
  OBVIOUS
<1>9. PICK q4 : q4 = With(q3, "ui", w)
  OBVIOUS
<1>f. "fillSeq" \in TgFields /\ "fills" \in TgFields /\ "ui" \in TgFields /\ "tasks" \in TgFields
  BY DEF TgFields
<1>10. TgSame(p, q1, "fillSeq") /\ q1.fillSeq = seq /\ IsRec(TgFields, q1)
  <2>1. TgSame(p, q1, "fillSeq") /\ q1.fillSeq = seq
    BY <1>6, <1>f, TgPut
  <2> QED
    BY <2>1 DEF TgSame
<1>11. TgSame(q1, q2, "fills") /\ q2.fills = f /\ IsRec(TgFields, q2)
  <2>1. TgSame(q1, q2, "fills") /\ q2.fills = f
    BY <1>7, <1>10, <1>f, TgPut
  <2> QED
    BY <2>1 DEF TgSame
<1>12. TgSame(q2, q3, "ui") /\ q3.ui = u /\ IsRec(TgFields, q3)
  <2>1. TgSame(q2, q3, "ui") /\ q3.ui = u
    BY <1>8, <1>11, <1>f, TgPut
  <2> QED
    BY <2>1 DEF TgSame
<1>13. TgSame(q3, q4, "ui") /\ q4.ui = w /\ IsRec(TgFields, q4)
  <2>1. TgSame(q3, q4, "ui") /\ q4.ui = w
    BY <1>9, <1>12, <1>f, TgPut
  <2> QED
    BY <2>1 DEF TgSame
<1>14. q = With(q4, "tasks", p.tasks \cup more)
  <2>1. q = [p EXCEPT !.fillSeq = seq, !.fills = IF fill THEN seq ELSE None, !.ui.ver = v, !.ui.quote = FALSE,
                      !.tasks = IF fill THEN @ \cup {T!Task("fill", seq)} ELSE @]
    BY <1>1 DEF T!OnMessage
  <2>2. q2.ui = p.ui /\ q3.ui = u /\ q4.tasks = p.tasks
    BY <1>10, <1>11, <1>12, <1>13 DEF TgSame
  <2>3. q = [q4 EXCEPT !.tasks = IF fill THEN @ \cup {T!Task("fill", seq)} ELSE @]
    BY <2>1, <2>2, <1>0, <1>2, <1>3, <1>4, <1>6, <1>7, <1>8, <1>9 DEF With
  <2> QED
    BY <2>2, <2>3, <1>5 DEF With
<1>15. TgSame(q4, q, "tasks") /\ q.tasks = p.tasks \cup more
  BY <1>13, <1>14, <1>f, TgPut
<1>16. /\ IsRec(TgFields, q) /\ q.sv = p.sv /\ q.ups = p.ups /\ q.read = p.read /\ q.sure = p.sure /\ q.fillSeq = seq
       /\ q.ui = w /\ q.fills = f
  BY <1>10, <1>11, <1>12, <1>13, <1>15 DEF TgSame
<1>17. IsRec(UiFields, w) /\ w.ver = v /\ w.reacts = p.ui.reacts
  <2>1. IsRec(UiFields, u) /\ u.ver = v /\ u.reacts = p.ui.reacts
    BY <1>3, UiPut DEF UiFields
  <2> QED
    BY <1>4, <2>1, UiPut DEF UiFields
<1> QED
  BY <1>1, <1>2, <1>5, <1>15, <1>16, <1>17 DEF MessageShown

LEMMA ReactedIs == ASSUME NEW p, IsRec(TgFields, p), IsRec(UiFields, p.ui), NEW v, NEW again \in BOOLEAN, NEW q, q = T!Reacted(p, v, again)
                   PROVE  ReactsShown(p, v, again, q)
<1>1. PICK new : new = IF again /\ v = {} /\ p.ui.reacts # {} THEN p.ui.reacts ELSE v
  OBVIOUS
<1>2. PICK u : u = With(p.ui, "reacts", new)
  OBVIOUS
<1>3. q = With(p, "ui", u)
  <2>1. q = [p EXCEPT !.ui.reacts = new]
    BY <1>1 DEF T!Reacted
  <2> QED
    BY <2>1, <1>2 DEF With
<1>4. TgSame(p, q, "ui") /\ q.ui = u
  <2>1. "ui" \in TgFields
    BY DEF TgFields
  <2> QED
    BY <1>3, <2>1, TgPut
<1>5. IsRec(UiFields, u) /\ u.reacts = new /\ u.ver = p.ui.ver /\ u.quote = p.ui.quote
  BY <1>2, UiPut DEF UiFields
<1> QED
  BY <1>1, <1>4, <1>5 DEF ReactsShown

LEMMA UiTwice == ASSUME NEW p, IsRec(TgFields, p), IsRec(UiFields, p.ui), NEW f \in {"flags", "pin"}, NEW g \in {"flags", "pin"},
                        NEW x, NEW y, NEW u, u = With(p.ui, f, x), NEW r, r = With(p, "ui", u), NEW q, q = With(r, "ui", With(r.ui, g, y))
                 PROVE  PinShown(p, q)
<1>1. "ui" \in TgFields /\ f \in UiFields /\ g \in UiFields
  BY DEF TgFields, UiFields
<1>2. TgSame(p, r, "ui") /\ r.ui = u /\ IsRec(TgFields, r)
  <2>1. TgSame(p, r, "ui") /\ r.ui = u
    BY <1>1, TgPut
  <2> QED
    BY <2>1 DEF TgSame
<1>3. PICK w : w = With(u, g, y)
  OBVIOUS
<1>4. TgSame(r, q, "ui") /\ q.ui = w
  BY <1>1, <1>2, <1>3, TgPut
<1>5. IsRec(UiFields, u) /\ u.ver = p.ui.ver /\ u.quote = p.ui.quote /\ u.reacts = p.ui.reacts
  BY <1>1, UiPut DEF UiFields
<1>6. IsRec(UiFields, w) /\ w.ver = u.ver /\ w.quote = u.quote /\ w.reacts = u.reacts
  BY <1>1, <1>3, <1>5, UiPut DEF UiFields
<1>7. TgSame(p, q, "ui")
  BY <1>2, <1>4 DEF TgSame
<1> QED
  BY <1>4, <1>5, <1>6, <1>7 DEF PinShown

LEMMA PinnedIs == ASSUME NEW p, IsRec(TgFields, p), IsRec(UiFields, p.ui), NEW id, NEW q, q = T!Pinned(p, id) \/ q = T!FetchedPin(p, id)
                  PROVE  PinShown(p, q)
<1>1. ASSUME NEW f \in {"flags", "pin"}, NEW g \in {"flags", "pin"}, NEW x, NEW y,
             q = With(With(p, "ui", With(p.ui, f, x)), "ui", With(With(p, "ui", With(p.ui, f, x)).ui, g, y))
      PROVE  PinShown(p, q)
  <2>1. PICK u : u = With(p.ui, f, x)
    OBVIOUS
  <2>2. PICK r : r = With(p, "ui", u)
    OBVIOUS
  <2>3. q = With(r, "ui", With(r.ui, g, y))
    BY <1>1, <2>1, <2>2
  <2> QED
    BY <2>1, <2>2, <2>3, UiTwice
<1>3. ASSUME NEW x, NEW y, q = [p EXCEPT !.ui.flags = x, !.ui.pin = y]
      PROVE  PinShown(p, q)
  <2>1. q = With(With(p, "ui", With(p.ui, "flags", x)), "ui", With(With(p, "ui", With(p.ui, "flags", x)).ui, "pin", y))
    BY <1>3 DEF With
  <2> QED
    BY <2>1, <1>1
<1>4. ASSUME NEW x, NEW y, q = [p EXCEPT !.ui.pin = x, !.ui.flags = y]
      PROVE  PinShown(p, q)
  <2>1. q = With(With(p, "ui", With(p.ui, "pin", x)), "ui", With(With(p, "ui", With(p.ui, "pin", x)).ui, "flags", y))
    BY <1>4 DEF With
  <2> QED
    BY <2>1, <1>1
<1>5. \E x, y : q = [p EXCEPT !.ui.flags = x, !.ui.pin = y] \/ q = [p EXCEPT !.ui.pin = x, !.ui.flags = y]
  BY Zenon DEF T!Pinned, T!FetchedPin
<1> QED
  BY <1>3, <1>4, <1>5

LEMMA UpHandle == ASSUME TgShape, TgUpdatesInv, T!Handle PROVE TgUpdatesInv'
<1>1. PICK p : p = With(tg, "ups", Tail(tg.ups))
  OBVIOUS
<1>2. p = [tg EXCEPT !.ups = Tail(@)]
  BY <1>1 DEF With
<1>3. TgSame(tg, p, "ups") /\ p.ups = Tail(tg.ups) /\ IsRec(TgFields, p)
  <2>1. "ups" \in TgFields
    BY DEF TgFields
  <2>2. TgSame(tg, p, "ups") /\ p.ups = Tail(tg.ups)
    BY <1>1, <2>1, TgPut DEF TgShape
  <2> QED
    BY <2>2 DEF TgSame
<1>4. /\ p.ui = tg.ui /\ p.sv = tg.sv /\ p.tasks = tg.tasks /\ p.fills = tg.fills /\ p.fillSeq = tg.fillSeq
      /\ p.read = tg.read /\ p.sure = tg.sure /\ IsRec(UiFields, p.ui)
  BY <1>3 DEF TgSame, TgUpdatesInv, ShownRight
<1>5. PICK up : up = Head(tg.ups)
  OBVIOUS
<1>6. tg.ups # <<>>
  BY DEF T!Handle
<1>7. ASSUME NEW fill \in BOOLEAN, up.k = "msg", tg' = T!OnMessage(p, up.v, fill) PROVE TgUpdatesInv'
  <2>1. PICK v : v = up.v
    OBVIOUS
  <2>2. PICK q : q = tg'
    OBVIOUS
  <2>3. /\ IsRec(TgFields, q) /\ q.sv = p.sv /\ q.ups = p.ups /\ q.read = p.read /\ q.sure = p.sure
        /\ q.fillSeq = p.fillSeq + 1
        /\ IsRec(UiFields, q.ui) /\ q.ui.ver = v /\ q.ui.reacts = p.ui.reacts
        /\ \E more : q.tasks = p.tasks \cup more /\ (more = {} \/ (more = {T!Task("fill", p.fillSeq + 1)} /\ q.fills = p.fillSeq + 1))
    <3>1. MessageShown(p, v, q)
      <4>1. q = T!OnMessage(p, v, fill)
        BY <1>7, <2>1, <2>2
      <4> QED
        BY <4>1, <1>3, <1>4, OnMessageIs
    <3> QED
      BY <3>1 DEF MessageShown
  <2>4. FillRight(q.tasks, q.fills, q.fillSeq, q.read, q.ui.quote)
    <3>1. PICK more : q.tasks = p.tasks \cup more /\ (more = {} \/ (more = {T!Task("fill", p.fillSeq + 1)} /\ q.fills = p.fillSeq + 1))
      BY <2>3
    <3>2. PICK f : f = q.fills
      OBVIOUS
    <3>3. FillRight(p.tasks, p.fills, p.fillSeq, p.read, p.ui.quote)
      BY <1>4 DEF TgUpdatesInv
    <3>4. PICK quote : quote = q.ui.quote
      OBVIOUS
    <3>5. FillRight(p.tasks \cup more, f, p.fillSeq + 1, p.read, quote)
      BY <3>1, <3>2, <3>3, FillMore
    <3> QED
      BY <2>3, <3>1, <3>2, <3>4, <3>5
  <2>5. Takes(Head(tg.ups), tg.ui, q.ui, q.sure, tg.sure)
    BY <1>4, <1>5, <1>7, <2>1, <2>3 DEF Takes
  <2>6. ShownRight(tg.sv, q.ui, Tail(tg.ups), q.sure)
    <3>1. PICK u : u = q.ui
      OBVIOUS
    <3>2. PICK s : s = q.sure
      OBVIOUS
    <3>3. Takes(Head(tg.ups), tg.ui, u, s, tg.sure) /\ IsRec(UiFields, u)
      BY <2>3, <2>5, <3>1, <3>2
    <3> QED
      BY <1>6, <3>1, <3>2, <3>3, ShownTakes DEF TgUpdatesInv
  <2>7. \A k \in q.tasks : IsRec(TaskFields, k)
    <3>1. IsRec(TaskFields, T!Task("fill", p.fillSeq + 1))
      BY DEF T!Task, IsRec, TaskFields
    <3> QED
      BY <1>4, <2>3, <3>1 DEF TgUpdatesInv
  <2> QED
    BY <1>3, <1>4, <2>2, <2>3, <2>4, <2>6, <2>7 DEF TgUpdatesInv
<1>8. ASSUME up.k = "reacts", tg' = With(T!Reacted(p, up.v, FALSE), "sure", TRUE) PROVE TgUpdatesInv'
  <2>1. PICK v, again : v = up.v /\ again = FALSE
    OBVIOUS
  <2>2. PICK r : r = T!Reacted(p, v, again)
    OBVIOUS
  <2>3. /\ TgSame(p, r, "ui") /\ IsRec(UiFields, r.ui) /\ r.ui.ver = p.ui.ver /\ r.ui.quote = p.ui.quote /\ r.ui.reacts = v
    <3>1. ReactsShown(p, v, again, r)
      BY <1>3, <1>4, <2>1, <2>2, ReactedIs
    <3> QED
      BY <3>1, <2>1 DEF ReactsShown
  <2>4. IsRec(TgFields, r)
    BY <2>3 DEF TgSame
  <2>5. PICK q : q = tg'
    OBVIOUS
  <2>6. PICK s : s = TRUE
    OBVIOUS
  <2>7. TgSame(r, q, "sure") /\ q.sure = s
    <3>1. q = With(r, "sure", s) /\ "sure" \in TgFields
      BY <1>8, <2>1, <2>2, <2>5, <2>6 DEF TgFields
    <3> QED
      BY <2>4, <3>1, TgPut
  <2>8. /\ q.sv = tg.sv /\ q.ups = Tail(tg.ups) /\ q.tasks = tg.tasks /\ q.fills = tg.fills /\ q.fillSeq = tg.fillSeq /\ q.read = tg.read
        /\ IsRec(UiFields, q.ui) /\ q.ui.ver = tg.ui.ver /\ q.ui.quote = tg.ui.quote /\ q.ui.reacts = v
    BY <1>3, <1>4, <2>3, <2>7 DEF TgSame
  <2>9. Takes(Head(tg.ups), tg.ui, q.ui, q.sure, tg.sure)
    BY <1>5, <1>8, <2>1, <2>8 DEF Takes
  <2>10. ShownRight(tg.sv, q.ui, Tail(tg.ups), q.sure)
    <3>1. PICK u : u = q.ui
      OBVIOUS
    <3>3. Takes(Head(tg.ups), tg.ui, u, s, tg.sure) /\ IsRec(UiFields, u)
      BY <2>7, <2>8, <2>9, <3>1
    <3> QED
      BY <1>6, <2>7, <3>1, <3>3, ShownTakes DEF TgUpdatesInv
  <2> QED
    BY <2>5, <2>8, <2>10 DEF TgUpdatesInv
<1>9. ASSUME up.k = "pin", tg' = T!Pinned(p, up.v) PROVE TgUpdatesInv'
  <2>1. PICK v : v = up.v
    OBVIOUS
  <2>2. PICK q : q = tg'
    OBVIOUS
  <2>3. /\ TgSame(p, q, "ui") /\ IsRec(UiFields, q.ui) /\ q.ui.ver = p.ui.ver /\ q.ui.quote = p.ui.quote
        /\ q.ui.reacts = p.ui.reacts
    <3>1. PinShown(p, q)
      BY <1>3, <1>4, <1>9, <2>1, <2>2, PinnedIs
    <3> QED
      BY <3>1 DEF PinShown
  <2>4. /\ q.sv = tg.sv /\ q.ups = Tail(tg.ups) /\ q.tasks = tg.tasks /\ q.fills = tg.fills /\ q.fillSeq = tg.fillSeq /\ q.read = tg.read
        /\ q.sure = tg.sure
    BY <1>3, <1>4, <2>3 DEF TgSame
  <2>5. Takes(Head(tg.ups), tg.ui, q.ui, tg.sure, tg.sure)
    BY <1>4, <1>5, <1>9, <2>3 DEF Takes
  <2>6. ShownRight(tg.sv, q.ui, Tail(tg.ups), tg.sure)
    <3>1. PICK u : u = q.ui
      OBVIOUS
    <3>2. PICK s : s = tg.sure
      OBVIOUS
    <3>3. Takes(Head(tg.ups), tg.ui, u, s, tg.sure) /\ IsRec(UiFields, u)
      BY <2>3, <2>5, <3>1, <3>2
    <3> QED
      BY <1>6, <3>1, <3>2, <3>3, ShownTakes DEF TgUpdatesInv
  <2> QED
    BY <1>4, <2>2, <2>3, <2>4, <2>6 DEF TgUpdatesInv
<1> QED
  <2>1. \/ up.k = "msg" /\ \E fill \in BOOLEAN : tg' = T!OnMessage(p, up.v, fill)
        \/ up.k = "reacts" /\ tg' = With(T!Reacted(p, up.v, FALSE), "sure", TRUE)
        \/ up.k = "pin" /\ tg' = T!Pinned(p, up.v)
    BY <1>2, <1>5, Zenon DEF T!Handle, T!Goes, With
  <2> QED
    BY <1>7, <1>8, <1>9, <2>1

(* The goroutines.                                                         *)
TasksFine(tasks) == \A k \in tasks : IsRec(TaskFields, k)

LEMMA TaskPut == ASSUME NEW k, IsRec(TaskFields, k), NEW f \in TaskFields, NEW v
                 PROVE  IsRec(TaskFields, With(k, f, v)) /\ \A g \in TaskFields : g # f => With(k, f, v)[g] = k[g]
  BY Put, RecDomain DEF Only

LEMMA UpTasks == ASSUME TgShape, TgUpdatesInv, NEW new, tg' = With(tg, "tasks", new), TasksFine(new),
                        FillRight(new, tg.fills, tg.fillSeq, tg.read, tg.ui.quote)
                 PROVE  TgUpdatesInv'
<1>1. PICK q : q = tg'
  OBVIOUS
<1>2. TgSame(tg, q, "tasks") /\ q.tasks = new
  <2>1. "tasks" \in TgFields
    BY DEF TgFields
  <2> QED
    BY <1>1, <2>1, TgPut DEF TgShape
<1> QED
  BY <1>1, <1>2 DEF TgSame, TgUpdatesInv, TasksFine

\* A task of another kind than a read of quotes goes on, goes or comes.
LEMMA OtherTasks == ASSUME TgUpdatesInv, NEW more, \A z \in more : IsRec(TaskFields, z) /\ z.k # "fill", NEW gone, \A z \in gone : z.k # "fill",
                           NEW new, new = (tg.tasks \ gone) \cup more
                    PROVE  TasksFine(new) /\ FillRight(new, tg.fills, tg.fillSeq, tg.read, tg.ui.quote)
<1>1. Fills(new) = Fills(tg.tasks)
  BY DEF Fills
<1>2. TasksFine(new)
  BY DEF TasksFine, TgUpdatesInv
<1> QED
  BY <1>1, <1>2, FillOther DEF TgUpdatesInv

LEMMA UpComes == ASSUME TgShape, TgUpdatesInv, T!FetchPins \/ \E v : T!React(v) PROVE TgUpdatesInv'
<1>1. ASSUME NEW v PROVE IsRec(TaskFields, T!Task("pins", v)) /\ T!Task("pins", v).k # "fill" /\ IsRec(TaskFields, T!Task("react", v)) /\ T!Task("react", v).k # "fill"
  BY DEF T!Task, IsRec, TaskFields
<1>2. CASE T!FetchPins
  <2>1. PICK more : more = {T!Task("pins", 0)}
    OBVIOUS
  <2>2. PICK new : new = (tg.tasks \ {}) \cup more
    OBVIOUS
  <2>3. TasksFine(new) /\ FillRight(new, tg.fills, tg.fillSeq, tg.read, tg.ui.quote)
    BY <1>1, <2>1, <2>2, OtherTasks
  <2>4. PICK p : p = With(tg, "pinFetched", TRUE)
    OBVIOUS
  <2>5. TgSame(tg, p, "pinFetched") /\ IsRec(TgFields, p)
    <3>1. "pinFetched" \in TgFields
      BY DEF TgFields
    <3>2. TgSame(tg, p, "pinFetched")
      BY <2>4, <3>1, TgPut DEF TgShape
    <3> QED
      BY <3>2 DEF TgSame
  <2>6. PICK q : q = tg'
    OBVIOUS
  <2>7. q = With(p, "tasks", new)
    <3>1. q = [tg EXCEPT !.pinFetched = TRUE, !.tasks = @ \cup {T!Task("pins", 0)}]
      BY <1>2, <2>6 DEF T!FetchPins, T!Does
    <3>2. p.tasks = tg.tasks
      BY <2>5 DEF TgSame
    <3>3. new = tg.tasks \cup {T!Task("pins", 0)}
      BY <2>1, <2>2
    <3> QED
      BY <2>4, <3>1, <3>2, <3>3 DEF With
  <2>8. TgSame(p, q, "tasks") /\ q.tasks = new
    <3>1. "tasks" \in TgFields
      BY DEF TgFields
    <3> QED
      BY <2>5, <2>7, <3>1, TgPut
  <2> QED
    BY <2>3, <2>5, <2>6, <2>8 DEF TgSame, TgUpdatesInv, TasksFine
<1>3. ASSUME NEW v, T!React(v) PROVE TgUpdatesInv'
  <2>1. PICK more : more = {T!Task("react", v)}
    OBVIOUS
  <2>2. PICK new : new = (tg.tasks \ {}) \cup more
    OBVIOUS
  <2>3. TasksFine(new) /\ FillRight(new, tg.fills, tg.fillSeq, tg.read, tg.ui.quote)
    BY <1>1, <2>1, <2>2, OtherTasks
  <2>4. tg' = With(tg, "tasks", new)
    BY <1>3, <2>1, <2>2 DEF T!React, T!Does, With
  <2> QED
    BY <2>3, <2>4, UpTasks
<1> QED
  BY <1>2, <1>3

LEMMA UpFill == ASSUME TgShape, TgUpdatesInv, NEW k \in tg.tasks, T!FillLater(k) PROVE TgUpdatesInv'
<1>1. k \in Fills(tg.tasks) /\ IsRec(TaskFields, k)
  BY DEF T!FillLater, Fills, TgUpdatesInv
<1>2. FillRight(tg.tasks, tg.fills, tg.fillSeq, tg.read, tg.ui.quote)
  BY DEF TgUpdatesInv
<1>f. "fills" \in TgFields /\ "read" \in TgFields /\ "tasks" \in TgFields /\ "ui" \in TgFields
  BY DEF TgFields
<1>3. ASSUME NEW ph, NEW z, z = With(k, "ph", ph), NEW more, more = {} \/ more = {z} PROVE TasksFine((tg.tasks \ {k}) \cup more)
  <2>1. IsRec(TaskFields, z)
    BY <1>1, <1>3, TaskPut DEF TaskFields
  <2> QED
    BY <1>3, <2>1 DEF TasksFine, TgUpdatesInv
<1>4. CASE k.ph = "start" /\ tg' = T!Step(k, "read", [k EXCEPT !.ph = "read"])
  <2>1. PICK z : z = With(k, "ph", "read")
    OBVIOUS
  <2>2. PICK new : new = (tg.tasks \ {k}) \cup {z}
    OBVIOUS
  <2>3. tg' = With(tg, "tasks", new)
    BY <1>4, <2>1, <2>2 DEF T!Step, With
  <2>4. FillRight(new, tg.fills, tg.fillSeq, tg.read, tg.ui.quote)
    <3>1. new = (tg.tasks \ {k}) \cup {[k EXCEPT !.ph = "read"]}
      BY <2>1, <2>2 DEF With
    <3> QED
      BY <1>1, <1>2, <1>4, <3>1, FillStarts
  <2>5. TasksFine(new)
    BY <1>3, <2>1, <2>2
  <2> QED
    BY <2>3, <2>4, <2>5, UpTasks
<1>5. ASSUME k.ph = "read", NEW ok \in BOOLEAN,
             tg' = LET p == [tg EXCEPT !.fills = IF tg.fills = k.v THEN None ELSE @, !.read = IF ok THEN @ \cup {k.v} ELSE @]
                   IN  [p EXCEPT !.tasks = (@ \ {k}) \cup IF tg.fills = k.v /\ ok THEN {[k EXCEPT !.ph = "post"]} ELSE {}]
      PROVE  TgUpdatesInv'
  <2>1. PICK z : z = With(k, "ph", "post")
    OBVIOUS
  <2>2. PICK more : more = IF tg.fills = k.v /\ ok THEN {z} ELSE {}
    OBVIOUS
  <2>3. PICK f : f = IF tg.fills = k.v THEN None ELSE tg.fills
    OBVIOUS
  <2>4. PICK r : r = IF ok THEN tg.read \cup {k.v} ELSE tg.read
    OBVIOUS
  <2>5. PICK new : new = (tg.tasks \ {k}) \cup more
    OBVIOUS
  <2>6. FillRight(new, f, tg.fillSeq, r, tg.ui.quote)
    <3>1. more = IF tg.fills = k.v /\ ok THEN {[k EXCEPT !.ph = "post"]} ELSE {}
      BY <2>1, <2>2 DEF With
    <3>2. PICK fills : fills = tg.fills
      OBVIOUS
    <3>3. PICK read : read = tg.read
      OBVIOUS
    <3>4. f = fills \/ fills = k.v
      BY <2>3, <3>2
    <3>5. r = IF ok THEN read \cup {k.v} ELSE read
      BY <2>4, <3>3
    <3>6. more = IF fills = k.v /\ ok THEN {[k EXCEPT !.ph = "post"]} ELSE {}
      BY <3>1, <3>2
    <3>7. FillRight(tg.tasks, fills, tg.fillSeq, read, tg.ui.quote)
      BY <1>2, <3>2, <3>3
    <3> QED
      BY <1>1, <1>5, <2>5, <3>4, <3>5, <3>6, <3>7, FillReads
  <2>7. TasksFine(new)
    BY <1>3, <2>1, <2>2, <2>5
  <2>8. PICK q1 : q1 = With(tg, "fills", f)
    OBVIOUS
  <2>9. PICK q2 : q2 = With(q1, "read", r)
    OBVIOUS
  <2>10. TgSame(tg, q1, "fills") /\ q1.fills = f /\ IsRec(TgFields, q1)
    <3>1. TgSame(tg, q1, "fills") /\ q1.fills = f
      BY <2>8, <1>f, TgPut DEF TgShape
    <3> QED
      BY <3>1 DEF TgSame
  <2>11. TgSame(q1, q2, "read") /\ q2.read = r /\ IsRec(TgFields, q2)
    <3>1. TgSame(q1, q2, "read") /\ q2.read = r
      BY <2>9, <2>10, <1>f, TgPut
    <3> QED
      BY <3>1 DEF TgSame
  <2>12. PICK q : q = tg'
    OBVIOUS
  <2>13. q = With(q2, "tasks", new)
    <3>1. q1.read = tg.read /\ q2.tasks = tg.tasks
      BY <2>10, <2>11 DEF TgSame
    <3>2. q2 = [tg EXCEPT !.fills = IF tg.fills = k.v THEN None ELSE @, !.read = IF ok THEN @ \cup {k.v} ELSE @]
      BY <2>3, <2>4, <2>8, <2>9, <3>1 DEF With
    <3>3. q = [q2 EXCEPT !.tasks = (@ \ {k}) \cup IF tg.fills = k.v /\ ok THEN {[k EXCEPT !.ph = "post"]} ELSE {}]
      BY <1>5, <2>12, <3>2
    <3>4. more = IF tg.fills = k.v /\ ok THEN {[k EXCEPT !.ph = "post"]} ELSE {}
      BY <2>1, <2>2 DEF With
    <3> QED
      BY <2>5, <3>1, <3>3, <3>4 DEF With
  <2>14. TgSame(q2, q, "tasks") /\ q.tasks = new
    BY <2>11, <2>13, <1>f, TgPut
  <2> QED
    BY <2>6, <2>7, <2>10, <2>11, <2>12, <2>14 DEF TgSame, TgUpdatesInv, TasksFine
<1>6. CASE tg' = [T!Gone(tg, k) EXCEPT !.ui.quote = TRUE]
  <2>1. PICK new : new = tg.tasks \ {k}
    OBVIOUS
  <2>2. PICK quote : quote = TRUE
    OBVIOUS
  <2>3. PICK u : u = With(tg.ui, "quote", quote)
    OBVIOUS
  <2>4. PICK p : p = With(tg, "tasks", new)
    OBVIOUS
  <2>5. TgSame(tg, p, "tasks") /\ p.tasks = new /\ IsRec(TgFields, p)
    <3>1. TgSame(tg, p, "tasks") /\ p.tasks = new
      BY <2>4, <1>f, TgPut DEF TgShape
    <3> QED
      BY <3>1 DEF TgSame
  <2>6. PICK q : q = tg'
    OBVIOUS
  <2>7. q = With(p, "ui", u)
    <3>1. p = T!Gone(tg, k) /\ p.ui = tg.ui
      BY <2>1, <2>4, <2>5 DEF T!Gone, With, TgSame
    <3> QED
      BY <1>6, <2>2, <2>3, <2>6, <3>1 DEF With
  <2>8. TgSame(p, q, "ui") /\ q.ui = u
    BY <2>5, <2>7, <1>f, TgPut
  <2>9. IsRec(UiFields, u) /\ u.quote = quote /\ u.ver = tg.ui.ver /\ u.reacts = tg.ui.reacts
    BY <2>3, UiPut DEF UiFields, TgUpdatesInv, ShownRight
  <2>10. FillRight(new, tg.fills, tg.fillSeq, tg.read, u.quote)
    BY <1>2, <2>1, <2>2, <2>9, FillPosts
  <2>11. ShownRight(tg.sv, u, tg.ups, tg.sure)
    BY <2>9, ShownRead DEF TgUpdatesInv
  <2>12. TasksFine(new)
    BY <2>1 DEF TasksFine, TgUpdatesInv
  <2> QED
    BY <2>5, <2>6, <2>8, <2>10, <2>11, <2>12 DEF TgSame, TgUpdatesInv, TasksFine
<1> QED
  BY <1>4, <1>5, <1>6, Zenon DEF T!FillLater, T!Goes

\* My reaction: its RPC, its update, the message read again.
LEMMA UpReact == ASSUME TgShape, TgUpdatesInv, NEW k \in tg.tasks, T!ReactGoes(k) PROVE TgUpdatesInv'
<1>1. k.k = "react" /\ IsRec(TaskFields, k)
  BY DEF T!ReactGoes, TgUpdatesInv
<1>f. "sv" \in TgFields /\ "was" \in TgFields /\ "ups" \in TgFields /\ "tasks" \in TgFields /\ "sure" \in TgFields
  BY DEF TgFields
<1>2. ASSUME NEW z, IsRec(TaskFields, z), z.k = "react", NEW new, new = (tg.tasks \ {k}) \cup {z}
      PROVE  TasksFine(new) /\ FillRight(new, tg.fills, tg.fillSeq, tg.read, tg.ui.quote)
  <2>1. PICK more, gone : more = {z} /\ gone = {k}
    OBVIOUS
  <2> QED
    BY <1>1, <1>2, <2>1, OtherTasks
<1>3. TasksFine(tg.tasks \ {k}) /\ FillRight(tg.tasks \ {k}, tg.fills, tg.fillSeq, tg.read, tg.ui.quote)
  <2>1. PICK more, gone, new : more = {} /\ gone = {k} /\ new = (tg.tasks \ gone) \cup more
    OBVIOUS
  <2>2. new = tg.tasks \ {k}
    BY <2>1
  <2> QED
    BY <1>1, <2>1, <2>2, OtherTasks
<1>4. ASSUME NEW ph PROVE IsRec(TaskFields, With(k, "ph", ph)) /\ With(k, "ph", ph).k = "react"
  BY <1>1, TaskPut DEF TaskFields
<1>5. ASSUME NEW ph, NEW v PROVE IsRec(TaskFields, With(With(k, "ph", ph), "v", v)) /\ With(With(k, "ph", ph), "v", v).k = "react"
  BY <1>4, TaskPut DEF TaskFields
<1>6. CASE tg' = T!Gone(tg, k)
  <2>1. tg' = With(tg, "tasks", tg.tasks \ {k})
    BY <1>6 DEF T!Gone, With
  <2> QED
    BY <1>3, <2>1, UpTasks
<1>7. ASSUME NEW v, tg' = [T!Step(k, "post", [k EXCEPT !.ph = "post", !.v = v]) EXCEPT
                                  !.sv.reacts = v, !.was = tg.sv.reacts, !.ups = Append(@, [k |-> "reacts", v |-> v])]
      PROVE  TgUpdatesInv'
  <2>1. PICK z : z = With(With(k, "ph", "post"), "v", v)
    OBVIOUS
  <2>2. PICK new : new = (tg.tasks \ {k}) \cup {z}
    OBVIOUS
  <2>3. TasksFine(new) /\ FillRight(new, tg.fills, tg.fillSeq, tg.read, tg.ui.quote)
    BY <1>2, <1>5, <2>1, <2>2
  <2>4. PICK next : next = With(tg.sv, "reacts", v)
    OBVIOUS
  <2>5. PICK up : up = [k |-> "reacts", v |-> v]
    OBVIOUS
  <2>6. PICK q1 : q1 = With(tg, "tasks", new)
    OBVIOUS
  <2>7. PICK q2 : q2 = With(q1, "sv", next)
    OBVIOUS
  <2>8. PICK q3 : q3 = With(q2, "was", tg.sv.reacts)
    OBVIOUS
  <2>9. TgSame(tg, q1, "tasks") /\ q1.tasks = new /\ IsRec(TgFields, q1)
    <3>1. TgSame(tg, q1, "tasks") /\ q1.tasks = new
      BY <2>6, <1>f, TgPut DEF TgShape
    <3> QED
      BY <3>1 DEF TgSame
  <2>10. TgSame(q1, q2, "sv") /\ q2.sv = next /\ IsRec(TgFields, q2)
    <3>1. TgSame(q1, q2, "sv") /\ q2.sv = next
      BY <2>7, <2>9, <1>f, TgPut
    <3> QED
      BY <3>1 DEF TgSame
  <2>11. TgSame(q2, q3, "was") /\ IsRec(TgFields, q3)
    <3>1. TgSame(q2, q3, "was")
      BY <2>8, <2>10, <1>f, TgPut
    <3> QED
      BY <3>1 DEF TgSame
  <2>12. PICK q : q = tg'
    OBVIOUS
  <2>13. q = With(q3, "ups", Append(tg.ups, up))
    <3>1. q1.sv = tg.sv /\ q3.ups = tg.ups
      BY <2>9, <2>10, <2>11 DEF TgSame
    <3>2. q1 = T!Step(k, "post", [k EXCEPT !.ph = "post", !.v = v])
      BY <2>1, <2>2, <2>6 DEF T!Step, With
    <3>3. q = [q1 EXCEPT !.sv.reacts = v, !.was = tg.sv.reacts, !.ups = Append(@, up)]
      BY <1>7, <2>5, <2>12, <3>2
    <3>4. q3 = [q1 EXCEPT !.sv.reacts = v, !.was = tg.sv.reacts]
      BY <2>4, <2>7, <2>8, <3>1 DEF With
    <3>5. q = [q3 EXCEPT !.ups = Append(@, up)]
      BY <3>3, <3>4
    <3> QED
      BY <3>1, <3>5 DEF With
  <2>14. TgSame(q3, q, "ups") /\ q.ups = Append(tg.ups, up)
    BY <2>11, <2>13, <1>f, TgPut
  <2>15. IsRec(SvFields, next) /\ next.reacts = v /\ next.ver = tg.sv.ver
    <3>1. IsRec(SvFields, tg.sv)
      BY DEF TgUpdatesInv, ShownRight
    <3> QED
      BY <2>4, <3>1, Put, RecDomain DEF Only, SvFields
  <2>16. Told(up, tg.sv, next)
    BY <2>5, <2>15 DEF Told
  <2>17. ShownRight(next, tg.ui, Append(tg.ups, up), tg.sure)
    BY <2>15, <2>16, ShownServer DEF TgUpdatesInv
  <2>18. /\ q.sv = next /\ q.ui = tg.ui /\ q.tasks = new /\ q.fills = tg.fills /\ q.fillSeq = tg.fillSeq
         /\ q.read = tg.read /\ q.sure = tg.sure
    BY <2>9, <2>10, <2>11, <2>14 DEF TgSame
  <2> QED
    BY <2>3, <2>12, <2>14, <2>17, <2>18 DEF TgUpdatesInv, TasksFine
<1>8. ASSUME NEW new, TasksFine(new), FillRight(new, tg.fills, tg.fillSeq, tg.read, tg.ui.quote), NEW again \in BOOLEAN, NEW s,
             s /\ ~again => k.v = tg.sv.reacts, s /\ again => tg.sure \/ k.v = tg.sv.reacts,
             tg' = With(T!Reacted(With(tg, "tasks", new), k.v, again), "sure", s)
      PROVE  TgUpdatesInv'
  <2>1. PICK v : v = k.v
    OBVIOUS
  <2>2. PICK p : p = With(tg, "tasks", new)
    OBVIOUS
  <2>3. TgSame(tg, p, "tasks") /\ p.tasks = new /\ IsRec(TgFields, p)
    <3>1. TgSame(tg, p, "tasks") /\ p.tasks = new
      BY <2>2, <1>f, TgPut DEF TgShape
    <3> QED
      BY <3>1 DEF TgSame
  <2>4. PICK r : r = T!Reacted(p, v, again)
    OBVIOUS
  <2>5. p.ui = tg.ui /\ IsRec(UiFields, p.ui)
    BY <2>3 DEF TgSame, TgUpdatesInv, ShownRight
  <2>6. ReactsShown(p, v, again, r)
    BY <2>3, <2>4, <2>5, ReactedIs
  <2>7. TgSame(p, r, "ui") /\ IsRec(TgFields, r)
    BY <2>6 DEF ReactsShown, TgSame
  <2>8. PICK q : q = tg'
    OBVIOUS
  <2>9. TgSame(r, q, "sure") /\ q.sure = s
    <3>1. q = With(r, "sure", s)
      BY <1>8, <2>1, <2>2, <2>4, <2>8
    <3> QED
      BY <2>7, <3>1, <1>f, TgPut
  <2>10. PICK u : u = r.ui
    OBVIOUS
  <2>11. /\ IsRec(UiFields, u) /\ u.ver = tg.ui.ver /\ u.quote = tg.ui.quote
         /\ u.reacts = IF again /\ v = {} /\ tg.ui.reacts # {} THEN tg.ui.reacts ELSE v
    BY <2>5, <2>6, <2>10 DEF ReactsShown
  <2>12. s /\ tg.sv.reacts # {} => u.reacts # {} \/ (tg.sure /\ tg.ui.reacts = {})
    BY <1>8, <2>1, <2>11
  <2>13. ShownRight(tg.sv, u, tg.ups, s)
    BY <2>11, <2>12, ShownRead DEF TgUpdatesInv
  <2>14. /\ q.sv = tg.sv /\ q.ui = u /\ q.ups = tg.ups /\ q.tasks = new /\ q.fills = tg.fills /\ q.fillSeq = tg.fillSeq
         /\ q.read = tg.read
    BY <2>3, <2>7, <2>9, <2>10 DEF TgSame
  <2> QED
    BY <1>8, <2>8, <2>9, <2>11, <2>13, <2>14 DEF TgUpdatesInv, TasksFine
<1>9. CASE tg' = [T!Reacted(T!Step(k, "read", [k EXCEPT !.ph = "read"]), k.v, FALSE) EXCEPT !.sure = k.v = tg.sv.reacts]
  <2>1. PICK z : z = With(k, "ph", "read")
    OBVIOUS
  <2>2. PICK new : new = (tg.tasks \ {k}) \cup {z}
    OBVIOUS
  <2>3. TasksFine(new) /\ FillRight(new, tg.fills, tg.fillSeq, tg.read, tg.ui.quote)
    BY <1>2, <1>4, <2>1, <2>2
  <2>4. PICK s : s = (k.v = tg.sv.reacts)
    OBVIOUS
  <2>5. PICK again : again = FALSE
    OBVIOUS
  <2>6. tg' = With(T!Reacted(With(tg, "tasks", new), k.v, again), "sure", s)
    <3>1. T!Step(k, "read", [k EXCEPT !.ph = "read"]) = With(tg, "tasks", new)
      BY <2>1, <2>2 DEF T!Step, With
    <3> QED
      BY <1>9, <2>4, <2>5, <3>1 DEF With
  <2> QED
    BY <1>8, <2>3, <2>4, <2>5, <2>6
<1>10. ASSUME NEW v, tg' = T!Step(k, "refetch", [k EXCEPT !.ph = "refetch", !.v = v]) PROVE TgUpdatesInv'
  <2>1. PICK z : z = With(With(k, "ph", "refetch"), "v", v)
    OBVIOUS
  <2>2. PICK new : new = (tg.tasks \ {k}) \cup {z}
    OBVIOUS
  <2>3. tg' = With(tg, "tasks", new)
    BY <1>10, <2>1, <2>2 DEF T!Step, With
  <2> QED
    BY <1>2, <1>5, <2>1, <2>2, <2>3, UpTasks
<1>11. CASE tg' = [T!Reacted(T!Gone(tg, k), k.v, TRUE) EXCEPT !.sure = @ \/ k.v = tg.sv.reacts]
  <2>1. PICK new : new = tg.tasks \ {k}
    OBVIOUS
  <2>2. PICK s : s = (tg.sure \/ k.v = tg.sv.reacts)
    OBVIOUS
  <2>3. PICK again : again = TRUE
    OBVIOUS
  <2>4. tg' = With(T!Reacted(With(tg, "tasks", new), k.v, again), "sure", s)
    <3>1. T!Gone(tg, k) = With(tg, "tasks", new)
      BY <2>1 DEF T!Gone, With
    <3>2. PICK r : r = T!Reacted(With(tg, "tasks", new), k.v, again)
      OBVIOUS
    <3>3. tg' = [r EXCEPT !.sure = @ \/ k.v = tg.sv.reacts]
      BY <1>11, <2>3, <3>1, <3>2
    <3>4. r.sure = tg.sure
      <4>1. PICK p : p = With(tg, "tasks", new)
        OBVIOUS
      <4>2. TgSame(tg, p, "tasks") /\ IsRec(TgFields, p)
        <5>1. TgSame(tg, p, "tasks")
          BY <4>1, <1>f, TgPut DEF TgShape
        <5> QED
          BY <5>1 DEF TgSame
      <4>3. IsRec(UiFields, p.ui)
        BY <4>2 DEF TgSame, TgUpdatesInv, ShownRight
      <4>4. PICK v : v = k.v
        OBVIOUS
      <4>5. ReactsShown(p, v, again, r)
        BY <2>3, <3>2, <4>1, <4>2, <4>3, <4>4, ReactedIs
      <4> QED
        BY <4>2, <4>5 DEF ReactsShown, TgSame
    <3> QED
      BY <2>2, <3>2, <3>3, <3>4 DEF With
  <2> QED
    BY <1>3, <1>8, <2>1, <2>2, <2>3, <2>4
<1> QED
  BY <1>6, <1>7, <1>9, <1>10, <1>11, Zenon DEF T!ReactGoes, T!Goes

LEMMA UpPins == ASSUME TgShape, TgUpdatesInv, NEW k \in tg.tasks, T!PinsGo(k) PROVE TgUpdatesInv'
<1>1. k.k = "pins" /\ IsRec(TaskFields, k)
  BY DEF T!PinsGo, TgUpdatesInv
<1>3. TasksFine(tg.tasks \ {k}) /\ FillRight(tg.tasks \ {k}, tg.fills, tg.fillSeq, tg.read, tg.ui.quote)
  <2>1. PICK more, gone, new : more = {} /\ gone = {k} /\ new = (tg.tasks \ gone) \cup more
    OBVIOUS
  <2>2. new = tg.tasks \ {k}
    BY <2>1
  <2> QED
    BY <1>1, <2>1, <2>2, OtherTasks
<1>4. ASSUME NEW v, tg' = T!Step(k, "post", [k EXCEPT !.ph = "post", !.v = v]) PROVE TgUpdatesInv'
  <2>1. PICK z : z = With(With(k, "ph", "post"), "v", v)
    OBVIOUS
  <2>2. PICK more, gone, new : more = {z} /\ gone = {k} /\ new = (tg.tasks \ gone) \cup more
    OBVIOUS
  <2>3. tg' = With(tg, "tasks", new)
    BY <1>4, <2>1, <2>2 DEF T!Step, With
  <2>4. IsRec(TaskFields, z) /\ z.k = "pins"
    <3>1. IsRec(TaskFields, With(k, "ph", "post")) /\ With(k, "ph", "post").k = "pins"
      BY <1>1, TaskPut DEF TaskFields
    <3> QED
      BY <2>1, <3>1, TaskPut DEF TaskFields
  <2> QED
    BY <1>1, <2>2, <2>3, <2>4, OtherTasks, UpTasks
<1>5. CASE tg' = T!Gone(tg, k)
  <2>1. tg' = With(tg, "tasks", tg.tasks \ {k})
    BY <1>5 DEF T!Gone, With
  <2> QED
    BY <1>3, <2>1, UpTasks
<1>6. CASE tg' = T!FetchedPin(T!Gone(tg, k), k.v)
  <2>1. PICK v : v = k.v
    OBVIOUS
  <2>2. PICK new : new = tg.tasks \ {k}
    OBVIOUS
  <2>3. PICK p : p = With(tg, "tasks", new)
    OBVIOUS
  <2>4. TgSame(tg, p, "tasks") /\ p.tasks = new /\ IsRec(TgFields, p)
    <3>1. TgSame(tg, p, "tasks") /\ p.tasks = new
      BY <2>3, TgPut DEF TgShape, TgFields
    <3> QED
      BY <3>1 DEF TgSame
  <2>5. PICK q : q = tg'
    OBVIOUS
  <2>6. q = T!FetchedPin(p, v)
    <3>1. p = T!Gone(tg, k)
      BY <2>2, <2>3 DEF T!Gone, With
    <3> QED
      BY <1>6, <2>1, <2>5, <3>1
  <2>7. PinShown(p, q)
    <3>1. IsRec(UiFields, p.ui)
      BY <2>4 DEF TgSame, TgUpdatesInv, ShownRight
    <3> QED
      BY <2>4, <2>6, <3>1, PinnedIs
  <2>8. PICK u : u = q.ui
    OBVIOUS
  <2>9. IsRec(UiFields, u) /\ u.ver = tg.ui.ver /\ u.reacts = tg.ui.reacts /\ u.quote = tg.ui.quote
    BY <2>4, <2>7, <2>8 DEF PinShown, TgSame
  <2>10. ShownRight(tg.sv, u, tg.ups, tg.sure)
    BY <2>9, ShownRead DEF TgUpdatesInv
  <2> QED
    BY <1>3, <2>2, <2>4, <2>5, <2>7, <2>8, <2>9, <2>10 DEF PinShown, TgSame, TgUpdatesInv, TasksFine
<1> QED
  BY <1>4, <1>5, <1>6, Zenon DEF T!PinsGo, T!Goes

LEMMA TgUpdatesInit == ASSUME T!TgcInit PROVE TgUpdatesInv
<1>1. /\ tg.sv = [ver |-> 0, reacts |-> {}, pins |-> {}] /\ tg.ui = [ver |-> 0, quote |-> TRUE, reacts |-> {}, flags |-> {}, pin |-> 0]
      /\ tg.ups = <<>> /\ tg.tasks = {} /\ tg.fillSeq = 0 /\ tg.read = {}
  BY DEF T!TgcInit
<1>2. IsRec(SvFields, tg.sv) /\ IsRec(UiFields, tg.ui) /\ tg.ui.ver = tg.sv.ver /\ tg.sv.reacts = {}
  BY <1>1 DEF IsRec, SvFields, UiFields
<1>3. IsUps(tg.ups) /\ LastSays(tg.ups, "msg", tg.sv.ver) /\ LastSays(tg.ups, "reacts", tg.sv.reacts)
  BY <1>1 DEF IsUps, LastSays
<1>4. FillRight(tg.tasks, tg.fills, tg.fillSeq, tg.read, tg.ui.quote)
  <2>1. Fills(tg.tasks) = {}
    BY <1>1 DEF Fills
  <2> QED
    BY <1>1, <2>1 DEF FillRight
<1> QED
  BY <1>1, <1>2, <1>3, <1>4 DEF TgUpdatesInv, ShownRight

LEMMA TgUpdatesKept == ASSUME TgBreakerInv, TgLoginInv, TgUpdatesInv, [T!TgcNext]_tgcVars, Wait \in Nat PROVE TgUpdatesInv'
<1>1. ASSUME NEW G, Only(G, tg, tg'), G \cap TgUpdateFields = {} PROVE TgUpdatesInv'
  <2>1. /\ tg'.sv = tg.sv /\ tg'.ui = tg.ui /\ tg'.ups = tg.ups /\ tg'.tasks = tg.tasks /\ tg'.fills = tg.fills
        /\ tg'.fillSeq = tg.fillSeq /\ tg'.read = tg.read /\ tg'.sure = tg.sure
    BY <1>1, RecDomain DEF Only, TgFields, TgUpdateFields, TgBreakerInv, TgShape
  <2> QED
    BY <2>1 DEF TgUpdatesInv
<1>2. CASE TgCallStep
  BY <1>2, <1>1, TgCallKept DEF TgBreakerInv, Kept, TgCallFields, TgUpdateFields
<1>3. CASE TgUpdateStep
  <2>1. ASSUME NEW k \in tg.tasks, T!FillLater(k) \/ T!ReactGoes(k) \/ T!PinsGo(k) PROVE TgUpdatesInv'
    BY <2>1, UpFill, UpReact, UpPins DEF TgBreakerInv
  <2> QED
    BY <1>3, <2>1, UpServers, UpHandle, UpComes DEF TgUpdateStep, T!Tasks, TgBreakerInv
<1>4. CASE TgFileStep
  BY <1>4, <1>1, TgFileFrame DEF TgFile, Within, TgBreakerInv, TgFileFields, TgUpdateFields
<1>5. CASE TgLoginStep
  BY <1>5, <1>1, TgLoginRight DEF TgBreakerInv, TgUpdateFields
<1>6. CASE UNCHANGED tgcVars
  BY <1>6 DEF tgcVars, TgUpdatesInv
<1> QED
  BY <1>2, <1>3, <1>4, <1>5, <1>6, TgNextParts

LEMMA TgUpdatesShown == ASSUME TgUpdatesInv PROVE T!UpdatesShown
<1> SUFFICES ASSUME tg.ups = <<>>, tg.tasks = {}
             PROVE  /\ tg.ui.ver = tg.sv.ver
                    /\ tg.fillSeq \in tg.read => tg.ui.quote
                    /\ tg.sure /\ tg.sv.reacts # {} => tg.ui.reacts # {}
  BY DEF T!UpdatesShown
<1>1. ~Pending(tg.ups, "msg") /\ ~Pending(tg.ups, "reacts")
  BY DEF Pending
<1>2. Fills(tg.tasks) = {}
  BY DEF Fills
<1> QED
  BY <1>1, <1>2 DEF TgUpdatesInv, ShownRight, FillRight

-----------------------------------------------------------------------------
(* Discord: which fields of its record a step changes.                     *)

DsFields == {"scene", "tasks", "top", "sv", "ups", "store", "ui", "raced", "still", "g", "q", "files", "path", "temps", "gone", "quit",
             "lg", "calls"}
DsLiveFields == {"tasks", "top", "sv", "ups", "store", "ui", "raced", "still"}
DsServerFields == {"top", "sv", "ups", "store", "ui", "raced", "still"}
DsGuildFields == {"tasks", "g"}
DsFileFields == {"files", "path", "temps", "gone", "quit"}
DsShape == IsRec(DsFields, ds)

DsServerStep == \/ D!ServerCreates \/ D!Handle
                \/ \E id \in 1..Messages : D!ServerReacts(id, "add") \/ D!ServerReacts(id, "remove") \/ D!ServerClears(id) \/ D!ServerDeletes(id)
DsPageStep == \/ (\E older \in BOOLEAN : D!LoadHistory(older)) \/ (\E id \in 1..Messages : D!React(id))
              \/ \E p \in ds.tasks : D!HistoryGoes(p) \/ D!ReactGoes(p)
DsGuildStep == \/ (\E p \in ds.tasks : D!DialogsGo(p)) \/ D!Outage \/ D!Back \/ D!GuildGone \/ D!EmojisChange \/ D!LoadDialogs
               \/ (\E c \in {"G", "T"} : D!ChatFor(c)) \/ (\E c \in {"D", "G", "T"} : D!DeleteChat(c))
DsSearchStep == (\E all \in BOOLEAN : D!AskSearch(all)) \/ D!BudgetSpent \/ D!Search \/ D!SearchGlobal
DsFileStep == D!Download \/ (\E work \in BOOLEAN : D!Upload(work)) \/ D!Quit \/ (\E x \in ds.files : D!Stalls(x)) \/ D!Transfers
DsLoginStep == \/ D!StartRun \/ D!ShowCode \/ D!Scanned \/ D!Enter \/ D!PendingLogin \/ D!QRFails \/ D!GivesUp \/ D!Revoke
               \/ D!Open \/ D!Closed \/ D!LosesNet \/ D!QuitRun \/ D!Logout
DsCallStep == (\E op \in D!Calls : D!Call(op)) \/ D!CallsGo

LEMMA DsNextParts == D!DscNext => \/ DsServerStep \/ DsPageStep \/ DsGuildStep \/ DsSearchStep \/ DsFileStep \/ DsLoginStep
                                  \/ DsCallStep
  BY DEF D!DscNext, DsServerStep, DsPageStep, DsGuildStep, DsSearchStep, DsFileStep, DsLoginStep, DsCallStep

DsIn(G, p, q) == Within(DsFields, G, p, q)

LEMMA DsPut == ASSUME NEW G \in SUBSET DsFields, NEW p, NEW q, DsIn(G, p, q), NEW f \in G, NEW v PROVE DsIn(G, p, With(q, f, v))
  BY WithinPut DEF DsIn

LEMMA DsLivePut ==
    ASSUME NEW p, NEW q, DsIn(DsLiveFields, p, q)
    PROVE  \A v : /\ DsIn(DsLiveFields, p, With(q, "tasks", v)) /\ DsIn(DsLiveFields, p, With(q, "top", v))
                  /\ DsIn(DsLiveFields, p, With(q, "sv", v)) /\ DsIn(DsLiveFields, p, With(q, "ups", v))
                  /\ DsIn(DsLiveFields, p, With(q, "store", v)) /\ DsIn(DsLiveFields, p, With(q, "ui", v))
                  /\ DsIn(DsLiveFields, p, With(q, "raced", v)) /\ DsIn(DsLiveFields, p, With(q, "still", v))
<1>1. /\ "tasks" \in DsLiveFields /\ "top" \in DsLiveFields /\ "sv" \in DsLiveFields /\ "ups" \in DsLiveFields
      /\ "store" \in DsLiveFields /\ "ui" \in DsLiveFields /\ "raced" \in DsLiveFields /\ "still" \in DsLiveFields
      /\ DsLiveFields \in SUBSET DsFields
  BY DEF DsLiveFields, DsFields
<1> QED
  BY <1>1, DsPut

LEMMA DsServerPut ==
    ASSUME NEW p, NEW q, DsIn(DsServerFields, p, q)
    PROVE  \A v : /\ DsIn(DsServerFields, p, With(q, "top", v)) /\ DsIn(DsServerFields, p, With(q, "sv", v))
                  /\ DsIn(DsServerFields, p, With(q, "ups", v)) /\ DsIn(DsServerFields, p, With(q, "store", v))
                  /\ DsIn(DsServerFields, p, With(q, "ui", v)) /\ DsIn(DsServerFields, p, With(q, "raced", v))
                  /\ DsIn(DsServerFields, p, With(q, "still", v))
<1>1. /\ "top" \in DsServerFields /\ "sv" \in DsServerFields /\ "ups" \in DsServerFields
      /\ "store" \in DsServerFields /\ "ui" \in DsServerFields /\ "raced" \in DsServerFields /\ "still" \in DsServerFields
      /\ DsServerFields \in SUBSET DsFields
  BY DEF DsServerFields, DsFields
<1> QED
  BY <1>1, DsPut

LEMMA DsGuildPut ==
    ASSUME NEW p, NEW q, DsIn(DsGuildFields, p, q)
    PROVE  \A v : DsIn(DsGuildFields, p, With(q, "tasks", v)) /\ DsIn(DsGuildFields, p, With(q, "g", v))
<1>1. /\ "tasks" \in DsGuildFields /\ "g" \in DsGuildFields
      /\ DsGuildFields \in SUBSET DsFields
  BY DEF DsGuildFields, DsFields
<1> QED
  BY <1>1, DsPut

LEMMA DsFilePut ==
    ASSUME NEW p, NEW q, DsIn(DsFileFields, p, q)
    PROVE  \A v : /\ DsIn(DsFileFields, p, With(q, "files", v)) /\ DsIn(DsFileFields, p, With(q, "path", v))
                  /\ DsIn(DsFileFields, p, With(q, "temps", v)) /\ DsIn(DsFileFields, p, With(q, "gone", v))
                  /\ DsIn(DsFileFields, p, With(q, "quit", v))
<1>1. /\ "files" \in DsFileFields /\ "path" \in DsFileFields /\ "temps" \in DsFileFields /\ "gone" \in DsFileFields
      /\ "quit" \in DsFileFields /\ DsFileFields \in SUBSET DsFields
  BY DEF DsFileFields, DsFields
<1> QED
  BY <1>1, DsPut

LEMMA DsServerFrame == ASSUME DsShape, DsServerStep PROVE DsIn(DsServerFields, ds, ds')
<1>1. DsIn(DsServerFields, ds, ds)
  BY WithinSame DEF DsIn, DsShape
<1>2. CASE D!ServerCreates
  <2>1. \E u, v, w : ds' = With(With(With(ds, "top", u), "sv", v), "ups", w)
    BY <1>2, Zenon DEF D!ServerCreates, D!Does, With
  <2> QED
    BY <1>1, <2>1, DsServerPut
<1>3. ASSUME NEW sv, NEW k, NEW id, NEW who, D!Server(sv, k, id, who) PROVE DsIn(DsServerFields, ds, ds')
  <2>1. \E v, w : ds' = With(With(ds, "sv", v), "ups", w)
    BY <1>3, Zenon DEF D!Server, D!Does, With
  <2> QED
    BY <1>1, <2>1, DsServerPut
<1>4. ASSUME NEW id, D!ServerReacts(id, "add") \/ D!ServerReacts(id, "remove") \/ D!ServerClears(id) \/ D!ServerDeletes(id)
      PROVE DsIn(DsServerFields, ds, ds')
  BY <1>3, <1>4, Zenon DEF D!ServerReacts, D!ServerClears, D!ServerDeletes
<1>5. CASE D!Handle
  <2>1. PICK up : up = Head(ds.ups)
    OBVIOUS
  <2>2. PICK p : p = [ds EXCEPT !.ups = Tail(@), !.still = @ /\ up.k \notin {"create", "delete"}]
    OBVIOUS
  <2>3. \E v : p = With(With(ds, "ups", Tail(ds.ups)), "still", v)
    BY <2>2, Zenon DEF With
  <2>4. DsIn(DsServerFields, ds, p)
    BY <1>1, <2>3, DsServerPut
  <2>5. \/ \E v, w : ds' = With(With(p, "store", v), "ui", w)
        \/ \E u, v, w : ds' = With(With(With(p, "store", v), "raced", w), "ui", u)
    <3>1. \A v, w : \E u : D!Reactions([p EXCEPT !.store = v, !.raced = w], up) = With(With(With(p, "store", v), "raced", w), "ui", u)
      BY Zenon DEF D!Reactions, With
    <3>2. ASSUME NEW v, NEW w, ds' = [p EXCEPT !.store = v, !.ui = w] PROVE ds' = With(With(p, "store", v), "ui", w)
      BY <3>2, Zenon DEF With
    <3>3. CASE up.k = "create"
      <4>1. ds' = [p EXCEPT !.store = D!MessageSet(@, [id |-> up.id, reacts |-> {}]), !.ui = D!Show(@, up.id, {})]
        BY <3>3, <1>5, <2>1, <2>2 DEF D!Handle, D!Goes
      <4>2. \E v, w : ds' = [p EXCEPT !.store = v, !.ui = w]
        BY <4>1, Zenon
      <4> QED
        BY <4>2, <3>2
    <3>4. CASE up.k = "delete"
      <4>1. ds' = [p EXCEPT !.store = IF D!Held(@, up.id) THEN D!RemoveAt(@, D!Place(@, up.id)) ELSE @, !.ui = D!Restrict(@, DOMAIN @ \ {up.id})]
        BY <3>4, <1>5, <2>1, <2>2 DEF D!Handle, D!Goes
      <4>2. \E v, w : ds' = [p EXCEPT !.store = v, !.ui = w]
        BY <4>1, Zenon
      <4> QED
        BY <4>2, <3>2
    <3>5. CASE up.k \notin {"create", "delete"}
      <4>1. ds' = D!Reactions([p EXCEPT !.store = D!Change(@, up),
                             !.raced = IF ~D!Held(ds.store, up.id) \/ D!InFlight(up.id) THEN @ \cup {up.id} ELSE @], up)
        BY <3>5, <1>5, <2>1, <2>2 DEF D!Handle, D!Goes
      <4>2. PICK v, w : ds' = D!Reactions([p EXCEPT !.store = v, !.raced = w], up)
        BY <4>1, Zenon
      <4>3. PICK u : D!Reactions([p EXCEPT !.store = v, !.raced = w], up) = With(With(With(p, "store", v), "raced", w), "ui", u)
        BY <3>1
      <4>4. ds' = With(With(With(p, "store", v), "raced", w), "ui", u)
        BY <4>2, <4>3
      <4> QED
        BY <4>4, Zenon
    <3> QED
      BY <3>3, <3>4, <3>5
  <2> QED
    BY <2>4, <2>5, DsServerPut
<1> QED
  BY <1>2, <1>4, <1>5 DEF DsServerStep

LEMMA DsPageFrame == ASSUME DsShape, DsPageStep PROVE DsIn(DsLiveFields, ds, ds')
<1>1. DsIn(DsLiveFields, ds, ds)
  BY WithinSame DEF DsIn, DsShape
<1>2. ASSUME NEW older, D!LoadHistory(older) PROVE DsIn(DsLiveFields, ds, ds')
  <2>1. \E v : ds' = With(ds, "tasks", v)
    BY <1>2, Zenon DEF D!LoadHistory, D!Does, With
  <2> QED
    BY <1>1, <2>1, DsLivePut
<1>3. ASSUME NEW id, D!React(id) PROVE DsIn(DsLiveFields, ds, ds')
  <2>1. \E v : ds' = With(ds, "tasks", v)
    BY <1>3, Zenon DEF D!React, D!Does, With
  <2> QED
    BY <1>1, <2>1, DsLivePut
<1>4. ASSUME NEW p, D!HistoryGoes(p) PROVE DsIn(DsLiveFields, ds, ds')
  <2>1. \/ \E v : ds' = With(ds, "tasks", v)
        \/ \E u, v, w : ds' = With(With(With(ds, "tasks", v), "still", u), "raced", w)
        \/ \E v, w : ds' = With(With(ds, "tasks", v), "store", w)
        \/ \E v, w : ds' = With(With(ds, "tasks", v), "ui", w)
    <3>1. ASSUME NEW v, D!Goes([ds EXCEPT !.tasks = v]) PROVE \E z : ds' = With(ds, "tasks", z)
      BY <3>1, Zenon DEF D!Goes, With
    <3>2. ASSUME NEW next, NEW u, NEW w, D!Goes([D!Step(p, next) EXCEPT !.still = u, !.raced = w])
          PROVE \E x, z, y : ds' = With(With(With(ds, "tasks", z), "still", x), "raced", y)
      BY <3>2, Zenon DEF D!Goes, D!Step, With
    <3>3. ASSUME NEW v, NEW w, D!Goes([ds EXCEPT !.tasks = v, !.ui = w]) PROVE \E z, y : ds' = With(With(ds, "tasks", z), "ui", y)
      BY <3>3, Zenon DEF D!Goes, With
    <3>4. ASSUME NEW next, NEW v, D!Goes([D!Step(p, next) EXCEPT !.store = v])
          PROVE \E z, y : ds' = With(With(ds, "tasks", z), "store", y)
      BY <3>4, Zenon DEF D!Goes, D!Step, With
    <3>5. \/ \E v : D!Goes([ds EXCEPT !.tasks = v])
          \/ \E next, u, w : D!Goes([D!Step(p, next) EXCEPT !.still = u, !.raced = w])
          \/ \E next, v : D!Goes([D!Step(p, next) EXCEPT !.store = v])
          \/ \E v, w : D!Goes([ds EXCEPT !.tasks = v, !.ui = w])
      BY <1>4, Zenon DEF D!HistoryGoes
    <3> QED
      BY <3>1, <3>2, <3>3, <3>4, <3>5, Zenon
  <2> QED
    BY <1>1, <2>1, DsLivePut
<1>5. ASSUME NEW p, D!ReactGoes(p) PROVE DsIn(DsLiveFields, ds, ds')
  <2>1. \/ \E v : ds' = With(ds, "tasks", v)
        \/ \E u, v, w : ds' = With(With(With(ds, "tasks", v), "sv", w), "ups", u)
    <3>1. ASSUME NEW v, D!Goes([ds EXCEPT !.tasks = v]) \/ D!Goes(D!Step(p, v)) PROVE \E z : ds' = With(ds, "tasks", z)
      BY <3>1, Zenon DEF D!Goes, D!Step, With
    <3>2. ASSUME NEW v, NEW w, NEW u, D!Goes([ds EXCEPT !.tasks = v, !.sv = w, !.ups = u])
          PROVE \E z, y, t : ds' = With(With(With(ds, "tasks", z), "sv", y), "ups", t)
      BY <3>2, Zenon DEF D!Goes, With
    <3>3. \/ \E v : D!Goes([ds EXCEPT !.tasks = v])
          \/ \E v : D!Goes(D!Step(p, v))
          \/ \E u, v, w : D!Goes([ds EXCEPT !.tasks = v, !.sv = w, !.ups = u])
      BY <1>5, Zenon DEF D!ReactGoes
    <3> QED
      BY <3>1, <3>2, <3>3, Zenon
  <2> QED
    BY <1>1, <2>1, DsLivePut
<1> QED
  BY <1>2, <1>3, <1>4, <1>5 DEF DsPageStep

LEMMA DsGuildFrame == ASSUME DsShape, DsGuildStep, \A p \in ds.tasks : p.k = "list" => p.ph \in {"guilds", "chans", "emojis", "cached", "post"}
                      PROVE DsIn(DsGuildFields, ds, ds')
<1>1. DsIn(DsGuildFields, ds, ds)
  BY WithinSame DEF DsIn, DsShape
<1>2. ASSUME NEW v, D!Guild(v) PROVE DsIn(DsGuildFields, ds, ds')
  <2>1. ds' = With(ds, "g", v)
    BY <1>2, Zenon DEF D!Guild, D!Does, With
  <2> QED
    BY <1>1, <2>1, DsGuildPut
<1>3. CASE D!LoadDialogs
  <2>1. \E v : ds' = With(ds, "tasks", v)
    BY <1>3, Zenon DEF D!LoadDialogs, D!Does, With
  <2> QED
    BY <1>1, <2>1, DsGuildPut
<1>4. ASSUME NEW p \in ds.tasks, D!DialogsGo(p) PROVE DsIn(DsGuildFields, ds, ds')
  <2>1. \/ \E v : ds' = With(ds, "tasks", v)
        \/ \E v, w : ds' = With(With(ds, "tasks", v), "g", w)
    <3>1. \E v : ds' = [ds EXCEPT !.tasks = v] \/ (\E w : ds' = [ds EXCEPT !.tasks = v, !.g.missed = w])
                 \/ (\E w : ds' = [ds EXCEPT !.tasks = v, !.g.cache = w]) \/ (\E w : ds' = [ds EXCEPT !.tasks = v, !.g.ui = w])
      <4>1. p.ph \in {"guilds", "chans", "emojis", "cached", "post"}
        BY <1>4 DEF D!DialogsGo
      <4>2. CASE p.ph = "guilds"
        <5>1. D!Goes([ds EXCEPT !.tasks = {}]) \/ D!Goes([ds EXCEPT !.tasks = {[p EXCEPT !.ph = "chans", !.guild = ds.g.line]},
                                              !.g.missed = @ \/ (~ds.g.line /\ ~ds.g.incomplete)])
          BY <1>4, <4>2 DEF D!DialogsGo
        <5> QED
          BY <5>1, Zenon DEF D!Goes
      <4>3. CASE p.ph = "chans"
        <5>1. \E ok \in BOOLEAN : D!Goes(D!Listed(p, "emojis", ok /\ ds.g.chans))
          BY <1>4, <4>3 DEF D!DialogsGo
        <5> QED
          BY <5>1, Zenon DEF D!Goes, D!Listed
      <4>4. CASE p.ph = "emojis"
        <5>1. D!Goes([ds EXCEPT !.tasks = {[p EXCEPT !.ph = "cached", !.emo = IF p.guild /\ ds.g.cache = None THEN ds.g.emo ELSE None]}])
          BY <1>4, <4>4 DEF D!DialogsGo
        <5> QED
          BY <5>1, Zenon DEF D!Goes
      <4>5. CASE p.ph = "cached"
        <5>1. D!Goes([ds EXCEPT !.tasks = {[p EXCEPT !.ph = "post"]}, !.g.cache = IF p.emo = None THEN @ ELSE p.emo])
          BY <1>4, <4>5 DEF D!DialogsGo
        <5> QED
          BY <5>1, Zenon DEF D!Goes
      <4>6. CASE p.ph = "post"
        <5>1. \E listed : D!Goes([ds EXCEPT !.tasks = {}, !.g.ui = IF p.complete /\ ~D!ReadyIncomplete(ds.g) THEN listed ELSE @ \cup listed])
          BY <1>4, <4>6 DEF D!DialogsGo
        <5> QED
          BY <5>1, Zenon DEF D!Goes
      <4> QED
        BY <4>1, <4>2, <4>3, <4>4, <4>5, <4>6
    <3> QED
      BY <3>1, Zenon DEF With
  <2> QED
    BY <1>1, <2>1, DsGuildPut
<1> QED
  BY <1>2, <1>3, <1>4, Zenon DEF DsGuildStep, D!Outage, D!Back, D!GuildGone, D!EmojisChange, D!ChatFor, D!DeleteChat

LEMMA DsFileFrame == ASSUME DsShape, DsFileStep PROVE DsIn(DsFileFields, ds, ds')
<1>1. DsIn(DsFileFields, ds, ds)
  BY WithinSame DEF DsIn, DsShape
<1>2. CASE D!Download \/ \E work \in BOOLEAN : D!Upload(work)
  <2>1. \E v : ds' = With(ds, "files", v)
    BY <1>2, Zenon DEF D!Download, D!Upload, D!Does, With
  <2> QED
    BY <1>1, <2>1, DsFilePut
<1>3. CASE D!Quit
  <2>1. \E v : ds' = With(ds, "quit", v)
    BY <1>3, Zenon DEF D!Quit, D!Does, With
  <2> QED
    BY <1>1, <2>1, DsFilePut
<1>4. ASSUME NEW x, D!Stalls(x) \/ D!Slot(x) PROVE DsIn(DsFileFields, ds, ds')
  <2>1. \E v : ds' = With(ds, "files", v)
    BY <1>4, Zenon DEF D!Stalls, D!Slot, D!Over, D!Set, D!Does, D!Goes, With
  <2> QED
    BY <1>1, <2>1, DsFilePut
<1>5. ASSUME NEW x, D!DownloadGoes(x) PROVE DsIn(DsFileFields, ds, ds')
  <2>1. \/ \E v : ds' = With(ds, "files", v)
        \/ \E v, w : ds' = With(With(ds, "files", v), "temps", w)
        \/ \E u, v, w : ds' = With(With(With(ds, "files", v), "temps", w), "path", u)
    <3>1. ASSUME NEW v, NEW w, NEW u, D!Goes([D!Over(x, v) EXCEPT !.temps = w, !.path = u])
          PROVE \E z, y, t : ds' = With(With(With(ds, "files", z), "temps", y), "path", t)
      BY <3>1, Zenon DEF D!Over, D!Set, D!Goes, With
    <3>2. ASSUME NEW v, NEW w, D!Goes([D!Set(x, v) EXCEPT !.temps = w]) PROVE \E z, y : ds' = With(With(ds, "files", z), "temps", y)
      BY <3>2, Zenon DEF D!Set, D!Goes, With
    <3>3. ASSUME NEW v, D!Goes(D!Over(x, v)) PROVE \E z : ds' = With(ds, "files", z)
      BY <3>3, Zenon DEF D!Over, D!Set, D!Goes, With
    <3>4. \/ \E v : D!Goes(D!Over(x, v))
          \/ \E v, w : D!Goes([D!Set(x, v) EXCEPT !.temps = w])
          \/ \E u, v, w : D!Goes([D!Over(x, v) EXCEPT !.temps = w, !.path = u])
      BY <1>5, Zenon DEF D!DownloadGoes, D!Fetch
    <3> QED
      BY <3>1, <3>2, <3>3, <3>4, Zenon
  <2> QED
    BY <1>1, <2>1, DsFilePut
<1>6. ASSUME NEW x, D!UploadGoes(x) PROVE DsIn(DsFileFields, ds, ds')
  <2>1. \E v, w : ds' = With(With(ds, "files", v), "gone", w)
    BY <1>6, Zenon DEF D!UploadGoes, D!Over, D!Set, D!Goes, With
  <2> QED
    BY <1>1, <2>1, DsFilePut
<1> QED
  BY <1>2, <1>3, <1>4, <1>5, <1>6 DEF DsFileStep, D!Transfers
(* The transfers of Discord.                                               *)
DsXfer == {"id", "kind", "work", "ph", "body", "got"}
DsFilesInv == (\A x \in ds.files : IsRec(DsXfer, x) /\ (x.got = "temp" => x.kind = "down"))
              /\ FilesInv(ds.files, ds.path, ds.temps, ds.gone, dsOps)

LEMMA DsPut3 == ASSUME NEW p, IsRec(DsFields, p), NEW u, NEW v, NEW w
                PROVE  LET q == With3(p, "files", u, "temps", v, "path", w)
                       IN  IsRec(DsFields, q) /\ q["files"] = u /\ q["temps"] = v /\ q["path"] = w /\ Only({"files", "temps", "path"}, p, q)
<1>1. /\ "temps" \in DsFields /\ "path" \in DsFields /\ "files" \in DsFields
      /\ "files" # "temps" /\ "files" # "path" /\ "temps" # "path"
  BY DEF DsFields
<1> QED
  BY <1>1, Put3

LEMMA DsPut2 == ASSUME NEW p, IsRec(DsFields, p), NEW u, NEW v
                PROVE  LET q == With2(p, "files", u, "gone", v)
                       IN  IsRec(DsFields, q) /\ q["files"] = u /\ q["gone"] = v /\ Only({"files", "gone"}, p, q)
<1>1. "gone" \in DsFields /\ "files" \in DsFields /\ "files" # "gone"
  BY DEF DsFields
<1> QED
  BY <1>1, Put2

LEMMA DsPut2Temps == ASSUME NEW p, IsRec(DsFields, p), NEW u, NEW v
                     PROVE  LET q == With2(p, "files", u, "temps", v)
                            IN  IsRec(DsFields, q) /\ q["files"] = u /\ q["temps"] = v /\ Only({"files", "temps"}, p, q)
<1>1. "temps" \in DsFields /\ "files" \in DsFields /\ "files" # "temps"
  BY DEF DsFields
<1> QED
  BY <1>1, Put2

LEMMA DsPutFiles == ASSUME DsShape
    PROVE  /\ \A v : LET q == With(ds, "files", v)
                     IN  IsRec(DsFields, q) /\ q["files"] = v /\ q["path"] = ds.path /\ q["temps"] = ds.temps /\ q["gone"] = ds.gone
           /\ \A v, w : LET q == With2(ds, "files", v, "temps", w)
                        IN  IsRec(DsFields, q) /\ q["files"] = v /\ q["temps"] = w /\ q["path"] = ds.path /\ q["gone"] = ds.gone
           /\ \A u, v, w : LET q == With3(ds, "files", u, "temps", v, "path", w)
                           IN  IsRec(DsFields, q) /\ q["files"] = u /\ q["temps"] = v /\ q["path"] = w /\ q["gone"] = ds.gone
           /\ \A v, w : LET q == With2(ds, "files", v, "gone", w)
                        IN  IsRec(DsFields, q) /\ q["files"] = v /\ q["gone"] = w /\ q["path"] = ds.path /\ q["temps"] = ds.temps
           /\ \A v : LET q == With(ds, "quit", v)
                     IN  IsRec(DsFields, q) /\ q["files"] = ds.files /\ q["path"] = ds.path /\ q["temps"] = ds.temps /\ q["gone"] = ds.gone
<1>1. /\ "files" \in DsFields /\ "path" \in DsFields /\ "temps" \in DsFields /\ "gone" \in DsFields /\ "quit" \in DsFields
  BY DEF DsFields
<1>2. DOMAIN ds = DsFields
  BY RecDomain DEF DsShape
<1>3. \A v : LET q == With(ds, "files", v)
             IN  IsRec(DsFields, q) /\ q["files"] = v /\ Only({"files"}, ds, q)
  BY <1>1, Put DEF DsShape
<1>4. \A v, w : LET q == With2(ds, "files", v, "temps", w)
                IN  IsRec(DsFields, q) /\ q["files"] = v /\ q["temps"] = w /\ Only({"files", "temps"}, ds, q)
  BY DsPut2Temps DEF DsShape
<1>5. \A u, v, w : LET q == With3(ds, "files", u, "temps", v, "path", w)
                   IN  IsRec(DsFields, q) /\ q["files"] = u /\ q["temps"] = v /\ q["path"] = w /\ Only({"files", "temps", "path"}, ds, q)
  BY DsPut3 DEF DsShape
<1>6. \A v, w : LET q == With2(ds, "files", v, "gone", w)
                IN  IsRec(DsFields, q) /\ q["files"] = v /\ q["gone"] = w /\ Only({"files", "gone"}, ds, q)
  BY DsPut2 DEF DsShape
<1>7. \A v : LET q == With(ds, "quit", v)
             IN  IsRec(DsFields, q) /\ Only({"quit"}, ds, q)
  BY <1>1, Put DEF DsShape
<1>8. \A G, q : Only(G, ds, q) => /\ "files" \in G \/ q["files"] = ds.files
                                  /\ "path" \in G \/ q["path"] = ds.path
                                  /\ "temps" \in G \/ q["temps"] = ds.temps
                                  /\ "gone" \in G \/ q["gone"] = ds.gone
  BY <1>1, <1>2 DEF Only
<1>9. /\ "path" \notin {"files"} /\ "temps" \notin {"files"} /\ "gone" \notin {"files"}
      /\ "path" \notin {"files", "temps"} /\ "gone" \notin {"files", "temps"}
      /\ "gone" \notin {"files", "temps", "path"}
      /\ "path" \notin {"files", "gone"} /\ "temps" \notin {"files", "gone"}
      /\ "files" \notin {"quit"} /\ "path" \notin {"quit"} /\ "temps" \notin {"quit"} /\ "gone" \notin {"quit"}
  OBVIOUS
<1> QED
  BY <1>3, <1>4, <1>5, <1>6, <1>7, <1>8, <1>9

LEMMA DsXferPut == ASSUME NEW x, IsRec(DsXfer, x), NEW ph, NEW end
                   PROVE  LET y == With2(x, "ph", ph, "got", end)
                          IN  IsRec(DsXfer, y) /\ y.ph = ph /\ y.got = end /\ y.id = x.id /\ y.kind = x.kind /\ y.work = x.work
<1>2. LET y == With2(x, "ph", ph, "got", end)
      IN  IsRec(DsXfer, y) /\ y["ph"] = ph /\ y["got"] = end /\ Only({"ph", "got"}, x, y)
  <2>1. "ph" \in DsXfer /\ "got" \in DsXfer /\ "ph" # "got"
    BY DEF DsXfer
  <2> QED
    BY <2>1, Put2
<1> QED
  BY <1>2, RecDomain DEF Only, DsXfer

LEMMA DsXferPut1 == ASSUME NEW x, IsRec(DsXfer, x), NEW f \in {"ph", "body", "got"}, NEW v
                    PROVE  LET y == With(x, f, v)
                           IN  IsRec(DsXfer, y) /\ y[f] = v /\ y.id = x.id /\ y.kind = x.kind /\ y.work = x.work
                               /\ (f # "ph" => y.ph = x.ph) /\ (f # "got" => y.got = x.got)
<1>1. LET y == With(x, f, v)
      IN  IsRec(DsXfer, y) /\ y[f] = v /\ Only({f}, x, y)
  <2>1. f \in DsXfer
    BY DEF DsXfer
  <2> QED
    BY <2>1, Put
<1> QED
  BY <1>1, RecDomain DEF Only, DsXfer

\* A transfer goes from one phase to another.
LEMMA DsXferGoes ==
    ASSUME DsFilesInv, NEW x \in ds.files, NEW y, ds'.files = (ds.files \ {x}) \cup {y}, IsRec(DsXfer, y), y.got = "temp" => y.kind = "down",
           Moved(x, y), ds'.path \in {"none", "whole"}, TempsMoved(x, y, ds.temps, ds'.temps), GoneMoved(y, ds.gone, ds'.gone),
           Later(dsOps, dsOps')
    PROVE  DsFilesInv'
<1>1. PICK path2 \in {"none", "whole"} : path2 = ds'.path
  OBVIOUS
<1>2. PICK temps2, gone2, n2 : temps2 = ds'.temps /\ gone2 = ds'.gone /\ n2 = dsOps'
  OBVIOUS
<1>3. FilesInv(ds.files, ds.path, ds.temps, ds.gone, dsOps)
  BY DEF DsFilesInv
<1>4. TempsMoved(x, y, ds.temps, temps2) /\ GoneMoved(y, ds.gone, gone2) /\ Later(dsOps, n2)
  BY <1>2
<1>5. FilesInv((ds.files \ {x}) \cup {y}, path2, temps2, gone2, n2)
  BY <1>3, <1>4, FilesReplace
<1>6. \A z \in ds'.files : IsRec(DsXfer, z) /\ (z.got = "temp" => z.kind = "down")
  BY DEF DsFilesInv
<1> QED
  BY <1>1, <1>2, <1>5, <1>6 DEF DsFilesInv

LEMMA DsFileKept == ASSUME DsShape, DsFilesInv, DsFileStep, None \notin {"temp", "part", "whole"} PROVE DsFilesInv'
<1>2. ds.path \in {"none", "whole"} /\ ds.temps \in Int /\ dsOps \in Int
  BY DEF DsFilesInv, FilesInv
<1>3. ASSUME NEW kind, NEW work, D!Does([ds EXCEPT !.files = @ \cup {D!Xfer(kind, work)}]) PROVE DsFilesInv'
  <2>1. PICK x : x = D!Xfer(kind, work)
    OBVIOUS
  <2>2. x.id = dsOps /\ x.got = None /\ IsRec(DsXfer, x)
    BY <2>1 DEF D!Xfer, IsRec, DsXfer
  <2>3. ds' = With(ds, "files", ds.files \cup {x}) /\ dsOps' = dsOps + 1
    BY <1>3, <2>1 DEF D!Does, With
  <2>4. ds'.files = ds.files \cup {x} /\ ds'.path = ds.path /\ ds'.temps = ds.temps /\ ds'.gone = ds.gone
    BY <2>3, DsPutFiles
  <2>5. FilesInv(ds.files \cup {x}, ds.path, ds.temps, ds.gone, dsOps + 1)
    BY <2>2, FilesAdd DEF DsFilesInv
  <2> QED
    BY <2>2, <2>3, <2>4, <2>5 DEF DsFilesInv
<1>4. CASE D!Download \/ \E work \in BOOLEAN : D!Upload(work)
  BY <1>3, <1>4 DEF D!Download, D!Upload
<1>5. CASE D!Quit
  <2>1. ds' = With(ds, "quit", TRUE) /\ dsOps' = dsOps + 1
    BY <1>5 DEF D!Quit, D!Does, With
  <2>2. ds'.files = ds.files /\ ds'.path = ds.path /\ ds'.temps = ds.temps /\ ds'.gone = ds.gone
    BY <2>1, DsPutFiles
  <2>3. FilesInv(ds.files, ds.path, ds.temps, ds.gone, dsOps + 1)
    <3>1. dsOps + 1 \in Int /\ dsOps + 1 >= dsOps
      BY <1>2
    <3> QED
      BY <3>1, FilesLater DEF DsFilesInv
  <2> QED
    BY <2>1, <2>2, <2>3 DEF DsFilesInv
<1>6. ASSUME NEW x \in ds.files, NEW y, x.ph # "done", dsOps' = dsOps \/ dsOps' = dsOps + 1, IsRec(DsXfer, y),
             y.id = x.id, y.work = x.work, y.kind = x.kind, y.got = x.got \/ (x.got # "temp" /\ y.got \in {None, "whole", "error"}),
             x.got = "temp" => y.ph = "run",
             ds' = With(ds, "files", (ds.files \ {x}) \cup {y})
      PROVE  DsFilesInv'
  <2>1. ds'.files = (ds.files \ {x}) \cup {y} /\ ds'.path = ds.path /\ ds'.temps = ds.temps /\ ds'.gone = ds.gone
    BY <1>6, DsPutFiles
  <2>2. TempsMoved(x, y, ds.temps, ds'.temps)
    <3>1. y.got = "temp" <=> x.got = "temp"
      BY <1>6
    <3> QED
      BY <2>1, <3>1, <1>2 DEF TempsMoved
  <2>3. Moved(x, y) /\ GoneMoved(y, ds.gone, ds'.gone) /\ (y.got = "temp" => y.kind = "down")
    BY <1>6, <2>1 DEF Moved, GoneMoved, DsFilesInv, FilesInv
  <2>4. Later(dsOps, dsOps')
    BY <1>6, <1>2 DEF Later
  <2> QED
    BY <1>6, <2>1, <2>2, <2>3, <2>4, <1>2, DsXferGoes
<1>7. ASSUME NEW x \in ds.files, x.ph # "done", x.got # "temp", dsOps' = dsOps, NEW end \in {None, "whole", "error"},
             ds' = D!Over(x, end)
      PROVE  DsFilesInv'
  <2>1. PICK y : y = With2(x, "ph", "done", "got", end)
    OBVIOUS
  <2>2. IsRec(DsXfer, y) /\ y.ph = "done" /\ y.got = end /\ y.id = x.id /\ y.kind = x.kind /\ y.work = x.work
    BY <2>1, DsXferPut DEF DsFilesInv
  <2>3. ds' = With(ds, "files", (ds.files \ {x}) \cup {y})
    BY <1>7, <2>1 DEF D!Over, D!Set, With2, With
  <2> QED
    BY <1>7, <2>2, <2>3, <1>6
<1>8. ASSUME NEW x \in ds.files, D!Stalls(x) PROVE DsFilesInv'
  <2>1. PICK y : y = With(x, "body", "stalled")
    OBVIOUS
  <2>2. IsRec(DsXfer, y) /\ y.id = x.id /\ y.kind = x.kind /\ y.work = x.work /\ y.ph = x.ph /\ y.got = x.got
    <3>1. "body" \in {"ph", "body", "got"} /\ "body" # "ph" /\ "body" # "got" /\ IsRec(DsXfer, x)
      BY DEF DsFilesInv
    <3> QED
      BY <2>1, <3>1, DsXferPut1
  <2>3. ds' = With(ds, "files", (ds.files \ {x}) \cup {y}) /\ dsOps' = dsOps + 1 /\ x.ph = "run"
    BY <1>8, <2>1 DEF D!Stalls, D!Does, D!Set, With
  <2> QED
    BY <2>2, <2>3, <1>6
<1>9. ASSUME NEW x \in ds.files, D!Slot(x) PROVE DsFilesInv'
  <2>1. x.ph = "wait" /\ x.ph # "done" /\ x.got # "temp" /\ dsOps' = dsOps
    BY <1>9 DEF D!Slot, D!Goes, DsFilesInv, FilesInv
  <2>2. CASE ds' = D!Set(x, [x EXCEPT !.ph = "run"])
    <3>1. PICK y : y = With(x, "ph", "run")
      OBVIOUS
    <3>2. IsRec(DsXfer, y) /\ y.id = x.id /\ y.kind = x.kind /\ y.work = x.work /\ y.got = x.got
      <4>1. "ph" \in {"ph", "body", "got"} /\ "ph" # "got" /\ IsRec(DsXfer, x)
        BY DEF DsFilesInv
      <4> QED
        BY <3>1, <4>1, DsXferPut1
    <3>3. ds' = With(ds, "files", (ds.files \ {x}) \cup {y})
      BY <2>2, <3>1 DEF D!Set, With
    <3> QED
      BY <2>1, <3>2, <3>3, <1>6
  <2>3. CASE \E end \in {None, "error"} : ds' = D!Over(x, end)
    BY <2>1, <2>3, <1>7
  <2> QED
    BY <1>9, <2>2, <2>3 DEF D!Slot, D!Goes
<1>10. ASSUME NEW x \in ds.files, x.ph = "run", x.kind = "down", D!DownloadGoes(x) PROVE DsFilesInv'
  <2>1. dsOps' = dsOps /\ x.ph # "done" /\ Later(dsOps, dsOps')
    <3>1. dsOps' = dsOps
      BY <1>10, Zenon DEF D!DownloadGoes, D!Fetch, D!Goes
    <3> QED
      BY <1>10, <1>2, <3>1 DEF Later
  <2>2. CASE x.got = None /\ \E end \in {None, "whole", "error"} : ds' = D!Over(x, end)
    BY <2>1, <2>2, <1>7
  <2>3. ASSUME x.got = None, NEW n, n = ds.temps + 1, ds' = [D!Set(x, [x EXCEPT !.got = "temp"]) EXCEPT !.temps = n] PROVE DsFilesInv'
    <3>1. PICK y : y = With(x, "got", "temp")
      OBVIOUS
    <3>2. IsRec(DsXfer, y) /\ y.id = x.id /\ y.kind = x.kind /\ y.work = x.work /\ y.got = "temp" /\ y.ph = x.ph
      <4>1. "got" \in {"ph", "body", "got"} /\ "got" # "ph" /\ IsRec(DsXfer, x)
        BY DEF DsFilesInv
      <4>2. y["got"] = "temp" /\ IsRec(DsXfer, y) /\ y.id = x.id /\ y.kind = x.kind /\ y.work = x.work /\ y.ph = x.ph
        BY <3>1, <4>1, DsXferPut1
      <4> QED
        BY <4>2
    <3>3. ds' = With2(ds, "files", (ds.files \ {x}) \cup {y}, "temps", n)
      BY <2>3, <3>1 DEF D!Set, With2, With
    <3>4. ds'.files = (ds.files \ {x}) \cup {y} /\ ds'.path = ds.path /\ ds'.temps = n /\ ds'.gone = ds.gone
      BY <3>3, DsPutFiles
    <3>5. TempsMoved(x, y, ds.temps, ds'.temps)
      BY <2>3, <3>2, <3>4, <1>2 DEF TempsMoved
    <3>6. Moved(x, y) /\ GoneMoved(y, ds.gone, ds'.gone) /\ (y.got = "temp" => y.kind = "down")
      BY <1>10, <3>2, <3>4 DEF Moved, GoneMoved
    <3> QED
      BY <2>1, <3>2, <3>4, <3>5, <3>6, <1>2, DsXferGoes
  <2>4. ASSUME x.got = "temp", NEW ok \in BOOLEAN, NEW n, n = ds.temps - 1, NEW end \in {"whole", "error"}, NEW path \in {"none", "whole"},
               ds' = [D!Over(x, end) EXCEPT !.temps = n, !.path = path]
        PROVE  DsFilesInv'
    <3>1. PICK y : y = With2(x, "ph", "done", "got", end)
      OBVIOUS
    <3>2. IsRec(DsXfer, y) /\ y.ph = "done" /\ y.got = end /\ y.id = x.id /\ y.kind = x.kind /\ y.work = x.work
      BY <3>1, DsXferPut DEF DsFilesInv
    <3>3. ds' = With3(ds, "files", (ds.files \ {x}) \cup {y}, "temps", n, "path", path)
      BY <2>4, <3>1 DEF D!Over, D!Set, With3, With2, With
    <3>4. ds'.files = (ds.files \ {x}) \cup {y} /\ ds'.path = path /\ ds'.temps = n /\ ds'.gone = ds.gone
      BY <3>3, DsPutFiles
    <3>5. TempsMoved(x, y, ds.temps, ds'.temps)
      <4>1. y.got # "temp"
        BY <3>2, <2>4
      <4> QED
        BY <4>1, <2>4, <3>4, <1>2 DEF TempsMoved
    <3>6. Moved(x, y) /\ GoneMoved(y, ds.gone, ds'.gone) /\ (y.got = "temp" => y.kind = "down")
      BY <1>10, <3>2, <3>4, <2>4 DEF Moved, GoneMoved
    <3> QED
      BY <2>1, <2>4, <3>2, <3>4, <3>5, <3>6, <1>2, DsXferGoes
  <2>5. CASE D!Fetch(x)
    <3>1. PICK ok \in BOOLEAN : x.got = "temp" /\ ds' = [D!Over(x, IF ok THEN "whole" ELSE "error") EXCEPT !.temps = @ - 1, !.path = IF ok THEN "whole" ELSE @]
      BY <2>5 DEF D!Fetch, D!Goes
    <3>2. PICK end \in {"whole", "error"} : end = IF ok THEN "whole" ELSE "error"
      OBVIOUS
    <3>3. D!Over(x, end)["temps"] = ds.temps /\ D!Over(x, end)["path"] = ds.path
      <4>1. \E v : D!Over(x, end) = With(ds, "files", v)
        BY Zenon DEF D!Over, D!Set, With
      <4> QED
        BY <4>1, DsPutFiles
    <3>4. PICK n : n = ds.temps - 1
      OBVIOUS
    <3>5. PICK path \in {"none", "whole"} : path = IF ok THEN "whole" ELSE ds.path
      BY <1>2
    <3>6. ds' = [D!Over(x, end) EXCEPT !.temps = n, !.path = path]
      <4>1. PICK z : z = D!Over(x, end)
        OBVIOUS
      <4>2. z.temps = ds.temps /\ z.path = ds.path
        BY <4>1, <3>3
      <4>3. ds' = [z EXCEPT !.temps = z.temps - 1, !.path = IF ok THEN "whole" ELSE z.path]
        BY <3>1, <3>2, <4>1
      <4> QED
        BY <4>1, <4>2, <4>3, <3>4, <3>5
    <3> QED
      BY <3>1, <3>4, <3>6, <2>4
  <2>6. \/ x.got = None /\ ds.path # "none" /\ ds' = D!Over(x, ds.path)
        \/ x.got = None /\ ds' = D!Over(x, "error")
        \/ x.got = None /\ ds' = [D!Set(x, [x EXCEPT !.got = "temp"]) EXCEPT !.temps = ds.temps + 1]
        \/ D!Fetch(x)
    <3>1. D!Set(x, [x EXCEPT !.got = "temp"])["temps"] = ds.temps
      <4>1. \E v : D!Set(x, [x EXCEPT !.got = "temp"]) = With(ds, "files", v)
        BY Zenon DEF D!Set, With
      <4> QED
        BY <4>1, DsPutFiles
    <3>2. PICK z : z = D!Set(x, [x EXCEPT !.got = "temp"])
      OBVIOUS
    <3>3. z.temps = ds.temps
      BY <3>1, <3>2
    <3>4. \/ x.got = None /\ ds.path # "none" /\ ds' = D!Over(x, ds.path)
          \/ x.got = None /\ ds' = D!Over(x, "error")
          \/ x.got = None /\ ds' = [z EXCEPT !.temps = z.temps + 1]
          \/ D!Fetch(x)
      BY <1>10, <3>2 DEF D!DownloadGoes, D!Goes
    <3> QED
      BY <3>2, <3>3, <3>4
  <2> QED
    BY <2>2, <2>3, <2>5, <2>6, <1>2
<1>11. ASSUME NEW x \in ds.files, x.ph = "run", x.got # "temp", D!UploadGoes(x) PROVE DsFilesInv'
  <2>1. PICK ok \in BOOLEAN : /\ dsOps' = dsOps
                              /\ ds' = [D!Over(x, IF ok THEN "sent" ELSE "error") EXCEPT !.gone = IF ok /\ x.work THEN @ \cup {x.id} ELSE @]
    BY <1>11 DEF D!UploadGoes, D!Goes
  <2>2. PICK gone : /\ gone = ds.gone \/ (gone = ds.gone \cup {x.id} /\ x.work /\ ok)
                    /\ gone = IF ok /\ x.work THEN ds.gone \cup {x.id} ELSE ds.gone
    OBVIOUS
  <2>3. PICK end : end \in {"sent", "error"} /\ end # "temp" /\ (ok => end = "sent") /\ end = IF ok THEN "sent" ELSE "error"
    OBVIOUS
  <2>4. PICK y : y = With2(x, "ph", "done", "got", end)
    OBVIOUS
  <2>5. IsRec(DsXfer, y) /\ y.ph = "done" /\ y.got = end /\ y.id = x.id /\ y.kind = x.kind /\ y.work = x.work
    BY <2>4, DsXferPut DEF DsFilesInv
  <2>6. ds' = With2(ds, "files", (ds.files \ {x}) \cup {y}, "gone", gone)
    <3>1. PICK z : z = D!Over(x, end)
      OBVIOUS
    <3>2. z = With(ds, "files", (ds.files \ {x}) \cup {y})
      BY <3>1, <2>4 DEF D!Over, D!Set, With2, With
    <3>3. z["gone"] = ds.gone
      BY <3>2, DsPutFiles
    <3>4. ds' = [z EXCEPT !.gone = IF ok /\ x.work THEN z.gone \cup {x.id} ELSE z.gone]
      BY <2>1, <2>3, <3>1
    <3>5. ds' = With(z, "gone", gone)
      BY <3>3, <3>4, <2>2 DEF With
    <3> QED
      BY <3>2, <3>5 DEF With2
  <2>7. ds'.files = (ds.files \ {x}) \cup {y} /\ ds'.path = ds.path /\ ds'.temps = ds.temps /\ ds'.gone = gone
    BY <2>6, DsPutFiles
  <2>8. x.got # "temp" /\ y.got # "temp" /\ x.ph # "done"
    BY <1>11, <2>3, <2>5 DEF DsFilesInv
  <2>9. TempsMoved(x, y, ds.temps, ds'.temps)
    BY <2>7, <2>8, <1>2 DEF TempsMoved
  <2>10. Moved(x, y) /\ GoneMoved(y, ds.gone, ds'.gone) /\ Later(dsOps, dsOps')
    BY <2>1, <2>2, <2>3, <2>5, <2>7, <2>8, <1>2 DEF Moved, GoneMoved, Later
  <2> QED
    BY <2>5, <2>7, <2>8, <2>9, <2>10, <1>2, DsXferGoes
<1>12. ASSUME NEW x \in ds.files, x.ph = "run", IF x.kind = "down" THEN D!DownloadGoes(x) ELSE D!UploadGoes(x) PROVE DsFilesInv'
  <2>1. x.kind # "down" => x.got # "temp"
    BY DEF DsFilesInv
  <2> QED
    BY <1>10, <1>11, <1>12, <2>1
<1> QED
  BY <1>4, <1>5, <1>8, <1>9, <1>12 DEF DsFileStep, D!Transfers
(* The login of Discord.                                                   *)
DsLg == {"at", "why", "file", "own", "overlay", "prompt", "entered", "revoked"}
LgRight(l) ==
    /\ l.at # "qr" => l.overlay = FALSE /\ l.prompt = FALSE
    /\ l.why = "revoked" /\ ~l.own => l.file = None
    /\ l.own => l.file # None
DsLoginInv == IsRec(DsLg, ds.lg) /\ LgRight(ds.lg)

LEMMA LgPut == ASSUME NEW l, IsRec(DsLg, l), NEW f \in DsLg, NEW v
               PROVE  LET q == With(l, f, v)
                      IN  IsRec(DsLg, q) /\ q[f] = v /\ \A g \in DsLg \ {f} : q[g] = l[g]
<1>1. LET q == With(l, f, v)
      IN  IsRec(DsLg, q) /\ q[f] = v /\ Only({f}, l, q)
  BY Put
<1> QED
  BY <1>1, RecDomain DEF Only

LEMMA LgPut4 == ASSUME NEW l, IsRec(DsLg, l), NEW u, NEW v, NEW w, NEW x
                PROVE  LET z == With4(l, "at", u, "why", v, "overlay", w, "prompt", x)
                       IN  /\ IsRec(DsLg, z) /\ z["at"] = u /\ z["why"] = v /\ z["overlay"] = w /\ z["prompt"] = x
                           /\ Only({"at", "why", "overlay", "prompt"}, l, z)
<1>1. PICK r : r = With2(l, "at", u, "why", v)
  OBVIOUS
<1>2. IsRec(DsLg, r) /\ r["at"] = u /\ r["why"] = v /\ Only({"at", "why"}, l, r)
  <2>1. "at" \in DsLg /\ "why" \in DsLg /\ "at" # "why"
    BY DEF DsLg
  <2> QED
    BY <1>1, <2>1, Put2
<1>3. PICK z : z = With2(r, "overlay", w, "prompt", x)
  OBVIOUS
<1>4. IsRec(DsLg, z) /\ z["overlay"] = w /\ z["prompt"] = x /\ Only({"overlay", "prompt"}, r, z)
  <2>1. "overlay" \in DsLg /\ "prompt" \in DsLg /\ "overlay" # "prompt"
    BY DEF DsLg
  <2> QED
    BY <1>2, <1>3, <2>1, Put2
<1>5. z["at"] = u /\ z["why"] = v /\ Only({"at", "why", "overlay", "prompt"}, l, z)
  BY <1>2, <1>4, RecDomain DEF Only, DsLg
<1>6. With4(l, "at", u, "why", v, "overlay", w, "prompt", x) = z
  BY <1>1, <1>3 DEF With4, With3, With2
<1> QED
  BY <1>4, <1>5, <1>6

LEMMA LgEnds == ASSUME NEW l, IsRec(DsLg, l), NEW why
                PROVE  LET q == D!Ends(l, why)
                       IN  /\ IsRec(DsLg, q) /\ q.at = "ended" /\ q.why = why /\ q.overlay = FALSE /\ q.prompt = FALSE
                           /\ q.file = l.file /\ q.own = l.own
<1>1. PICK no : no = FALSE
  OBVIOUS
<1>2. PICK q : q = D!Ends(l, why)
  OBVIOUS
<1>3. q = With4(l, "at", "ended", "why", why, "overlay", no, "prompt", no)
  BY <1>1, <1>2 DEF D!Ends, With4, With3, With2, With
<1>5. /\ IsRec(DsLg, q) /\ q.at = "ended" /\ q.why = why /\ q.overlay = FALSE /\ q.prompt = FALSE
      /\ Only({"at", "why", "overlay", "prompt"}, l, q)
  BY <1>1, <1>3, LgPut4
<1>6. q.file = l.file /\ q.own = l.own
  BY <1>5, RecDomain DEF Only, DsLg
<1> QED
  BY <1>2, <1>5, <1>6

\* A token taken back is forgotten, the one of a command never.
LEMMA LgForget == ASSUME NEW l, IsRec(DsLg, l), l.own => l.file # None
                  PROVE  LET q == D!ForgetRevoked(l)
                         IN  /\ IsRec(DsLg, q) /\ q.own = l.own /\ (l.own => q.file # None)
                             /\ (l.revoked /\ ~l.own => q.file = None)
<1>1. CASE l.revoked /\ ~l.own
  <2>1. PICK q : q = With(l, "file", None)
    OBVIOUS
  <2>2. IsRec(DsLg, q) /\ q["file"] = None /\ q["own"] = l["own"]
    <3>1. "file" \in DsLg /\ "own" \in DsLg \ {"file"}
      BY DEF DsLg
    <3> QED
      BY <2>1, <3>1, LgPut
  <2>3. D!ForgetRevoked(l) = q
    BY <1>1, <2>1 DEF D!ForgetRevoked, With
  <2> QED
    BY <1>1, <2>2, <2>3
<1>2. CASE ~(l.revoked /\ ~l.own)
  BY <1>2 DEF D!ForgetRevoked
<1> QED
  BY <1>1, <1>2

LEMMA LgOver == ASSUME NEW l, IsRec(DsLg, l), l.own => l.file # None, NEW why, why = "revoked" => l.revoked
                PROVE  LET q == D!Ends(D!ForgetRevoked(l), why) IN IsRec(DsLg, q) /\ LgRight(q)
<1>1. PICK r : r = D!ForgetRevoked(l)
  OBVIOUS
<1>2. IsRec(DsLg, r) /\ r.own = l.own /\ (l.own => r.file # None) /\ (l.revoked /\ ~l.own => r.file = None)
  BY <1>1, LgForget
<1>3. PICK q : q = D!Ends(r, why)
  OBVIOUS
<1>4. /\ IsRec(DsLg, q) /\ q.at = "ended" /\ q.why = why /\ q.overlay = FALSE /\ q.prompt = FALSE
      /\ q.file = r.file /\ q.own = r.own
  BY <1>2, <1>3, LgEnds
<1>5. LgRight(q)
  BY <1>2, <1>4 DEF LgRight
<1> QED
  BY <1>1, <1>3, <1>4, <1>5

LEMMA DsLgOnly == ASSUME DsShape, NEW lg, ds' = With(ds, "lg", lg) PROVE DsShape' /\ ds'.lg = lg /\ Only({"lg"}, ds, ds')
<1>1. "lg" \in DsFields
  BY DEF DsFields
<1> QED
  BY <1>1, Put DEF DsShape

LEMMA DsLoginKept == ASSUME DsShape, DsLoginInv, DsLoginStep, None \notin {"live", "dead", "revoked"}
                     PROVE  (DsShape /\ DsLoginInv)' /\ Only({"lg"}, ds, ds')
<1>0. IsRec(DsLg, ds.lg) /\ LgRight(ds.lg) /\ (ds.lg.own => ds.lg.file # None)
  BY DEF DsLoginInv, LgRight
<1> DEFINE Right == (DsShape /\ DsLoginInv)' /\ Only({"lg"}, ds, ds')
<1>1. ASSUME NEW l, IsRec(DsLg, l), LgRight(l), D!Login(l) \/ D!Acts(l) PROVE Right
  <2>1. ds' = With(ds, "lg", l)
    BY <1>1 DEF D!Login, D!Acts, D!Does, With
  <2> QED
    BY <1>1, <2>1, DsLgOnly DEF DsLoginInv
<1>2. ASSUME NEW f \in {"overlay", "prompt", "entered"}, NEW v, ds.lg.at = "qr", D!Acts(With(ds.lg, f, v)) PROVE Right
  <2>1. PICK l : l = With(ds.lg, f, v)
    OBVIOUS
  <2>2. IsRec(DsLg, l) /\ l["at"] = ds.lg["at"] /\ l["why"] = ds.lg["why"] /\ l["own"] = ds.lg["own"] /\ l["file"] = ds.lg["file"]
    <3>1. f \in DsLg /\ "at" \in DsLg \ {f} /\ "why" \in DsLg \ {f} /\ "own" \in DsLg \ {f} /\ "file" \in DsLg \ {f}
      BY DEF DsLg
    <3> QED
      BY <1>0, <2>1, <3>1, LgPut
  <2>3. LgRight(l)
    BY <1>0, <1>2, <2>2 DEF LgRight
  <2> QED
    BY <1>1, <1>2, <2>1, <2>2, <2>3
<1>3. ASSUME NEW why, why # "revoked", D!Acts(D!Ends(ds.lg, why)) \/ D!Login(D!Ends(ds.lg, why)) PROVE Right
  <2>1. PICK l : l = D!Ends(ds.lg, why)
    OBVIOUS
  <2>2. /\ IsRec(DsLg, l) /\ l.at = "ended" /\ l.why = why /\ l.overlay = FALSE /\ l.prompt = FALSE
        /\ l.file = ds.lg.file /\ l.own = ds.lg.own
    BY <1>0, <2>1, LgEnds
  <2>3. LgRight(l)
    BY <1>0, <1>3, <2>2 DEF LgRight
  <2> QED
    BY <1>1, <1>3, <2>1, <2>2, <2>3
<1>4. CASE D!StartRun
  <2>1. PICK qr \in BOOLEAN : /\ qr = (~ds.lg.own /\ ds.lg.file = None)
                              /\ D!Acts([ds.lg EXCEPT !.why = None, !.revoked = FALSE, !.entered = FALSE,
                                                      !.at = IF qr THEN "qr" ELSE "open", !.prompt = qr])
    BY <1>4, Zenon DEF D!StartRun
  <2>2. PICK no : no = FALSE
    OBVIOUS
  <2>3. PICK where : where = IF qr THEN "qr" ELSE "open"
    OBVIOUS
  <2>4. PICK r : r = With4(ds.lg, "why", None, "revoked", no, "entered", no, "at", where)
    OBVIOUS
  <2>5. PICK l : l = With(r, "prompt", qr)
    OBVIOUS
  <2>6. D!Acts(l)
    BY <2>1, <2>2, <2>3, <2>4, <2>5 DEF With4, With3, With2, With
  <2>7. IsRec(DsLg, r) /\ r["why"] = None /\ r["at"] = where /\ Only({"why", "revoked", "entered", "at"}, ds.lg, r)
    <3>1. /\ "why" \in DsLg /\ "revoked" \in DsLg /\ "entered" \in DsLg /\ "at" \in DsLg
          /\ "why" # "revoked" /\ "why" # "entered" /\ "revoked" # "entered" /\ "why" # "at" /\ "revoked" # "at" /\ "entered" # "at"
      BY DEF DsLg
    <3> QED
      BY <1>0, <2>4, <3>1, Put4
  <2>8. r["file"] = ds.lg["file"] /\ r["own"] = ds.lg["own"] /\ r["overlay"] = ds.lg["overlay"]
    BY <1>0, <2>7, RecDomain DEF Only, DsLg
  <2>9. IsRec(DsLg, l) /\ l["prompt"] = qr /\ l["why"] = r["why"] /\ l["at"] = r["at"] /\ l["file"] = r["file"] /\ l["own"] = r["own"] /\ l["overlay"] = r["overlay"]
    <3>1. /\ "prompt" \in DsLg /\ "why" \in DsLg \ {"prompt"} /\ "at" \in DsLg \ {"prompt"} /\ "file" \in DsLg \ {"prompt"}
          /\ "own" \in DsLg \ {"prompt"} /\ "overlay" \in DsLg \ {"prompt"}
      BY DEF DsLg
    <3> QED
      BY <2>5, <2>7, <3>1, LgPut
  <2>10. ds.lg.at # "qr"
    BY <1>4 DEF D!StartRun
  <2>11. LgRight(l)
    BY <1>0, <2>3, <2>7, <2>8, <2>9, <2>10 DEF LgRight
  <2> QED
    BY <1>1, <2>6, <2>9, <2>11
<1>5. CASE D!ShowCode \/ D!Scanned \/ D!Enter
  <2>1. D!Acts(With(ds.lg, "overlay", TRUE)) \/ D!Acts(With(ds.lg, "prompt", TRUE)) \/ D!Acts(With(ds.lg, "entered", TRUE))
    BY <1>5, Zenon DEF D!ShowCode, D!Scanned, D!Enter, With
  <2>2. ds.lg.at = "qr"
    BY <1>5 DEF D!ShowCode, D!Scanned, D!Enter
  <2> QED
    BY <1>2, <2>1, <2>2
<1>6. CASE D!PendingLogin
  <2>1. D!Acts(D!Taken(ds.lg))
    BY <1>6 DEF D!PendingLogin
  <2>2. PICK r : r = D!Ends(ds.lg, None)
    OBVIOUS
  <2>3. /\ IsRec(DsLg, r) /\ r.at = "ended" /\ r.why = None /\ r.overlay = FALSE /\ r.prompt = FALSE
    BY <1>0, <2>2, LgEnds
  <2>4. PICK l : l = With2(r, "at", "open", "file", "live")
    OBVIOUS
  <2>5. D!Acts(l)
    BY <2>1, <2>2, <2>4 DEF D!Taken, With2, With
  <2>6. IsRec(DsLg, l) /\ l["at"] = "open" /\ l["file"] = "live" /\ Only({"at", "file"}, r, l)
    <3>1. "at" \in DsLg /\ "file" \in DsLg /\ "at" # "file"
      BY DEF DsLg
    <3> QED
      BY <2>3, <2>4, <3>1, Put2
  <2>7. l.why = None /\ l.overlay = FALSE /\ l.prompt = FALSE
    BY <2>3, <2>6, RecDomain DEF Only, DsLg
  <2>8. LgRight(l)
    BY <2>6, <2>7 DEF LgRight
  <2> QED
    BY <1>1, <2>5, <2>6, <2>8
<1>7. CASE D!QRFails \/ D!GivesUp \/ D!QuitRun
  BY <1>3, <1>7 DEF D!QRFails, D!GivesUp, D!QuitRun
<1>8. CASE D!Revoke
  <2>1. PICK l : l = With(ds.lg, "file", "dead")
    OBVIOUS
  <2>2. IsRec(DsLg, l) /\ l["file"] = "dead" /\ l["at"] = ds.lg["at"] /\ l["why"] = ds.lg["why"] /\ l["own"] = ds.lg["own"] /\ l["overlay"] = ds.lg["overlay"] /\ l["prompt"] = ds.lg["prompt"]
    <3>1. /\ "file" \in DsLg /\ "why" \in DsLg \ {"file"} /\ "at" \in DsLg \ {"file"} /\ "prompt" \in DsLg \ {"file"}
          /\ "own" \in DsLg \ {"file"} /\ "overlay" \in DsLg \ {"file"}
      BY DEF DsLg
    <3> QED
      BY <1>0, <2>1, <3>1, LgPut
  <2>3. ds.lg.file = "live" /\ D!Acts(l)
    BY <1>8, <2>1 DEF D!Revoke, With
  <2>4. LgRight(l)
    BY <1>0, <2>2, <2>3 DEF LgRight
  <2> QED
    BY <1>1, <2>2, <2>3, <2>4
<1>9. ASSUME D!Login(D!Ends(D!ForgetRevoked([ds.lg EXCEPT !.revoked = TRUE]), "revoked")) PROVE Right
  <2>1. PICK r : r = With(ds.lg, "revoked", TRUE)
    OBVIOUS
  <2>2. IsRec(DsLg, r) /\ r["revoked"] = TRUE /\ r["own"] = ds.lg["own"] /\ r["file"] = ds.lg["file"]
    <3>1. "revoked" \in DsLg /\ "own" \in DsLg \ {"revoked"} /\ "file" \in DsLg \ {"revoked"}
      BY DEF DsLg
    <3>2. PICK yes : yes = TRUE
      OBVIOUS
    <3>3. r = With(ds.lg, "revoked", yes)
      BY <2>1, <3>2
    <3>4. IsRec(DsLg, r) /\ r["revoked"] = yes /\ r["own"] = ds.lg["own"] /\ r["file"] = ds.lg["file"]
      BY <1>0, <3>1, <3>3, LgPut
    <3> QED
      BY <3>2, <3>4
  <2>3. PICK l : l = D!Ends(D!ForgetRevoked(r), "revoked")
    OBVIOUS
  <2>4. IsRec(DsLg, l) /\ LgRight(l)
    BY <1>0, <2>2, <2>3, LgOver
  <2>5. D!Login(l)
    BY <1>9, <2>1, <2>3 DEF With
  <2> QED
    BY <1>1, <2>4, <2>5
<1>10. ASSUME D!Login(D!Ends(D!ForgetRevoked(ds.lg), "failed")) \/ D!Acts(D!Ends(D!ForgetRevoked(ds.lg), "failed")) PROVE Right
  <2>1. PICK l : l = D!Ends(D!ForgetRevoked(ds.lg), "failed")
    OBVIOUS
  <2>2. IsRec(DsLg, l) /\ LgRight(l)
    BY <1>0, <2>1, LgOver
  <2> QED
    BY <1>1, <1>10, <2>1, <2>2
<1>11. ASSUME ds.lg.at = "open", D!Login([ds.lg EXCEPT !.at = "run"]) PROVE Right
  <2>1. PICK l : l = With(ds.lg, "at", "run")
    OBVIOUS
  <2>2. IsRec(DsLg, l) /\ l["at"] = "run" /\ l["file"] = ds.lg["file"] /\ l["why"] = ds.lg["why"] /\ l["own"] = ds.lg["own"] /\ l["overlay"] = ds.lg["overlay"] /\ l["prompt"] = ds.lg["prompt"]
    <3>1. /\ "at" \in DsLg /\ "why" \in DsLg \ {"at"} /\ "file" \in DsLg \ {"at"} /\ "prompt" \in DsLg \ {"at"}
          /\ "own" \in DsLg \ {"at"} /\ "overlay" \in DsLg \ {"at"}
      BY DEF DsLg
    <3> QED
      BY <1>0, <2>1, <3>1, LgPut
  <2>3. LgRight(l) /\ D!Login(l)
    BY <1>0, <1>11, <2>1, <2>2 DEF LgRight, With
  <2> QED
    BY <1>1, <2>2, <2>3
<1>12. CASE D!Open
  <2>1. ds.lg.at = "open" /\ (ds.lg.file = "dead" => D!Login(D!Ends(D!ForgetRevoked([ds.lg EXCEPT !.revoked = TRUE]), "revoked")))
    BY <1>12, Zenon DEF D!Open
  <2>2. ds.lg.file # "dead" => D!Login([ds.lg EXCEPT !.at = "run"]) \/ D!Login(D!Ends(D!ForgetRevoked(ds.lg), "failed"))
    BY <1>12, Zenon DEF D!Open
  <2> QED
    BY <2>1, <2>2, <1>9, <1>10, <1>11, Zenon
<1>13. CASE D!Closed
  BY <1>9, <1>13, Zenon DEF D!Closed
<1>14. CASE D!LosesNet
  BY <1>10, <1>14 DEF D!LosesNet
<1>15. CASE D!Logout
  <2>1. CASE ds.lg.own
    BY <2>1, <1>3, <1>15 DEF D!Logout
  <2>2. CASE ~ds.lg.own
    <3>1. PICK r : r = D!Ends(ds.lg, "logout")
      OBVIOUS
    <3>2. IsRec(DsLg, r) /\ r.at = "ended" /\ r.why = "logout" /\ r.overlay = FALSE /\ r.prompt = FALSE /\ r.own = ds.lg.own
      BY <1>0, <3>1, LgEnds
    <3>3. PICK l : l = With(r, "file", None)
      OBVIOUS
    <3>4. IsRec(DsLg, l) /\ l["at"] = r["at"] /\ l["why"] = r["why"] /\ l["own"] = r["own"] /\ l["overlay"] = r["overlay"] /\ l["prompt"] = r["prompt"]
      <4>1. /\ "file" \in DsLg /\ "why" \in DsLg \ {"file"} /\ "at" \in DsLg \ {"file"} /\ "prompt" \in DsLg \ {"file"}
            /\ "own" \in DsLg \ {"file"} /\ "overlay" \in DsLg \ {"file"}
        BY DEF DsLg
      <4> QED
        BY <3>2, <3>3, <4>1, LgPut
    <3>5. D!Acts(l)
      BY <2>2, <1>15, <3>1, <3>3 DEF D!Logout, With
    <3>6. LgRight(l)
      BY <2>2, <3>2, <3>4 DEF LgRight
    <3> QED
      BY <1>1, <3>4, <3>5, <3>6
  <2> QED
    BY <2>1, <2>2
<1> QED
  BY <1>4, <1>5, <1>6, <1>7, <1>8, <1>12, <1>13, <1>14, <1>15 DEF DsLoginStep
(* The searches of Discord.                                                *)
DsQ == {"all", "ph", "at", "tries", "asked", "hits", "errs", "full", "over", "said"}
\* What was asked: the places before the present one, or all; but for a spent budget.
QCounted(q) ==
    /\ q.ph \in {"idle", "get", "wait"} => q.asked + 1 = q.at
    /\ q.ph = "idle" \/ ~q.all => q.at = 1
    /\ q.ph \in {"pace", "post", "done"} => q.asked = q.at
    /\ q.ph = "pace" => q.all
    /\ q.ph \in {"post", "done"} => q.asked = D!Places(q) \/ (q.all /\ q.over)
QRight(q) ==
    /\ q.asked \in Int /\ q.hits \in Int /\ q.errs \in Int /\ q.full \in Int
    /\ q.full + q.errs = q.asked /\ q.hits >= 0 /\ q.errs >= 0 /\ q.asked >= 0
    /\ q.ph \in {"pace", "post", "done"} => q.asked > 0
    /\ q.ph = "done" => /\ q.said = "none" => q.full = q.asked
                        /\ q.said = "error" => q.hits = 0
    /\ q.all \in BOOLEAN /\ QCounted(q)
DsSearchInv == IsRec(DsQ, ds.q) /\ QRight(ds.q)

LEMMA QPut == ASSUME NEW q, IsRec(DsQ, q), NEW f \in DsQ, NEW v
              PROVE  LET z == With(q, f, v)
                     IN  IsRec(DsQ, z) /\ z[f] = v /\ \A g \in DsQ \ {f} : z[g] = q[g]
<1>1. LET z == With(q, f, v)
      IN  IsRec(DsQ, z) /\ z[f] = v /\ Only({f}, q, z)
  BY Put
<1> QED
  BY <1>1, RecDomain DEF Only

LEMMA QAsked == ASSUME NEW q, IsRec(DsQ, q), q.all \in BOOLEAN, NEW r
                PROVE  LET z == D!Asked(q, r)
                       IN  /\ IsRec(DsQ, z) /\ z.full = q.full /\ z.asked = q.asked + 1
                           /\ z.hits = q.hits + (IF r = "hits" THEN 1 ELSE 0) /\ z.errs = q.errs + (IF r = "err" THEN 1 ELSE 0)
                           /\ \/ z.ph = "post" /\ (~q.all \/ q.at = Targets)
                              \/ z.ph = "pace" /\ q.all
                           /\ z.at = q.at /\ z.all = q.all /\ z.over = q.over
<1>1. PICK n : n = 0
  OBVIOUS
<1>2. PICK u, v, w : u = q.asked + 1 /\ v = q.hits + (IF r = "hits" THEN 1 ELSE 0) /\ w = q.errs + (IF r = "err" THEN 1 ELSE 0)
  OBVIOUS
<1>3. PICK ph \in {"post", "pace"} : ph = IF ~q.all \/ q.at = Targets THEN "post" ELSE "pace"
  OBVIOUS
<1>4. PICK a1 : a1 = With(q, "tries", n)
  OBVIOUS
<1>5. PICK b1 : b1 = With(a1, "asked", u)
  OBVIOUS
<1>6. PICK c1 : c1 = With(b1, "hits", v)
  OBVIOUS
<1>7. PICK d1 : d1 = With(c1, "errs", w)
  OBVIOUS
<1>8. PICK z : z = With(d1, "ph", ph)
  OBVIOUS
<1>9. "tries" \in DsQ /\ "asked" \in DsQ /\ "hits" \in DsQ /\ "errs" \in DsQ /\ "ph" \in DsQ /\ "full" \in DsQ
      /\ \A g \in {"at", "all", "over"} : g \in DsQ \ {"tries", "asked", "hits", "errs", "ph"}
  BY DEF DsQ
<1> DEFINE Rest(x) == \A g \in {"at", "all", "over"} : x[g] = q[g]
<1>10. IsRec(DsQ, a1) /\ a1["asked"] = q["asked"] /\ a1["hits"] = q["hits"] /\ a1["errs"] = q["errs"] /\ a1["full"] = q["full"] /\ Rest(a1)
  BY <1>4, <1>9, QPut
<1>11. IsRec(DsQ, b1) /\ b1["asked"] = u /\ b1["hits"] = q["hits"] /\ b1["errs"] = q["errs"] /\ b1["full"] = q["full"] /\ Rest(b1)
  BY <1>5, <1>9, <1>10, QPut
<1>12. IsRec(DsQ, c1) /\ c1["asked"] = u /\ c1["hits"] = v /\ c1["errs"] = q["errs"] /\ c1["full"] = q["full"] /\ Rest(c1)
  BY <1>6, <1>9, <1>11, QPut
<1>13. IsRec(DsQ, d1) /\ d1["asked"] = u /\ d1["hits"] = v /\ d1["errs"] = w /\ d1["full"] = q["full"] /\ Rest(d1)
  BY <1>7, <1>9, <1>12, QPut
<1>14. IsRec(DsQ, z) /\ z["asked"] = u /\ z["hits"] = v /\ z["errs"] = w /\ z["full"] = q["full"] /\ z["ph"] = ph /\ Rest(z)
  BY <1>8, <1>9, <1>13, QPut
<1>15. D!Asked(q, r) = z
  <2>1. PICK e1 : e1 = [q EXCEPT !.tries = n, !.asked = u, !.hits = v, !.errs = w, !.ph = ph]
    OBVIOUS
  <2>2. e1 = z
    BY <2>1, <1>4, <1>5, <1>6, <1>7, <1>8, Zenon DEF With
  <2>3. [q EXCEPT !.tries = 0, !.asked = @ + 1, !.hits = @ + (IF r = "hits" THEN 1 ELSE 0), !.errs = @ + (IF r = "err" THEN 1 ELSE 0), !.ph = ph]
        = e1
    <3>1. a1.asked = q.asked /\ b1.hits = q.hits /\ c1.errs = q.errs
      BY <1>10, <1>11, <1>12
    <3> QED
      BY <2>1, <1>1, <1>2
  <2> QED
    BY <2>2, <2>3, <1>3 DEF D!Asked
<1>16. z["at"] = q["at"] /\ z["all"] = q["all"] /\ z["over"] = q["over"]
  BY <1>14
<1>17. (ph = "post" /\ (~q.all \/ q.at = Targets)) \/ (ph = "pace" /\ q.all)
  BY <1>3
<1> HIDE DEF Rest
<1> QED
  BY <1>2, <1>14, <1>15, <1>16, <1>17

LEMMA DsQOnly == ASSUME DsShape, NEW q, ds' = With(ds, "q", q) PROVE DsShape' /\ ds'.q = q /\ Only({"q"}, ds, ds')
<1>1. "q" \in DsFields
  BY DEF DsFields
<1> QED
  BY <1>1, Put DEF DsShape

LEMMA DsQHolds == ASSUME DsShape PROVE \A v, y : y = With(ds, "q", v) => y.q = v
<1>1. "q" \in DsFields
  BY DEF DsFields
<1>2. ASSUME NEW v PROVE With(ds, "q", v)["q"] = v
  <2>1. DOMAIN ds = DsFields
    BY RecDomain DEF DsShape
  <2> QED
    BY <1>1, <2>1 DEF With
<1> QED
  BY <1>2

LEMMA DsSearchKept == ASSUME DsShape, DsSearchInv, DsSearchStep PROVE (DsShape /\ DsSearchInv)' /\ Only({"q"}, ds, ds')
<1> DEFINE Right == (DsShape /\ DsSearchInv)' /\ Only({"q"}, ds, ds')
<1>0. IsRec(DsQ, ds.q) /\ QRight(ds.q) /\ ds.q.all \in BOOLEAN
  BY DEF DsSearchInv, QRight
<1>1. ASSUME NEW z, IsRec(DsQ, z), QRight(z), ds' = With(ds, "q", z) PROVE Right
  BY <1>1, DsQOnly DEF DsSearchInv
<1>2. ASSUME NEW f \in {"all", "tries", "over", "at"}, NEW v, NEW h, h \notin {"pace", "post", "done"} \/ h = ds.q.ph \/ (h = "post" /\ ds.q.ph = "pace"),
             h # "done",
             f = "all" => v \in BOOLEAN /\ ds.q.ph = "idle" /\ h = "get",
             f = "tries" => ds.q.ph \in {"get", "wait"} /\ h \in {"get", "wait"},
             f = "over" => v = TRUE /\ h = ds.q.ph /\ h \in {"get", "wait", "pace"},
             f = "at" => \/ v = ds.q.at /\ ds.q.ph \in {"get", "wait"} /\ h \in {"get", "wait"}
                         \/ v = ds.q.at + 1 /\ ds.q.ph = "pace" /\ h = "get"
                         \/ v = ds.q.at /\ ds.q.ph = "pace" /\ h = "post" /\ ds.q.over,
             ds' = With(ds, "q", With(With(ds.q, f, v), "ph", h)) PROVE Right
  <2>1. PICK y : y = With(ds.q, f, v)
    OBVIOUS
  <2>2. PICK z : z = With(y, "ph", h)
    OBVIOUS
  <2>3. /\ f \in DsQ /\ "ph" \in DsQ /\ \A g \in {"asked", "hits", "errs", "full", "said"} : g \in DsQ \ {f} /\ g \in DsQ \ {"ph"}
        /\ f \in DsQ \ {"ph"} /\ \A g \in {"at", "all", "over"} \ {f} : g \in DsQ \ {f} /\ g \in DsQ \ {"ph"}
    BY DEF DsQ
  <2>4. IsRec(DsQ, y) /\ (\A g \in {"asked", "hits", "errs", "full", "said"} : y[g] = ds.q[g])
        /\ y[f] = v /\ \A g \in {"at", "all", "over"} \ {f} : y[g] = ds.q[g]
    BY <1>0, <2>1, <2>3, QPut
  <2>5. IsRec(DsQ, z) /\ z["ph"] = h /\ (\A g \in {"asked", "hits", "errs", "full", "said"} : z[g] = ds.q[g])
        /\ z[f] = v /\ \A g \in {"at", "all", "over"} \ {f} : z[g] = ds.q[g]
    BY <2>2, <2>3, <2>4, QPut
  <2>6. z["ph"] = h /\ z["asked"] = ds.q["asked"] /\ z["hits"] = ds.q["hits"] /\ z["errs"] = ds.q["errs"] /\ z["full"] = ds.q["full"]
    BY <2>5
  <2>7. z.all \in BOOLEAN /\ QCounted(z)
    <3>1. CASE f = "all"
      <4>1. z["all"] = v /\ z["at"] = ds.q["at"] /\ z["over"] = ds.q["over"]
        BY <3>1, <2>5
      <4> QED
        BY <1>0, <1>2, <2>6, <3>1, <4>1 DEF QRight, QCounted, D!Places
    <3>2. CASE f = "tries"
      <4>1. z["all"] = ds.q["all"] /\ z["at"] = ds.q["at"] /\ z["over"] = ds.q["over"]
        BY <3>2, <2>5
      <4> QED
        BY <1>0, <1>2, <2>6, <3>2, <4>1 DEF QRight, QCounted, D!Places
    <3>3. CASE f = "over"
      <4>1. z["all"] = ds.q["all"] /\ z["at"] = ds.q["at"] /\ z["over"] = v
        BY <3>3, <2>5
      <4> QED
        BY <1>0, <1>2, <2>6, <3>3, <4>1 DEF QRight, QCounted, D!Places
    <3>4. CASE f = "at"
      <4>1. z["all"] = ds.q["all"] /\ z["at"] = v /\ z["over"] = ds.q["over"]
        BY <3>4, <2>5
      <4> QED
        BY <1>0, <1>2, <2>6, <3>4, <4>1 DEF QRight, QCounted, D!Places
    <3> QED
      BY <3>1, <3>2, <3>3, <3>4
  <2>8. QRight(z)
    BY <1>0, <1>2, <2>6, <2>7 DEF QRight
  <2> QED
    BY <1>1, <1>2, <2>1, <2>2, <2>5, <2>8
<1>3. ASSUME NEW r, NEW n, n = IF r = "err" THEN 0 ELSE 1, ds.q.ph \in {"get", "wait"},
             ds' = With(ds, "q", With(D!Asked(ds.q, r), "full", ds.q.full + n)) PROVE Right
  <2>1. PICK y : y = D!Asked(ds.q, r)
    OBVIOUS
  <2>2. /\ IsRec(DsQ, y) /\ y.full = ds.q.full /\ y.asked = ds.q.asked + 1
        /\ y.hits = ds.q.hits + (IF r = "hits" THEN 1 ELSE 0) /\ y.errs = ds.q.errs + (IF r = "err" THEN 1 ELSE 0)
        /\ (y.ph = "post" /\ (~ds.q.all \/ ds.q.at = Targets)) \/ (y.ph = "pace" /\ ds.q.all)
        /\ y.at = ds.q.at /\ y.all = ds.q.all /\ y.over = ds.q.over
    BY <1>0, <2>1, QAsked
  <2>3. PICK m : m = ds.q.full + n
    OBVIOUS
  <2>4. PICK z : z = With(y, "full", m)
    OBVIOUS
  <2>5. IsRec(DsQ, z) /\ z["full"] = m /\ z["asked"] = y["asked"] /\ z["hits"] = y["hits"] /\ z["errs"] = y["errs"] /\ z["ph"] = y["ph"]
        /\ z["at"] = y["at"] /\ z["all"] = y["all"] /\ z["over"] = y["over"]
    <3>1. "full" \in DsQ /\ "asked" \in DsQ \ {"full"} /\ "hits" \in DsQ \ {"full"} /\ "errs" \in DsQ \ {"full"} /\ "ph" \in DsQ \ {"full"}
          /\ "at" \in DsQ \ {"full"} /\ "all" \in DsQ \ {"full"} /\ "over" \in DsQ \ {"full"}
      BY DEF DsQ
    <3> QED
      BY <2>2, <2>4, <3>1, QPut
  <2>6. QCounted(z)
    BY <1>0, <1>3, <2>2, <2>5 DEF QRight, QCounted, D!Places
  <2>7. QRight(z)
    BY <1>0, <1>3, <2>2, <2>3, <2>5, <2>6 DEF QRight
  <2> QED
    BY <1>1, <1>3, <2>1, <2>3, <2>4, <2>5, <2>7
<1>4. ASSUME ds.q.ph \in {"get", "wait"}, ds' = With(ds, "q", D!Asked(ds.q, "err")) PROVE Right
  <2>1. PICK z : z = D!Asked(ds.q, "err")
    OBVIOUS
  <2>2. /\ IsRec(DsQ, z) /\ z.full = ds.q.full /\ z.asked = ds.q.asked + 1 /\ z.hits = ds.q.hits /\ z.errs = ds.q.errs + 1
        /\ (z.ph = "post" /\ (~ds.q.all \/ ds.q.at = Targets)) \/ (z.ph = "pace" /\ ds.q.all)
        /\ z.at = ds.q.at /\ z.all = ds.q.all /\ z.over = ds.q.over
    <3>1. ds.q.hits + 0 = ds.q.hits
      BY <1>0 DEF QRight
    <3> QED
      BY <1>0, <2>1, <3>1, QAsked
  <2>3. QCounted(z)
    BY <1>0, <1>4, <2>2 DEF QRight, QCounted, D!Places
  <2>4. QRight(z)
    BY <1>0, <2>2, <2>3 DEF QRight
  <2> QED
    BY <1>1, <1>4, <2>1, <2>2, <2>4
<1>5. ASSUME NEW all \in BOOLEAN, D!AskSearch(all) PROVE Right
  <2>1. ds' = With(ds, "q", With(With(ds.q, "all", all), "ph", "get"))
    <3>1. ds' = [ds EXCEPT !.q.all = all, !.q.ph = "get"]
      BY <1>5 DEF D!AskSearch, D!Does
    <3>2. PICK y : y = With(ds, "q", With(ds.q, "all", all))
      OBVIOUS
    <3>3. y.q = With(ds.q, "all", all)
      BY <3>2, DsQHolds
    <3>4. ds' = With(y, "q", With(y.q, "ph", "get"))
      BY <3>1, <3>2, Zenon DEF With
    <3>5. \A v, w : With(With(ds, "q", v), "q", w) = With(ds, "q", w)
      BY DEF With, DsShape, IsRec
    <3> QED
      BY <3>2, <3>3, <3>4, <3>5
  <2>2. ds.q.ph = "idle"
    BY <1>5 DEF D!AskSearch
  <2> QED
    BY <2>1, <2>2, <1>2
<1>6. CASE D!BudgetSpent
  <2>1. ds' = With(ds, "q", With(ds.q, "over", TRUE)) /\ ds.q.ph \in {"get", "wait", "pace"}
    BY <1>6 DEF D!BudgetSpent, D!Does, With
  <2>2. With(With(ds.q, "over", TRUE), "ph", ds.q.ph) = With(ds.q, "over", TRUE)
    BY <1>0 DEF With, IsRec, DsQ
  <2> QED
    BY <2>1, <2>2, <1>2
<1>7. CASE D!Search
  <2>1. CASE ds.q.ph = "get" /\ \E r \in IF ds.q.over THEN {"err"} ELSE {"hits", "none", "err"} :
            D!Goes([ds EXCEPT !.q = [D!Asked(ds.q, r) EXCEPT !.full = @ + (IF r = "err" THEN 0 ELSE 1)]])
    <3>1. PICK r : D!Goes([ds EXCEPT !.q = [D!Asked(ds.q, r) EXCEPT !.full = @ + (IF r = "err" THEN 0 ELSE 1)]])
      BY <2>1
    <3>2. PICK n : n = IF r = "err" THEN 0 ELSE 1
      OBVIOUS
    <3>3. D!Asked(ds.q, r).full = ds.q.full
      BY <1>0, QAsked
    <3>4. ds' = With(ds, "q", With(D!Asked(ds.q, r), "full", ds.q.full + n))
      BY <3>1, <3>2, <3>3 DEF D!Goes, With
    <3> QED
      BY <2>1, <3>2, <3>4, <1>3
  <2>2. CASE ds.q.ph = "get" /\ D!Goes([ds EXCEPT !.q.ph = "wait", !.q.tries = 1])
    <3>1. ds' = With(ds, "q", With(With(ds.q, "tries", 1), "ph", "wait"))
      <4>1. ds' = [ds EXCEPT !.q.ph = "wait", !.q.tries = 1]
        BY <2>2 DEF D!Goes
      <4>2. PICK y : y = With(ds, "q", With(ds.q, "ph", "wait"))
        OBVIOUS
      <4>3. y.q = With(ds.q, "ph", "wait")
        BY <4>2, DsQHolds
      <4>4. ds' = With(y, "q", With(y.q, "tries", 1))
        BY <4>1, <4>2, Zenon DEF With
      <4>5. \A v, w : With(With(ds, "q", v), "q", w) = With(ds, "q", w)
        BY DEF With, DsShape, IsRec
      <4>6. \A n : With(With(ds.q, "ph", "wait"), "tries", n) = With(With(ds.q, "tries", n), "ph", "wait")
        BY <1>0 DEF With, IsRec, DsQ
      <4> QED
        BY <4>2, <4>3, <4>4, <4>5, <4>6
    <3>2. PICK f, h, v : f = "tries" /\ h = "wait" /\ v = 1
      OBVIOUS
    <3>3. ds' = With(ds, "q", With(With(ds.q, f, v), "ph", h))
      BY <3>1, <3>2
    <3> QED
      BY <2>2, <3>2, <3>3, <1>2
  <2>3. CASE ds.q.ph = "get" /\ D!Goes([ds EXCEPT !.q = D!StillIndexing(ds.q)])
    BY <2>3, <1>4 DEF D!Goes, D!StillIndexing, With
  <2>4. CASE ds.q.ph = "wait" /\ D!Goes([ds EXCEPT !.q = IF ds.q.over THEN D!Asked(ds.q, "err") ELSE [ds.q EXCEPT !.ph = "get"]])
    <3>1. CASE ds.q.over
      BY <3>1, <2>4, <1>4 DEF D!Goes, With
    <3>2. CASE ~ds.q.over
      <4>1. ds' = With(ds, "q", With(ds.q, "ph", "get"))
        BY <3>2, <2>4 DEF D!Goes, With
      <4>2. With(With(ds.q, "at", ds.q.at), "ph", "get") = With(ds.q, "ph", "get")
        BY <1>0 DEF With, IsRec, DsQ
      <4>3. PICK f, h, v : f = "at" /\ h = "get" /\ v = ds.q.at
        OBVIOUS
      <4>4. ds' = With(ds, "q", With(With(ds.q, f, v), "ph", h))
        BY <4>1, <4>2, <4>3
      <4> QED
        BY <2>4, <4>3, <4>4, <1>2
    <3> QED
      BY <3>1, <3>2
  <2> QED
    BY <1>7, <2>1, <2>2, <2>3, <2>4, Zenon DEF D!Search
<1>8. CASE D!SearchGlobal
  <2>1. CASE ds.q.ph = "pace" /\ D!Goes([ds EXCEPT !.q.ph = IF ds.q.over THEN "post" ELSE "get", !.q.at = IF ds.q.over THEN @ ELSE @ + 1])
    <3>1. PICK h : h \in {"post", "get"} /\ h = IF ds.q.over THEN "post" ELSE "get"
      OBVIOUS
    <3>2. PICK n : n = IF ds.q.over THEN ds.q.at ELSE ds.q.at + 1
      OBVIOUS
    <3>3. ds' = With(ds, "q", With(With(ds.q, "at", n), "ph", h))
      <4>1. ds' = [ds EXCEPT !.q.ph = h, !.q.at = n]
        <5>1. ds' = [ds EXCEPT !.q.ph = h, !.q.at = IF ds.q.over THEN @ ELSE @ + 1]
          BY <2>1, <3>1, Zenon DEF D!Goes
        <5>2. \A g : [ds EXCEPT !.q.ph = g].q.at = ds.q.at
          BY <1>0 DEF IsRec, DsQ, DsShape, DsFields
        <5> QED
          BY <5>1, <5>2, <3>2
      <4>2. PICK y : y = With(ds, "q", With(ds.q, "ph", h))
        OBVIOUS
      <4>3. y.q = With(ds.q, "ph", h)
        BY <4>2, DsQHolds
      <4>4. ds' = With(y, "q", With(y.q, "at", n))
        BY <4>1, <4>2, Zenon DEF With
      <4>5. \A v, w : With(With(ds, "q", v), "q", w) = With(ds, "q", w)
        BY DEF With, DsShape, IsRec
      <4>6. With(With(ds.q, "ph", h), "at", n) = With(With(ds.q, "at", n), "ph", h)
        BY <1>0 DEF With, IsRec, DsQ
      <4> QED
        BY <4>2, <4>3, <4>4, <4>5, <4>6
    <3> QED
      BY <2>1, <3>1, <3>2, <3>3, <1>2
  <2>2. CASE ds.q.ph = "post" /\ D!Goes([ds EXCEPT !.q.ph = "done",
                                              !.q.said = IF ds.q.hits > 0 THEN "hits" ELSE IF ds.q.errs > 0 THEN "error" ELSE "none"])
    <3>1. PICK said : said = IF ds.q.hits > 0 THEN "hits" ELSE IF ds.q.errs > 0 THEN "error" ELSE "none"
      OBVIOUS
    <3>2. ds' = With(ds, "q", With(With(ds.q, "ph", "done"), "said", said))
      <4>1. ds' = [ds EXCEPT !.q.ph = "done", !.q.said = said]
        BY <2>2, <3>1, Zenon DEF D!Goes
      <4>2. PICK y : y = With(ds, "q", With(ds.q, "ph", "done"))
        OBVIOUS
      <4>3. y.q = With(ds.q, "ph", "done")
        BY <4>2, DsQHolds
      <4>4. ds' = With(y, "q", With(y.q, "said", said))
        BY <4>1, <4>2, Zenon DEF With
      <4>5. \A v, w : With(With(ds, "q", v), "q", w) = With(ds, "q", w)
        BY DEF With, DsShape, IsRec
      <4> QED
        BY <4>2, <4>3, <4>4, <4>5
    <3>3. PICK y : y = With(ds.q, "ph", "done")
      OBVIOUS
    <3>4. PICK z : z = With(y, "said", said)
      OBVIOUS
    <3>5. /\ "ph" \in DsQ /\ "said" \in DsQ /\ "ph" \in DsQ \ {"said"}
          /\ \A g \in {"asked", "hits", "errs", "full", "at", "all", "over"} : g \in DsQ \ {"ph"} /\ g \in DsQ \ {"said"}
      BY DEF DsQ
    <3>6. IsRec(DsQ, y) /\ y["ph"] = "done" /\ \A g \in {"asked", "hits", "errs", "full", "at", "all", "over"} : y[g] = ds.q[g]
      BY <1>0, <3>3, <3>5, QPut
    <3>7. IsRec(DsQ, z) /\ z["said"] = said /\ z["ph"] = "done" /\ \A g \in {"asked", "hits", "errs", "full", "at", "all", "over"} : z[g] = ds.q[g]
      BY <3>4, <3>5, <3>6, QPut
    <3>8. z["at"] = ds.q["at"] /\ z["all"] = ds.q["all"] /\ z["over"] = ds.q["over"] /\ z["asked"] = ds.q["asked"] /\ z["hits"] = ds.q["hits"] /\ z["errs"] = ds.q["errs"] /\ z["full"] = ds.q["full"]
      BY <3>7
    <3>9. QCounted(z)
      BY <1>0, <2>2, <3>7, <3>8 DEF QRight, QCounted, D!Places
    <3>10. QRight(z)
      BY <1>0, <2>2, <3>1, <3>7, <3>8, <3>9 DEF QRight
    <3> QED
      BY <1>1, <3>2, <3>3, <3>4, <3>7, <3>10
  <2> QED
    BY <1>8, <2>1, <2>2, Zenon DEF D!SearchGlobal
<1> QED
  BY <1>5, <1>6, <1>7, <1>8 DEF DsSearchStep

(* The calls of Discord.                                                   *)
DsCallFields == {"id", "op", "ph", "answers"}
DsCallsInv == \A c \in ds.calls : /\ IsRec(DsCallFields, c) /\ c.answers \in {0, 1}
                                  /\ c.ph # "done" => c.answers = 0
                                  /\ c.ph = "done" /\ c.op.answer = "always" => c.answers = 1

LEMMA DsCallsOnly == ASSUME DsShape, NEW v, ds' = With(ds, "calls", v) PROVE DsShape' /\ ds'.calls = v /\ Only({"calls"}, ds, ds')
<1>1. "calls" \in DsFields
  BY DEF DsFields
<1> QED
  BY <1>1, Put DEF DsShape

LEMMA CallPut == ASSUME NEW c, IsRec(DsCallFields, c), NEW ph, NEW n
                 PROVE  LET y == With2(c, "ph", ph, "answers", n)
                        IN  IsRec(DsCallFields, y) /\ y.ph = ph /\ y.answers = n /\ y.op = c.op
<1>1. LET y == With2(c, "ph", ph, "answers", n)
      IN  IsRec(DsCallFields, y) /\ y["ph"] = ph /\ y["answers"] = n /\ Only({"ph", "answers"}, c, y)
  <2>1. "ph" \in DsCallFields /\ "answers" \in DsCallFields /\ "ph" # "answers"
    BY DEF DsCallFields
  <2> QED
    BY <2>1, Put2
<1> QED
  BY <1>1, RecDomain DEF Only, DsCallFields

LEMMA DsCallsKept == ASSUME DsShape, DsCallsInv, DsCallStep PROVE (DsShape /\ DsCallsInv)' /\ Only({"calls"}, ds, ds')
<1>1. ASSUME NEW op, op \in D!Calls, D!Call(op) PROVE (DsShape /\ DsCallsInv)' /\ Only({"calls"}, ds, ds')
  <2>1. PICK c : c = [id |-> dsOps, op |-> op, ph |-> op.needs, answers |-> 0]
    OBVIOUS
  <2>2. IsRec(DsCallFields, c) /\ c.answers = 0 /\ c.ph = op.needs
    BY <2>1 DEF IsRec, DsCallFields
  <2>3. op.needs # "done"
    <3>1. \A name, needs, answer : D!Op(name, needs, answer).needs = needs
      BY DEF D!Op
    <3> QED
      BY <1>1, <3>1 DEF D!Calls, D!SearchContacts, D!Contacts, D!Resolve, D!Whois, D!WhoRead, D!DownloadMap, D!Block, D!Send, D!Forward,
            D!Edit, D!Delete, D!Pin, D!SearchChat, D!SearchMedia, D!SearchGifs, D!Participants, D!Info, D!WhoReacted, D!Typing,
            D!MarkRead, D!Away
  <2>4. ds' = With(ds, "calls", ds.calls \cup {c})
    BY <1>1, <2>1 DEF D!Call, D!Does, With
  <2>5. DsShape' /\ ds'.calls = ds.calls \cup {c} /\ Only({"calls"}, ds, ds')
    BY <2>4, DsCallsOnly
  <2> QED
    BY <2>2, <2>3, <2>5 DEF DsCallsInv
<1>2. ASSUME NEW c \in ds.calls, NEW ph, NEW n \in {0, 1}, c.ph # "done", ph # "done" => n = 0,
             ph = "done" /\ c.op.answer = "always" => n = 1, ds' = D!Answers(c, ph, n)
      PROVE (DsShape /\ DsCallsInv)' /\ Only({"calls"}, ds, ds')
  <2>1. PICK y : y = With2(c, "ph", ph, "answers", n)
    OBVIOUS
  <2>2. c.answers = 0 /\ c.answers + n = n /\ IsRec(DsCallFields, c)
    BY <1>2 DEF DsCallsInv
  <2>3. IsRec(DsCallFields, y) /\ y.ph = ph /\ y.answers = n /\ y.op = c.op
    BY <2>1, <2>2, CallPut
  <2>4. ds' = With(ds, "calls", (ds.calls \ {c}) \cup {y})
    <3>1. [c EXCEPT !.ph = ph, !.answers = @ + n] = [c EXCEPT !.ph = ph, !.answers = n]
      BY <2>2
    <3>2. [c EXCEPT !.ph = ph, !.answers = n] = y
      BY <2>1 DEF With2, With
    <3> QED
      BY <1>2, <3>1, <3>2 DEF D!Answers, With
  <2>5. DsShape' /\ ds'.calls = (ds.calls \ {c}) \cup {y} /\ Only({"calls"}, ds, ds')
    BY <2>4, DsCallsOnly
  <2> QED
    BY <1>2, <2>3, <2>5 DEF DsCallsInv
<1>3. ASSUME NEW c \in ds.calls, D!CallGoes(c) PROVE (DsShape /\ DsCallsInv)' /\ Only({"calls"}, ds, ds')
  <2>1. \A r : D!Guarded(c, r) \in {0, 1} /\ (c.op.answer = "always" => D!Guarded(c, r) = 1)
    BY DEF D!Guarded
  <2>2. \/ c.ph \in {"nothing", "store", "read", "request"} /\ \E r : ds' = D!Answers(c, "done", D!Guarded(c, r))
        \/ c.ph = "read" /\ ds' = D!Answers(c, "request", 0)
    BY <1>3 DEF D!CallGoes, D!Goes
  <2> QED
    BY <2>1, <2>2, <1>2
<1> QED
  BY <1>1, <1>3 DEF DsCallStep, D!CallsGo
(* The guilds of Discord: the list of the chats and the custom emojis.     *)
DsG == {"sv", "incomplete", "line", "chans", "emo", "cache", "crossed", "ui", "missed", "destroyed"}
DsList == {"k", "ph", "guild", "complete", "emo"}
DsPage == {"k", "older", "ph", "ms", "set", "fits", "add"}
GRight(g) ==
    /\ g.line \in BOOLEAN /\ g.missed \in BOOLEAN /\ g.incomplete \in BOOLEAN /\ g.crossed \in BOOLEAN
    /\ (g.sv # "out" /\ ~g.missed) => "G" \in g.ui
    /\ g.destroyed \subseteq {"D"}
    /\ (g.cache # None /\ ~g.crossed) => g.cache = g.emo
\* A list under way tells the guild, or does not wipe, or was told too little
\* by READY; the emojis it built are those of the guild but for a change since.
ListRight(p, g) ==
    /\ p.k = "list" /\ IsRec(DsList, p) /\ p.ph \in {"guilds", "chans", "emojis", "cached", "post"}
    /\ p.guild \in BOOLEAN /\ p.complete \in BOOLEAN
    /\ p.ph = "chans" /\ ~g.missed /\ ~g.incomplete => p.guild
    /\ p.ph \in {"emojis", "cached", "post"} /\ p.complete /\ ~g.missed /\ ~g.incomplete => p.guild
    /\ p.ph = "cached" /\ p.emo # None /\ ~g.crossed => p.emo = g.emo
DsTasksInv ==
    /\ ds.scene = "guilds" => \A p \in ds.tasks : ListRight(p, ds.g)
    /\ ds.scene # "guilds" => \A p \in ds.tasks : p.k \in {"page", "react"} /\ IsRec(DsPage, p)
DsGuildInv == IsRec(DsG, ds.g) /\ GRight(ds.g) /\ DsTasksInv

LEMMA DsTwo == ASSUME DsShape, NEW v, NEW w
               PROVE  LET q == With2(ds, "tasks", v, "g", w)
                      IN  q["tasks"] = v /\ q["g"] = w /\ q["scene"] = ds["scene"]
<1>1. "tasks" \in DsFields /\ "g" \in DsFields /\ "scene" \in DsFields
  BY DEF DsFields
<1>2. PICK r : r = With(ds, "tasks", v)
  OBVIOUS
<1>3. IsRec(DsFields, r) /\ r["tasks"] = v /\ Only({"tasks"}, ds, r)
  BY <1>1, <1>2, Put DEF DsShape
<1>4. PICK q : q = With(r, "g", w)
  OBVIOUS
<1>5. IsRec(DsFields, q) /\ q["g"] = w /\ Only({"g"}, r, q)
  BY <1>1, <1>3, <1>4, Put
<1>6. q["tasks"] = v /\ q["scene"] = ds["scene"]
  BY <1>1, <1>3, <1>5, RecDomain DEF Only, DsShape
<1> QED
  BY <1>2, <1>4, <1>5, <1>6 DEF With2

LEMMA DsOne == ASSUME DsShape
               PROVE  /\ \A v, q : q = With(ds, "tasks", v) => q.tasks = v /\ q.g = ds.g /\ q.scene = ds.scene
                      /\ \A v, q : q = With(ds, "g", v) => q.g = v /\ q.tasks = ds.tasks /\ q.scene = ds.scene
<1>1. "tasks" \in DsFields /\ "g" \in DsFields /\ "scene" \in DsFields /\ DOMAIN ds = DsFields
  BY RecDomain DEF DsFields, DsShape
<1> QED
  BY <1>1 DEF With

\* What the server and the user do to the guild.
LEMMA GuildMoves ==
    ASSUME DsShape, DsGuildInv, ds.scene = "guilds", NEW g, IsRec(DsG, g), GRight(g), g.missed = ds.g.missed, g.incomplete = ds.g.incomplete,
           (g.crossed = ds.g.crossed /\ g.emo = ds.g.emo) \/ (\A p \in ds.tasks : p.ph = "cached" => g.crossed), D!Guild(g)
    PROVE  DsGuildInv'
<1>1. ds' = With(ds, "g", g)
  BY DEF D!Guild, D!Does, With
<1>2. ds'.g = g /\ ds'.tasks = ds.tasks /\ ds'.scene = ds.scene
  BY <1>1, DsOne
<1>3. \A p \in ds.tasks : ListRight(p, g)
  <2> SUFFICES ASSUME NEW p \in ds.tasks PROVE ListRight(p, g)
    OBVIOUS
  <2>1. ListRight(p, ds.g)
    BY DEF DsGuildInv, DsTasksInv
  <2> QED
    BY <2>1 DEF ListRight
<1> QED
  BY <1>2, <1>3 DEF DsGuildInv, DsTasksInv

LEMMA GuildPut3 == ASSUME NEW p, IsRec(DsG, p), NEW u, NEW v, NEW w
                   PROVE  LET q == With3(p, "sv", u, "line", v, "ui", w)
                          IN  IsRec(DsG, q) /\ q["sv"] = u /\ q["line"] = v /\ q["ui"] = w /\ Only({"sv", "line", "ui"}, p, q)
<1>1. "sv" \in DsG /\ "line" \in DsG /\ "ui" \in DsG /\ "sv" # "line" /\ "ui" \notin {"sv", "line"}
  BY DEF DsG
<1>2. PICK r : r = With2(p, "sv", u, "line", v)
  OBVIOUS
<1>3. IsRec(DsG, r) /\ r["sv"] = u /\ r["line"] = v /\ Only({"sv", "line"}, p, r)
  <2>1. "sv" \in DsG /\ "line" \in DsG /\ "sv" # "line"
    BY DEF DsG
  <2> QED
    BY <1>2, <2>1, Put2
<1>4. PICK q : q = With(r, "ui", w)
  OBVIOUS
<1>5. IsRec(DsG, q) /\ q["ui"] = w /\ Only({"ui"}, r, q)
  BY <1>1, <1>3, <1>4, Put
<1>6. q["sv"] = u /\ q["line"] = v
  BY <1>1, <1>3, <1>5, RecDomain DEF Only
<1>7. Only({"sv", "line", "ui"}, p, q)
  BY <1>3, <1>5 DEF Only
<1> QED
  BY <1>2, <1>4, <1>5, <1>6, <1>7 DEF With3

LEMMA DsGuildServer == ASSUME DsShape, DsGuildInv, ds.scene = "guilds",
                              D!Outage \/ D!Back \/ D!GuildGone \/ D!EmojisChange \/ (\E c \in {"G", "T"} : D!ChatFor(c))
                              \/ (\E c \in {"D", "G", "T"} : D!DeleteChat(c))
                       PROVE  DsGuildInv'
<1>0. IsRec(DsG, ds.g) /\ GRight(ds.g) /\ DOMAIN ds.g = DsG
  BY RecDomain DEF DsGuildInv
<1>1. PICK no, yes : no = FALSE /\ yes = TRUE
  OBVIOUS
<1>2. CASE D!Outage
  <2>1. PICK g : g = With2(ds.g, "sv", "outage", "line", no)
    OBVIOUS
  <2>2. D!Guild(g) /\ ds.g.sv = "in"
    BY <1>1, <1>2, <2>1 DEF D!Outage, With2, With
  <2>3. IsRec(DsG, g) /\ g["sv"] = "outage" /\ g["line"] = no /\ Only({"sv", "line"}, ds.g, g)
    <3>1. "sv" \in DsG /\ "line" \in DsG /\ "sv" # "line"
      BY DEF DsG
    <3> QED
      BY <1>0, <2>1, <3>1, Put2
  <2>4. /\ g.incomplete = ds.g.incomplete /\ g.emo = ds.g.emo /\ g.cache = ds.g.cache /\ g.crossed = ds.g.crossed /\ g.ui = ds.g.ui
        /\ g.missed = ds.g.missed /\ g.destroyed = ds.g.destroyed
    BY <1>0, <2>3 DEF Only, DsG
  <2>5. GRight(g)
    BY <1>0, <1>1, <2>2, <2>3, <2>4 DEF GRight
  <2> QED
    BY <2>2, <2>3, <2>4, <2>5, GuildMoves
<1>3. CASE D!Back
  <2>1. PICK r : r = With2(ds.g, "sv", "in", "line", yes)
    OBVIOUS
  <2>2. PICK g : g = With2(r, "chans", yes, "cache", None)
    OBVIOUS
  <2>3. D!Guild(g) /\ ds.g.sv = "outage"
    BY <1>1, <1>3, <2>1, <2>2 DEF D!Back, With2, With
  <2>4. IsRec(DsG, r) /\ r["sv"] = "in" /\ r["line"] = yes /\ Only({"sv", "line"}, ds.g, r)
    <3>1. "sv" \in DsG /\ "line" \in DsG /\ "sv" # "line"
      BY DEF DsG
    <3> QED
      BY <1>0, <2>1, <3>1, Put2
  <2>5. IsRec(DsG, g) /\ g["chans"] = yes /\ g["cache"] = None /\ Only({"chans", "cache"}, r, g)
    <3>1. "chans" \in DsG /\ "cache" \in DsG /\ "chans" # "cache"
      BY DEF DsG
    <3> QED
      BY <2>2, <2>4, <3>1, Put2
  <2>6. /\ g.sv = "in" /\ g.line = yes /\ g.cache = None
        /\ g.incomplete = ds.g.incomplete /\ g.emo = ds.g.emo /\ g.crossed = ds.g.crossed /\ g.ui = ds.g.ui
        /\ g.missed = ds.g.missed /\ g.destroyed = ds.g.destroyed
    BY <1>0, <2>4, <2>5, RecDomain DEF Only, DsG
  <2>7. GRight(g)
    BY <1>0, <1>1, <2>3, <2>6 DEF GRight
  <2> QED
    BY <2>3, <2>5, <2>6, <2>7, GuildMoves
<1>4. CASE D!GuildGone
  <2>1. PICK chatsNow : chatsNow = IF ds.g.chans THEN ds.g.ui \ {"G"} ELSE ds.g.ui
    OBVIOUS
  <2>2. PICK g : g = With3(ds.g, "sv", "out", "line", no, "ui", chatsNow)
    OBVIOUS
  <2>3. D!Guild(g)
    <3>1. [ds.g EXCEPT !.sv = "out", !.line = FALSE, !.ui = IF ds.g.chans THEN @ \ {"G"} ELSE @] = g
      <4>1. PICK r : r = With2(ds.g, "sv", "out", "line", no)
        OBVIOUS
      <4>2. r["ui"] = ds.g["ui"]
        <5>1. "sv" \in DsG /\ "line" \in DsG /\ "sv" # "line" /\ "ui" \in DsG /\ "ui" \notin {"sv", "line"}
          BY DEF DsG
        <5>2. Only({"sv", "line"}, ds.g, r)
          BY <1>0, <4>1, <5>1, Put2
        <5> QED
          BY <1>0, <5>1, <5>2 DEF Only
      <4>3. [ds.g EXCEPT !.sv = "out", !.line = FALSE, !.ui = IF ds.g.chans THEN @ \ {"G"} ELSE @] =
            [r EXCEPT !.ui = IF ds.g.chans THEN @ \ {"G"} ELSE @]
        BY <1>1, <4>1 DEF With2, With
      <4>4. [r EXCEPT !.ui = IF ds.g.chans THEN @ \ {"G"} ELSE @] = With(r, "ui", chatsNow)
        BY <2>1, <4>2 DEF With
      <4> QED
        BY <2>2, <4>1, <4>3, <4>4 DEF With3
    <3> QED
      BY <1>4, <3>1 DEF D!GuildGone
  <2>4. IsRec(DsG, g) /\ g["sv"] = "out" /\ g["line"] = no /\ g["ui"] = chatsNow /\ Only({"sv", "line", "ui"}, ds.g, g)
    BY <1>0, <2>2, GuildPut3
  <2>5. /\ g.incomplete = ds.g.incomplete /\ g.emo = ds.g.emo /\ g.cache = ds.g.cache /\ g.crossed = ds.g.crossed
        /\ g.missed = ds.g.missed /\ g.destroyed = ds.g.destroyed
    BY <1>0, <2>4 DEF Only, DsG
  <2>6. GRight(g)
    BY <1>0, <1>1, <2>4, <2>5 DEF GRight
  <2> QED
    BY <2>3, <2>4, <2>5, <2>6, GuildMoves
<1>5. CASE D!EmojisChange
  <2>1. PICK n : n = ds.g.emo + 1
    OBVIOUS
  <2>2. PICK crossed \in BOOLEAN : crossed = \E p \in ds.tasks : p.ph = "cached"
    OBVIOUS
  <2>3. PICK g : g = With3(ds.g, "emo", n, "cache", None, "crossed", crossed)
    OBVIOUS
  <2>4. D!Guild(g)
    BY <1>5, <2>1, <2>2, <2>3 DEF D!EmojisChange, With3, With2, With
  <2>5. IsRec(DsG, g) /\ g["emo"] = n /\ g["cache"] = None /\ g["crossed"] = crossed /\ Only({"emo", "cache", "crossed"}, ds.g, g)
    <3>1. "emo" \in DsG /\ "cache" \in DsG /\ "crossed" \in DsG /\ "emo" # "cache" /\ "emo" # "crossed" /\ "cache" # "crossed"
      BY DEF DsG
    <3> QED
      BY <1>0, <2>3, <3>1, Put3
  <2>6. /\ g.incomplete = ds.g.incomplete /\ g.missed = ds.g.missed /\ g.destroyed = ds.g.destroyed /\ g.sv = ds.g.sv /\ g.line = ds.g.line
        /\ g.ui = ds.g.ui
    BY <1>0, <2>5 DEF Only, DsG
  <2>7. GRight(g)
    BY <1>0, <2>5, <2>6 DEF GRight
  <2>8. \A p \in ds.tasks : p.ph = "cached" => g.crossed
    BY <2>2, <2>5
  <2> QED
    BY <2>4, <2>5, <2>6, <2>7, <2>8, GuildMoves
<1>6. ASSUME NEW c, D!ChatFor(c) PROVE DsGuildInv'
  <2>1. PICK chatsNow : chatsNow = ds.g.ui \cup {c}
    OBVIOUS
  <2>2. PICK cache : cache \in {ds.g.cache, ds.g.emo} /\ cache = IF c = "G" /\ ds.g.chans /\ ds.g.cache = None THEN ds.g.emo ELSE ds.g.cache
    OBVIOUS
  <2>3. PICK g : g = With2(ds.g, "ui", chatsNow, "cache", cache)
    OBVIOUS
  <2>4. D!Guild(g)
    <3>1. [ds.g EXCEPT !.ui = @ \cup {c}, !.cache = IF c = "G" /\ ds.g.chans /\ @ = None THEN ds.g.emo ELSE @] = g
      <4>1. PICK r : r = With(ds.g, "ui", chatsNow)
        OBVIOUS
      <4>2. r["cache"] = ds.g["cache"]
        <5>1. "ui" \in DsG /\ "cache" \in DsG /\ "cache" \notin {"ui"}
          BY DEF DsG
        <5>2. Only({"ui"}, ds.g, r)
          BY <1>0, <4>1, <5>1, Put
        <5> QED
          BY <1>0, <5>1, <5>2 DEF Only
      <4>3. [ds.g EXCEPT !.ui = @ \cup {c}, !.cache = IF c = "G" /\ ds.g.chans /\ @ = None THEN ds.g.emo ELSE @] =
            [r EXCEPT !.cache = IF c = "G" /\ ds.g.chans /\ @ = None THEN ds.g.emo ELSE @]
        BY <2>1, <4>1 DEF With
      <4>4. [r EXCEPT !.cache = IF c = "G" /\ ds.g.chans /\ @ = None THEN ds.g.emo ELSE @] = With(r, "cache", cache)
        BY <2>2, <4>2 DEF With
      <4> QED
        BY <2>3, <4>1, <4>3, <4>4 DEF With2
    <3> QED
      BY <1>6, <3>1 DEF D!ChatFor
  <2>5. IsRec(DsG, g) /\ g["ui"] = chatsNow /\ g["cache"] = cache /\ Only({"ui", "cache"}, ds.g, g)
    <3>1. "ui" \in DsG /\ "cache" \in DsG /\ "ui" # "cache"
      BY DEF DsG
    <3> QED
      BY <1>0, <2>3, <3>1, Put2
  <2>6. /\ g.incomplete = ds.g.incomplete /\ g.missed = ds.g.missed /\ g.destroyed = ds.g.destroyed /\ g.sv = ds.g.sv /\ g.line = ds.g.line
        /\ g.emo = ds.g.emo /\ g.crossed = ds.g.crossed
    BY <1>0, <2>5 DEF Only, DsG
  <2>7. GRight(g)
    BY <1>0, <2>1, <2>2, <2>5, <2>6 DEF GRight
  <2> QED
    BY <2>4, <2>5, <2>6, <2>7, GuildMoves
<1>7. ASSUME NEW c, D!DeleteChat(c) PROVE DsGuildInv'
  <2>1. c = "D"
    BY <1>7 DEF D!DeleteChat, D!DeleteAllowed
  <2>2. PICK chatsNow, destroyed : chatsNow = ds.g.ui \ {c} /\ destroyed = ds.g.destroyed \cup {c}
    OBVIOUS
  <2>3. PICK g : g = With2(ds.g, "ui", chatsNow, "destroyed", destroyed)
    OBVIOUS
  <2>4. D!Guild(g)
    <3>1. [ds.g EXCEPT !.ui = @ \ {c}, !.destroyed = @ \cup {c}] = g
      <4>1. PICK r : r = With(ds.g, "ui", chatsNow)
        OBVIOUS
      <4>2. r["destroyed"] = ds.g["destroyed"]
        <5>1. "ui" \in DsG /\ "destroyed" \in DsG /\ "destroyed" \notin {"ui"}
          BY DEF DsG
        <5>2. Only({"ui"}, ds.g, r)
          BY <1>0, <4>1, <5>1, Put
        <5> QED
          BY <1>0, <5>1, <5>2 DEF Only
      <4>3. [ds.g EXCEPT !.ui = @ \ {c}, !.destroyed = @ \cup {c}] = [r EXCEPT !.destroyed = @ \cup {c}]
        BY <2>2, <4>1 DEF With
      <4>4. [r EXCEPT !.destroyed = @ \cup {c}] = With(r, "destroyed", destroyed)
        BY <2>2, <4>2 DEF With
      <4> QED
        BY <2>3, <4>1, <4>3, <4>4 DEF With2
    <3> QED
      BY <1>7, <3>1 DEF D!DeleteChat
  <2>5. IsRec(DsG, g) /\ g["ui"] = chatsNow /\ g["destroyed"] = destroyed /\ Only({"ui", "destroyed"}, ds.g, g)
    <3>1. "ui" \in DsG /\ "destroyed" \in DsG /\ "ui" # "destroyed"
      BY DEF DsG
    <3> QED
      BY <1>0, <2>3, <3>1, Put2
  <2>6. /\ g.incomplete = ds.g.incomplete /\ g.missed = ds.g.missed /\ g.sv = ds.g.sv /\ g.line = ds.g.line
        /\ g.emo = ds.g.emo /\ g.crossed = ds.g.crossed /\ g.cache = ds.g.cache
    BY <1>0, <2>5 DEF Only, DsG
  <2>7. GRight(g)
    BY <1>0, <2>1, <2>2, <2>5, <2>6 DEF GRight
  <2> QED
    BY <2>4, <2>5, <2>6, <2>7, GuildMoves
<1> QED
  BY <1>2, <1>3, <1>4, <1>5, <1>6, <1>7

\* The list of the chats under way, from one of its calls to the next.
LEMMA ListPh ==
    ASSUME NEW p, IsRec(DsList, p), NEW u, NEW q, q = With(p, "ph", u)
    PROVE  IsRec(DsList, q) /\ q.ph = u /\ q.k = p.k /\ q.guild = p.guild /\ q.complete = p.complete /\ q.emo = p.emo
<1>1. DsList = {"k", "ph", "guild", "complete", "emo"} /\ DOMAIN p = DsList
  BY RecDomain DEF DsList
<1>2. IsRec(DsList, q)
  <2>1. "ph" \in DsList
    BY <1>1
  <2> QED
    BY <2>1, Put
<1> QED
  BY <1>1, <1>2 DEF With

LEMMA ListGuild ==
    ASSUME NEW p, IsRec(DsList, p), NEW v, NEW q, q = With(p, "guild", v)
    PROVE  IsRec(DsList, q) /\ q.guild = v /\ q.k = p.k /\ q.ph = p.ph /\ q.complete = p.complete /\ q.emo = p.emo
<1>1. DsList = {"k", "ph", "guild", "complete", "emo"} /\ DOMAIN p = DsList
  BY RecDomain DEF DsList
<1>2. IsRec(DsList, q)
  <2>1. "guild" \in DsList
    BY <1>1
  <2> QED
    BY <2>1, Put
<1> QED
  BY <1>1, <1>2 DEF With

LEMMA ListComplete ==
    ASSUME NEW p, IsRec(DsList, p), NEW v, NEW q, q = With(p, "complete", v)
    PROVE  IsRec(DsList, q) /\ q.complete = v /\ q.k = p.k /\ q.ph = p.ph /\ q.guild = p.guild /\ q.emo = p.emo
<1>1. DsList = {"k", "ph", "guild", "complete", "emo"} /\ DOMAIN p = DsList
  BY RecDomain DEF DsList
<1>2. IsRec(DsList, q)
  <2>1. "complete" \in DsList
    BY <1>1
  <2> QED
    BY <2>1, Put
<1> QED
  BY <1>1, <1>2 DEF With

LEMMA ListEmo ==
    ASSUME NEW p, IsRec(DsList, p), NEW v, NEW q, q = With(p, "emo", v)
    PROVE  IsRec(DsList, q) /\ q.emo = v /\ q.k = p.k /\ q.ph = p.ph /\ q.guild = p.guild /\ q.complete = p.complete
<1>1. DsList = {"k", "ph", "guild", "complete", "emo"} /\ DOMAIN p = DsList
  BY RecDomain DEF DsList
<1>2. IsRec(DsList, q)
  <2>1. "emo" \in DsList
    BY <1>1
  <2> QED
    BY <2>1, Put
<1> QED
  BY <1>1, <1>2 DEF With

\* The list p goes on as q, or ends.
LEMMA ListMoves ==
    ASSUME DsShape, DsGuildInv, ds.scene = "guilds", NEW g, IsRec(DsG, g), GRight(g), NEW S,
           \A q \in S : ListRight(q, g), ds' = With2(ds, "tasks", S, "g", g) \/ (g = ds.g /\ ds' = With(ds, "tasks", S))
    PROVE  DsGuildInv'
<1>1. ds'.g = g /\ ds'.tasks = S /\ ds'.scene = "guilds"
  <2>1. CASE ds' = With2(ds, "tasks", S, "g", g)
    BY <2>1, DsTwo
  <2>2. CASE g = ds.g /\ ds' = With(ds, "tasks", S)
    BY <2>2, DsOne
  <2> QED
    BY <2>1, <2>2
<1> QED
  BY <1>1 DEF DsGuildInv, DsTasksInv

LEMMA DsGuildListed == ASSUME DsShape, DsGuildInv, ds.scene = "guilds", NEW p \in ds.tasks, D!DialogsGo(p)
                       PROVE  DsGuildInv'
<1>0. IsRec(DsG, ds.g) /\ GRight(ds.g) /\ DOMAIN ds.g = DsG /\ ListRight(p, ds.g)
  BY RecDomain DEF DsGuildInv, DsTasksInv
<1>1. /\ IsRec(DsList, p) /\ p.ph \in {"guilds", "chans", "emojis", "cached", "post"} /\ p.k = "list"
      /\ p.guild \in BOOLEAN /\ p.complete \in BOOLEAN
  BY <1>0 DEF ListRight
<1>3. CASE p.ph = "guilds"
  <2>1. CASE D!Goes([ds EXCEPT !.tasks = {}])
    <3>1. PICK none : none = {}
      OBVIOUS
    <3>2. ds' = With(ds, "tasks", none) /\ \A y \in none : ListRight(y, ds.g)
      BY <2>1, <3>1 DEF D!Goes, With
    <3> QED
      BY <1>0, <3>2, ListMoves
  <2>2. CASE D!Goes([ds EXCEPT !.tasks = {[p EXCEPT !.ph = "chans", !.guild = ds.g.line]},
                                              !.g.missed = @ \/ (~ds.g.line /\ ~ds.g.incomplete)])
    <3>1. PICK missed \in BOOLEAN : missed = (ds.g.missed \/ (~ds.g.line /\ ~ds.g.incomplete))
      OBVIOUS
    <3>0. PICK z : z = With(p, "ph", "chans")
      OBVIOUS
    <3>2. PICK q : q = With(z, "guild", ds.g.line)
      OBVIOUS
    <3>3. PICK g : g = With(ds.g, "missed", missed)
      OBVIOUS
    <3>4. IsRec(DsG, g) /\ g["missed"] = missed /\ Only({"missed"}, ds.g, g)
      <4>1. "missed" \in DsG
        BY DEF DsG
      <4> QED
        BY <1>0, <3>3, <4>1, Put
    <3>5. /\ g.incomplete = ds.g.incomplete /\ g.ui = ds.g.ui /\ g.destroyed = ds.g.destroyed /\ g.sv = ds.g.sv /\ g.line = ds.g.line
          /\ g.emo = ds.g.emo /\ g.crossed = ds.g.crossed /\ g.cache = ds.g.cache
      BY <1>0, <3>4 DEF Only, DsG
    <3>6. GRight(g)
      BY <1>0, <3>1, <3>4, <3>5 DEF GRight
    <3>7. IsRec(DsList, q) /\ q.ph = "chans" /\ q.guild = ds.g.line /\ q.k = p.k /\ q.complete = p.complete
      <4>1. IsRec(DsList, z) /\ z.ph = "chans" /\ z.k = p.k /\ z.complete = p.complete
        BY <1>1, <3>0, ListPh
      <4>2. PICK told : told = ds.g.line
        OBVIOUS
      <4>3. q = With(z, "guild", told)
        BY <3>2, <4>2
      <4>4. IsRec(DsList, q) /\ q.guild = told /\ q.k = z.k /\ q.ph = z.ph /\ q.complete = z.complete
        BY <4>1, <4>3, ListGuild
      <4> QED
        BY <4>1, <4>2, <4>4
    <3>8. ListRight(q, g)
      BY <1>0, <1>1, <3>1, <3>4, <3>5, <3>7 DEF ListRight, GRight
    <3>9. ds' = With2(ds, "tasks", {q}, "g", g)
      <4>1. PICK r : r = With(ds, "tasks", {q})
        OBVIOUS
      <4>2. r.g = ds.g
        BY <4>1, DsOne
      <4>3. ds' = [r EXCEPT !.g = [r.g EXCEPT !.missed = @ \/ (~ds.g.line /\ ~ds.g.incomplete)]]
        BY <2>2, <3>0, <3>2, <4>1 DEF D!Goes, With
      <4>4. [r.g EXCEPT !.missed = @ \/ (~ds.g.line /\ ~ds.g.incomplete)] = g
        BY <3>1, <3>3, <4>2 DEF With
      <4> QED
        BY <4>1, <4>3, <4>4 DEF With2, With
    <3>10. \A y \in {q} : ListRight(y, g)
      BY <3>8
    <3> QED
      BY <3>4, <3>6, <3>9, <3>10, ListMoves
  <2> QED
    BY <1>3, <2>1, <2>2 DEF D!DialogsGo
<1>4. CASE p.ph = "chans"
  <2>1. PICK ok \in BOOLEAN : D!Goes(D!Listed(p, "emojis", ok /\ ds.g.chans))
    BY <1>4 DEF D!DialogsGo
  <2>2. PICK chans \in BOOLEAN : chans = (ok /\ ds.g.chans)
    OBVIOUS
  <2>3. PICK guild \in BOOLEAN, complete \in BOOLEAN : guild = (p.guild /\ chans) /\ complete = (p.complete /\ (p.guild => chans))
    BY <1>1
  <2>4. PICK r : r = With(p, "ph", "emojis")
    OBVIOUS
  <2>8. PICK s : s = With(r, "guild", guild)
    OBVIOUS
  <2>9. PICK q : q = With(s, "complete", complete)
    OBVIOUS
  <2>10. IsRec(DsList, r) /\ r.ph = "emojis" /\ r.k = p.k /\ r.guild = p.guild /\ r.complete = p.complete
    BY <1>1, <2>4, ListPh
  <2>11. IsRec(DsList, s) /\ s.guild = guild /\ s.ph = r.ph /\ s.k = r.k /\ s.complete = r.complete
    BY <2>8, <2>10, ListGuild
  <2>12. IsRec(DsList, q) /\ q.complete = complete /\ q.guild = s.guild /\ q.ph = s.ph /\ q.k = s.k
    BY <2>9, <2>11, ListComplete
  <2>5. D!Goes([ds EXCEPT !.tasks = {q}])
    <3>3. [p EXCEPT !.ph = "emojis", !.guild = @ /\ chans, !.complete = @ /\ (p.guild => chans)] =
          [[r EXCEPT !.guild = @ /\ chans] EXCEPT !.complete = @ /\ (p.guild => chans)]
      BY <2>4 DEF With
    <3>5. [r EXCEPT !.guild = @ /\ chans] = s
      BY <2>10, <2>8, <2>3 DEF With
    <3>7. [s EXCEPT !.complete = @ /\ (p.guild => chans)] = q
      BY <2>9, <2>10, <2>11, <2>3 DEF With
    <3>8. D!Listed(p, "emojis", ok /\ ds.g.chans) = [ds EXCEPT !.tasks = {q}]
      BY <2>2, <3>3, <3>5, <3>7 DEF D!Listed
    <3> QED
      BY <2>1, <3>8
  <2>6. IsRec(DsList, q) /\ q.ph = "emojis" /\ q.guild = guild /\ q.complete = complete /\ q.k = p.k
    BY <2>10, <2>11, <2>12
  <2>7. ListRight(q, ds.g)
    BY <1>0, <1>1, <1>4, <2>3, <2>6 DEF ListRight
  <2>13. ds' = With(ds, "tasks", {q}) /\ \A y \in {q} : ListRight(y, ds.g)
    BY <2>5, <2>7 DEF D!Goes, With
  <2> QED
    BY <1>0, <2>13, ListMoves
<1>5. CASE p.ph = "emojis"
  <2>1. D!Goes([ds EXCEPT !.tasks = {[p EXCEPT !.ph = "cached", !.emo = IF p.guild /\ ds.g.cache = None THEN ds.g.emo ELSE None]}])
    BY <1>5 DEF D!DialogsGo
  <2>2. PICK emo \in {ds.g.emo, None} : emo = IF p.guild /\ ds.g.cache = None THEN ds.g.emo ELSE None
    OBVIOUS
  <2>7. PICK r : r = With(p, "ph", "cached")
    OBVIOUS
  <2>3. PICK q : q = With(r, "emo", emo)
    OBVIOUS
  <2>4. D!Goes([ds EXCEPT !.tasks = {q}])
    BY <2>1, <2>2, <2>3, <2>7 DEF With
  <2>8. IsRec(DsList, r) /\ r.ph = "cached" /\ r.k = p.k /\ r.guild = p.guild /\ r.complete = p.complete
    BY <1>1, <2>7, ListPh
  <2>5. IsRec(DsList, q) /\ q.ph = "cached" /\ q.emo = emo /\ q.k = p.k /\ q.complete = p.complete /\ q.guild = p.guild
    <3>1. IsRec(DsList, q) /\ q.emo = emo /\ q.ph = r.ph /\ q.k = r.k /\ q.complete = r.complete /\ q.guild = r.guild
      BY <2>3, <2>8, ListEmo
    <3> QED
      BY <2>8, <3>1
  <2>6. ListRight(q, ds.g)
    BY <1>0, <1>1, <1>5, <2>2, <2>5 DEF ListRight
  <2>9. ds' = With(ds, "tasks", {q}) /\ \A y \in {q} : ListRight(y, ds.g)
    BY <2>4, <2>6 DEF D!Goes, With
  <2> QED
    BY <1>0, <2>9, ListMoves
<1>6. CASE p.ph = "cached"
  <2>1. D!Goes([ds EXCEPT !.tasks = {[p EXCEPT !.ph = "post"]}, !.g.cache = IF p.emo = None THEN @ ELSE p.emo])
    BY <1>6 DEF D!DialogsGo
  <2>2. PICK cache : cache = IF p.emo = None THEN ds.g.cache ELSE p.emo
    OBVIOUS
  <2>3. PICK q : q = With(p, "ph", "post")
    OBVIOUS
  <2>4. PICK g : g = With(ds.g, "cache", cache)
    OBVIOUS
  <2>5. IsRec(DsG, g) /\ g["cache"] = cache /\ Only({"cache"}, ds.g, g)
    <3>1. "cache" \in DsG
      BY DEF DsG
    <3> QED
      BY <1>0, <2>4, <3>1, Put
  <2>6. /\ g.incomplete = ds.g.incomplete /\ g.ui = ds.g.ui /\ g.destroyed = ds.g.destroyed /\ g.sv = ds.g.sv /\ g.line = ds.g.line
        /\ g.emo = ds.g.emo /\ g.crossed = ds.g.crossed /\ g.missed = ds.g.missed
    BY <1>0, <2>5 DEF Only, DsG
  <2>7. GRight(g)
    BY <1>0, <1>6, <2>2, <2>5, <2>6 DEF GRight, ListRight
  <2>8. IsRec(DsList, q) /\ q.ph = "post" /\ q.k = p.k /\ q.complete = p.complete /\ q.guild = p.guild
    BY <1>1, <2>3, ListPh
  <2>9. ListRight(q, g)
    BY <1>0, <1>1, <1>6, <2>6, <2>8 DEF ListRight
  <2>10. ds' = With2(ds, "tasks", {q}, "g", g)
    <3>1. PICK r : r = With(ds, "tasks", {q})
      OBVIOUS
    <3>2. r.g = ds.g
      BY <3>1, DsOne
    <3>3. ds' = [r EXCEPT !.g = [r.g EXCEPT !.cache = IF p.emo = None THEN @ ELSE p.emo]]
      BY <2>1, <2>3, <3>1 DEF D!Goes, With
    <3>4. [r.g EXCEPT !.cache = IF p.emo = None THEN @ ELSE p.emo] = g
      BY <2>2, <2>4, <3>2 DEF With
    <3> QED
      BY <3>1, <3>3, <3>4 DEF With2, With
  <2> QED
    BY <2>5, <2>7, <2>9, <2>10, ListMoves
<1>7. CASE p.ph = "post"
  <2>1. PICK listed : listed = IF p.guild THEN {"D", "G"} ELSE {"D"}
    OBVIOUS
  <2>2. D!Goes([ds EXCEPT !.tasks = {}, !.g.ui = IF p.complete /\ ~D!ReadyIncomplete(ds.g) THEN listed ELSE @ \cup listed])
    BY <1>7, <2>1 DEF D!DialogsGo
  <2>3. PICK chatsNow : chatsNow = IF p.complete /\ ~ds.g.incomplete THEN listed ELSE ds.g.ui \cup listed
    OBVIOUS
  <2>4. PICK g : g = With(ds.g, "ui", chatsNow)
    OBVIOUS
  <2>5. IsRec(DsG, g) /\ g["ui"] = chatsNow /\ Only({"ui"}, ds.g, g)
    <3>1. "ui" \in DsG
      BY DEF DsG
    <3> QED
      BY <1>0, <2>4, <3>1, Put
  <2>6. /\ g.incomplete = ds.g.incomplete /\ g.cache = ds.g.cache /\ g.destroyed = ds.g.destroyed /\ g.sv = ds.g.sv /\ g.line = ds.g.line
        /\ g.emo = ds.g.emo /\ g.crossed = ds.g.crossed /\ g.missed = ds.g.missed
    BY <1>0, <2>5 DEF Only, DsG
  <2>7. (ds.g.sv # "out" /\ ~ds.g.missed) => "G" \in chatsNow
    <3>1. CASE p.complete /\ ~ds.g.incomplete /\ ~ds.g.missed
      <4>1. p.guild
        BY <1>0, <1>7, <3>1 DEF ListRight
      <4> QED
        BY <2>1, <2>3, <3>1, <4>1
    <3>2. CASE ~(p.complete /\ ~ds.g.incomplete)
      BY <1>0, <2>3, <3>2 DEF GRight
    <3> QED
      BY <3>1, <3>2
  <2>8. GRight(g)
    BY <1>0, <2>5, <2>6, <2>7 DEF GRight
  <2>9. ds' = With2(ds, "tasks", {}, "g", g)
    <3>1. PICK r : r = With(ds, "tasks", {})
      OBVIOUS
    <3>2. r.g = ds.g
      BY <3>1, DsOne
    <3>3. ds' = [r EXCEPT !.g = [r.g EXCEPT !.ui = IF p.complete /\ ~ds.g.incomplete THEN listed ELSE @ \cup listed]]
      BY <2>2, <3>1 DEF D!Goes, D!ReadyIncomplete, With
    <3>4. [r.g EXCEPT !.ui = IF p.complete /\ ~ds.g.incomplete THEN listed ELSE @ \cup listed] = g
      BY <2>3, <2>4, <3>2 DEF With
    <3> QED
      BY <3>1, <3>3, <3>4 DEF With2, With
  <2> QED
    BY <2>5, <2>8, <2>9, ListMoves
<1> QED
  BY <1>1, <1>3, <1>4, <1>5, <1>6, <1>7

LEMMA DsGuildAsked == ASSUME DsShape, DsGuildInv, D!LoadDialogs PROVE DsGuildInv'
<1>1. PICK no, yes : no = FALSE /\ yes = TRUE
  OBVIOUS
<1>2. PICK p : p = [k |-> "list", ph |-> "guilds", guild |-> no, complete |-> yes, emo |-> None]
  OBVIOUS
<1>3. ds' = With(ds, "tasks", {p}) /\ ds.scene = "guilds"
  BY <1>1, <1>2 DEF D!LoadDialogs, D!Does, D!In, With
<1>4. ListRight(p, ds.g)
  BY <1>1, <1>2 DEF ListRight, IsRec, DsList
<1> QED
  BY <1>3, <1>4, ListMoves DEF DsGuildInv

\* In the scene of the guilds only a list is under way, in the others none.
LEMMA DsPageTasks == ASSUME DsShape, DsGuildInv, DsPageStep PROVE DsGuildInv'
<1>1. ds.scene # "guilds"
  <2>1. ASSUME ds.scene = "guilds" PROVE \A p \in ds.tasks : p.k = "list"
    BY <2>1 DEF DsGuildInv, DsTasksInv, ListRight
  <2>2. ASSUME NEW older, D!LoadHistory(older) PROVE ds.scene = "live"
    BY <2>2 DEF D!LoadHistory, D!In
  <2>3. ASSUME NEW id, D!React(id) PROVE ds.scene = "live"
    BY <2>3 DEF D!React, D!In
  <2>4. ASSUME NEW p, D!HistoryGoes(p) PROVE p.k = "page"
    BY <2>4 DEF D!HistoryGoes
  <2>5. ASSUME NEW p, D!ReactGoes(p) PROVE p.k = "react"
    BY <2>5 DEF D!ReactGoes
  <2> QED
    BY <2>1, <2>2, <2>3, <2>4, <2>5 DEF DsPageStep
<1>2. \A p \in ds.tasks : p.k \in {"page", "react"} /\ IsRec(DsPage, p)
  BY <1>1 DEF DsGuildInv, DsTasksInv
<1>3. ds'.g = ds.g /\ ds'.scene = ds.scene
  BY DsPageFrame, RecDomain DEF DsIn, Within, Only, DsLiveFields, DsFields, DsShape
<1> DEFINE Fine(S) == \A p \in S : p.k \in {"page", "react"} /\ IsRec(DsPage, p)
<1>4. Fine(ds'.tasks)
  <2>1. ASSUME NEW S, Fine(S), NEW next, DOMAIN next = DsFields, next.tasks = S, D!Goes(next) \/ D!Does(next) PROVE Fine(ds'.tasks)
    BY <2>1 DEF D!Goes, D!Does
  <2>2. DOMAIN ds = DsFields /\ "tasks" \in DsFields /\ "raced" \in DsFields /\ "store" \in DsFields /\ "ui" \in DsFields
        /\ "sv" \in DsFields /\ "ups" \in DsFields /\ "still" \in DsFields
    BY RecDomain DEF DsShape, DsFields
  <2>3. Fine({}) /\ \A S : (S \subseteq ds.tasks) => Fine(S)
    BY <1>2
  <2>4. ASSUME NEW p \in ds.tasks, NEW ph PROVE Fine((ds.tasks \ {p}) \cup {[p EXCEPT !.ph = ph]})
    <3>1. [p EXCEPT !.ph = ph].k = p.k /\ IsRec(DsPage, [p EXCEPT !.ph = ph])
      BY <1>2 DEF IsRec, DsPage
    <3> QED
      BY <1>2, <3>1
  <2>5. ASSUME NEW older, D!LoadHistory(older) PROVE Fine(ds'.tasks)
    <3>1. PICK p : p = D!DTask("page", older, "asked", None)
      OBVIOUS
    <3>2. ds'.tasks = ds.tasks \cup {p}
      BY <2>2, <2>5, <3>1 DEF D!LoadHistory, D!Does
    <3>3. p.k = "page" /\ IsRec(DsPage, p)
      BY <3>1 DEF IsRec, DsPage, D!DTask
    <3> QED
      BY <1>2, <3>2, <3>3
  <2>6. ASSUME NEW id, D!React(id) PROVE Fine(ds'.tasks)
    <3>1. PICK p : p = D!DTask("react", FALSE, "read", id)
      OBVIOUS
    <3>2. ds'.tasks = ds.tasks \cup {p}
      BY <2>2, <2>6, <3>1 DEF D!React, D!Does
    <3>3. p.k = "react" /\ IsRec(DsPage, p)
      BY <3>1 DEF IsRec, DsPage, D!DTask
    <3> QED
      BY <1>2, <3>2, <3>3
  <2>7. ASSUME NEW p \in ds.tasks, D!HistoryGoes(p) PROVE Fine(ds'.tasks)
    <3>1. \/ ds'.tasks = ds.tasks \ {p}
          \/ \E ms : ds'.tasks = (ds.tasks \ {p}) \cup {D!Got(p, ms)}
          \/ ds'.tasks = (ds.tasks \ {p}) \cup {[p EXCEPT !.set = @ + 1]}
      <4>1. ASSUME NEW v, D!Goes([ds EXCEPT !.tasks = v]) PROVE ds'.tasks = v
        BY <2>2, <4>1 DEF D!Goes
      <4>2. ASSUME NEW next, NEW u, NEW w, D!Goes([D!Step(p, next) EXCEPT !.still = u, !.raced = w])
            PROVE  ds'.tasks = (ds.tasks \ {p}) \cup {next}
        BY <2>2, <4>2 DEF D!Goes, D!Step
      <4>3. ASSUME NEW v, NEW w, D!Goes([ds EXCEPT !.tasks = v, !.ui = w]) PROVE ds'.tasks = v
        BY <2>2, <4>3 DEF D!Goes
      <4>4. ASSUME NEW next, NEW v, D!Goes([D!Step(p, next) EXCEPT !.store = v])
            PROVE  ds'.tasks = (ds.tasks \ {p}) \cup {next}
        BY <2>2, <4>4 DEF D!Goes, D!Step
      <4>5. \/ D!Goes([ds EXCEPT !.tasks = @ \ {p}])
            \/ \E ms, u, w : D!Goes([D!Step(p, D!Got(p, ms)) EXCEPT !.still = u, !.raced = w])
            \/ \E v : D!Goes([D!Step(p, [p EXCEPT !.set = @ + 1]) EXCEPT !.store = v])
            \/ \E w : D!Goes([ds EXCEPT !.tasks = @ \ {p}, !.ui = w])
        BY <2>7, Zenon DEF D!HistoryGoes
      <4> QED
        BY <4>1, <4>2, <4>3, <4>4, <4>5
    <3>2. ASSUME NEW ms PROVE Fine((ds.tasks \ {p}) \cup {D!Got(p, ms)})
      <4>1. D!Got(p, ms).k = p.k /\ IsRec(DsPage, D!Got(p, ms))
        BY <1>2 DEF IsRec, DsPage, D!Got
      <4> QED
        BY <1>2, <4>1
    <3>3. ds.tasks \ {p} \subseteq ds.tasks
      OBVIOUS
    <3>4. CASE ds'.tasks = ds.tasks \ {p}
      BY <3>3, <3>4, <2>3
    <3>5. CASE \E ms : ds'.tasks = (ds.tasks \ {p}) \cup {D!Got(p, ms)}
      BY <3>2, <3>5
    <3>6. CASE ds'.tasks = (ds.tasks \ {p}) \cup {[p EXCEPT !.set = @ + 1]}
      <4>1. [p EXCEPT !.set = @ + 1].k = p.k /\ IsRec(DsPage, [p EXCEPT !.set = @ + 1])
        BY <1>2 DEF IsRec, DsPage
      <4> QED
        BY <1>2, <3>6, <4>1
    <3> QED
      BY <3>1, <3>4, <3>5, <3>6
  <2>8. ASSUME NEW p \in ds.tasks, D!ReactGoes(p) PROVE Fine(ds'.tasks)
    <3>1. \/ ds'.tasks = ds.tasks \ {p}
          \/ \E ph : ds'.tasks = (ds.tasks \ {p}) \cup {[p EXCEPT !.ph = ph]}
      <4>1. ASSUME NEW v, D!Goes([ds EXCEPT !.tasks = v]) PROVE ds'.tasks = v
        BY <2>2, <4>1 DEF D!Goes
      <4>2. ASSUME NEW v, NEW w, NEW u, D!Goes([ds EXCEPT !.tasks = v, !.sv = w, !.ups = u]) PROVE ds'.tasks = v
        BY <2>2, <4>2 DEF D!Goes
      <4>3. ASSUME NEW next, D!Goes(D!Step(p, next)) PROVE ds'.tasks = (ds.tasks \ {p}) \cup {next}
        BY <2>2, <4>3 DEF D!Goes, D!Step
      <4>4. \/ D!Goes([ds EXCEPT !.tasks = @ \ {p}])
            \/ \E ph : D!Goes(D!Step(p, [p EXCEPT !.ph = ph]))
            \/ \E w, u : D!Goes([ds EXCEPT !.tasks = @ \ {p}, !.sv = w, !.ups = u])
        BY <2>8, Zenon DEF D!ReactGoes
      <4> QED
        BY <4>1, <4>2, <4>3, <4>4
    <3>2. ds.tasks \ {p} \subseteq ds.tasks
      OBVIOUS
    <3> QED
      BY <3>1, <3>2, <2>3, <2>4
  <2> QED
    BY <2>5, <2>6, <2>7, <2>8 DEF DsPageStep
<1> QED
  BY <1>1, <1>3, <1>4 DEF DsGuildInv, DsTasksInv

LEMMA DsGuildKept == ASSUME DsShape, DsGuildInv, DsGuildStep PROVE DsGuildInv' /\ DsIn(DsGuildFields, ds, ds') /\ ds.scene = "guilds"
<1>1. \A p \in ds.tasks : p.k = "list" => p.ph \in {"guilds", "chans", "emojis", "cached", "post"}
  BY DEF DsGuildInv, DsTasksInv, ListRight
<1>2. DsIn(DsGuildFields, ds, ds')
  BY <1>1, DsGuildFrame
<1>3. ds.scene = "guilds"
  <2>1. ASSUME NEW v, D!Guild(v) PROVE ds.scene = "guilds"
    BY <2>1 DEF D!Guild, D!In
  <2>2. CASE D!LoadDialogs
    BY <2>2 DEF D!LoadDialogs, D!In
  <2>3. ASSUME NEW p \in ds.tasks, D!DialogsGo(p) PROVE ds.scene = "guilds"
    <3>1. p.k = "list"
      BY <2>3 DEF D!DialogsGo
    <3> QED
      BY <3>1 DEF DsGuildInv, DsTasksInv
  <2> QED
    BY <2>1, <2>2, <2>3, Zenon DEF DsGuildStep, D!Outage, D!Back, D!GuildGone, D!EmojisChange, D!ChatFor, D!DeleteChat
<1>4. CASE \E p \in ds.tasks : D!DialogsGo(p)
  BY <1>2, <1>3, <1>4, DsGuildListed
<1>5. CASE D!LoadDialogs
  BY <1>2, <1>3, <1>5, DsGuildAsked
<1>6. CASE D!Outage \/ D!Back \/ D!GuildGone \/ D!EmojisChange \/ (\E c \in {"G", "T"} : D!ChatFor(c)) \/ (\E c \in {"D", "G", "T"} : D!DeleteChat(c))
  BY <1>2, <1>3, <1>6, DsGuildServer
<1> QED
  BY <1>2, <1>3, <1>4, <1>5, <1>6 DEF DsGuildStep
-----------------------------------------------------------------------------
(* The live events of Discord: what is still on its way to the store and   *)
(* to the screen.                                                          *)
Who == {"me", "other"}
DsMsg == [id : Int, reacts : SUBSET Who]
DsUp == {up \in [k : {"create", "delete", "add", "remove", "clear"}, id : Int, who : Who \cup {None}] :
           up.k \in {"add", "remove"} => up.who \in Who}
DsPages == [k : {"page"}, older : BOOLEAN, ph : {"asked", "got"}, ms : Seq(DsMsg), set : Nat, fits : BOOLEAN, add : {None}]

\* An event says if a person reacts to a message; no event on its way does.
About(up, id, who) == up.id = id /\ (up.k \in {"add", "remove"} => up.who = who)
NoneAbout(ups, id, who) == \A i \in DOMAIN ups : ~About(ups[i], id, who)
\* Reactions are those of the server, but for the events on their way.
Fresh(r, id, sv, ups) == \A who \in Who : NoneAbout(ups, id, who) => (who \in r <=> who \in sv[id])
\* The last event on its way about a person says what the server has.
EndsRight(ups, sv) == \A i \in DOMAIN ups : \A id \in DOMAIN sv, who \in Who :
    About(ups[i], id, who) /\ (\A j \in DOMAIN ups : j > i => ~About(ups[j], id, who)) => (ups[i].k = "add" <=> who \in sv[id])
\* The copies of a list, of the screen; a message told as new is in none yet.
Copies(ms, sv, ups, raced) == \A i \in DOMAIN ms : ms[i].id \in DOMAIN sv \ raced => Fresh(ms[i].reacts, ms[i].id, sv, ups)
Shown(ui, sv, ups, raced) == \A id \in (DOMAIN ui \cap DOMAIN sv) \ raced : Fresh(ui[id], id, sv, ups)
Unborn(ms, ups, raced) == \A i \in DOMAIN ups : ups[i].k = "create" /\ ups[i].id \notin raced => ~D!Held(ms, ups[i].id)
BornOnce(ups) == \A i, j \in DOMAIN ups : ups[i].k = "create" /\ ups[j].k = "create" /\ ups[i].id = ups[j].id => i = j
Below(ms, top) == \A i \in DOMAIN ms : ms[i].id <= top
ListFine(ms, top, sv, ups, raced) == ms \in Seq(DsMsg) /\ Copies(ms, sv, ups, raced) /\ Unborn(ms, ups, raced) /\ Below(ms, top)
PageFine(p, top, sv, ups, raced) ==
    /\ p \in DsPages /\ p.set <= Len(p.ms) /\ (p.ph = "asked" => p.set = 0 /\ p.ms = <<>>)
    /\ ListFine(p.ms, top, sv, ups, raced)
    /\ \A i, j \in DOMAIN p.ms : i < j => p.ms[i].id > p.ms[j].id
ServerFine(top, sv, ups) ==
    /\ top \in Int
    /\ sv \in [DOMAIN sv -> SUBSET Who] /\ DOMAIN sv \subseteq Int /\ \A id \in DOMAIN sv : id <= top
    /\ ups \in Seq(DsUp) /\ Below(ups, top) /\ EndsRight(ups, sv) /\ BornOnce(ups)
    /\ \A i \in DOMAIN ups : ups[i].k = "delete" => ups[i].id \notin DOMAIN sv
ScreenFine(ui, top, sv, ups, raced) ==
    ui \in [DOMAIN ui -> SUBSET Who] /\ DOMAIN ui \subseteq Int /\ (\A id \in DOMAIN ui : id <= top) /\ Shown(ui, sv, ups, raced)
LiveFine(top, sv, ups, store, ui, raced, tasks) ==
    /\ ServerFine(top, sv, ups) /\ ListFine(store, top, sv, ups, raced) /\ ScreenFine(ui, top, sv, ups, raced)
    /\ \A p \in tasks : p.k = "page" => PageFine(p, top, sv, ups, raced)
    /\ \A p, q \in tasks : p.k = "page" /\ q.k = "page" => p = q

Carries(j, sv, ups, sw, upt) == j \in DOMAIN sv /\ \A x : Fresh(x, j, sv, ups) => Fresh(x, j, sw, upt)
NewBirths(ups, upt, top) == \A i \in DOMAIN upt : upt[i].k = "create" =>
    upt[i].id > top \/ \E l \in DOMAIN ups : ups[l].k = "create" /\ ups[l].id = upt[i].id

LEMMA TailAt == ASSUME NEW S, NEW s \in Seq(S), s # <<>>
    PROVE /\ Tail(s) \in Seq(S) /\ 1 \in DOMAIN s /\ Head(s) = s[1] /\ Head(s) \in S
          /\ \A i \in DOMAIN Tail(s) : i \in Nat /\ i + 1 \in DOMAIN s /\ Tail(s)[i] = s[i + 1]
          /\ \A i \in DOMAIN s : i \in Nat /\ (i # 1 => i - 1 \in DOMAIN Tail(s) /\ Tail(s)[i - 1] = s[i])
  OBVIOUS

LEMMA ElemOf == ASSUME NEW S, NEW s \in Seq(S) PROVE \A i \in DOMAIN s : s[i] \in S
  OBVIOUS

LEMMA IdOfMsg == ASSUME NEW ms \in Seq(DsMsg) PROVE \A i \in DOMAIN ms : ms[i].id \in Int /\ ms[i].reacts \subseteq Who
<1>1. \A m \in DsMsg : m.id \in Int /\ m.reacts \subseteq Who
  BY DEF DsMsg
<1> QED
  BY <1>1, ElemOf

LEMMA IdOfUp == ASSUME NEW ups \in Seq(DsUp) PROVE \A i \in DOMAIN ups : ups[i].id \in Int
<1>1. \A up \in DsUp : up.id \in Int
  BY DEF DsUp
<1> QED
  BY <1>1, ElemOf

LEMMA AboutAppend == ASSUME NEW ups \in Seq(DsUp), NEW up \in DsUp, NEW id, NEW who
                     PROVE  NoneAbout(Append(ups, up), id, who) <=> NoneAbout(ups, id, who) /\ ~About(up, id, who)
  BY AppendAt DEF NoneAbout

LEMMA AboutTail == ASSUME NEW ups \in Seq(DsUp), ups # <<>>, NEW id, NEW who
                   PROVE  NoneAbout(ups, id, who) <=> NoneAbout(Tail(ups), id, who) /\ ~About(Head(ups), id, who)
<1>1. NoneAbout(ups, id, who) => NoneAbout(Tail(ups), id, who) /\ ~About(Head(ups), id, who)
  BY TailAt DEF NoneAbout
<1>2. NoneAbout(Tail(ups), id, who) /\ ~About(Head(ups), id, who) => NoneAbout(ups, id, who)
  <2> SUFFICES ASSUME NoneAbout(Tail(ups), id, who), ~About(Head(ups), id, who), NEW i \in DOMAIN ups PROVE ~About(ups[i], id, who)
    BY DEF NoneAbout
  <2> QED
    BY TailAt DEF NoneAbout
<1> QED
  BY <1>1, <1>2

\* The server changes the reactions of a message, and says so.
LEMMA EventSent ==
    ASSUME NEW top, NEW sv, NEW ups, ServerFine(top, sv, ups), NEW id \in DOMAIN sv, NEW r \in SUBSET Who,
           NEW up \in DsUp, up.id = id, up.k \notin {"create", "delete"},
           \A who \in Who : IF About(up, id, who) THEN up.k = "add" <=> who \in r ELSE who \in r <=> who \in sv[id]
    PROVE  LET sw == D!Show(sv, id, r)
               upt == Append(ups, up)
           IN  /\ ServerFine(top, sw, upt) /\ NewBirths(ups, upt, top)
               /\ DOMAIN sw = DOMAIN sv /\ \A j \in DOMAIN sw : Carries(j, sv, ups, sw, upt)
<1> DEFINE sw == D!Show(sv, id, r)
           upt == Append(ups, up)
<1>1. DOMAIN sw = DOMAIN sv /\ sw \in [DOMAIN sw -> SUBSET Who] /\ sw[id] = r /\ \A j \in DOMAIN sv \ {id} : sw[j] = sv[j]
  BY DEF D!Show, ServerFine
<1>2. ups \in Seq(DsUp) /\ upt \in Seq(DsUp)
  BY AppendAt DEF ServerFine
<1>3. \A j, who : NoneAbout(upt, j, who) <=> NoneAbout(ups, j, who) /\ ~About(up, j, who)
  BY <1>2, AboutAppend
<1>4. ASSUME NEW x, NEW j \in DOMAIN sv, Fresh(x, j, sv, ups) PROVE Fresh(x, j, sw, upt)
  <2> SUFFICES ASSUME NEW who \in Who, NoneAbout(upt, j, who) PROVE who \in x <=> who \in sw[j]
    BY DEF Fresh
  <2>1. NoneAbout(ups, j, who) /\ ~About(up, j, who) /\ (who \in x <=> who \in sv[j])
    BY <1>3, <1>4 DEF Fresh
  <2> QED
    BY <1>1, <2>1
<1>5. EndsRight(upt, sw)
  <2> SUFFICES ASSUME NEW i \in DOMAIN upt, NEW j \in DOMAIN sw, NEW who \in Who, About(upt[i], j, who),
                      \A l \in DOMAIN upt : l > i => ~About(upt[l], j, who)
               PROVE  upt[i].k = "add" <=> who \in sw[j]
    BY DEF EndsRight
  <2>1. CASE i = Len(ups) + 1
    BY <1>1, <1>2, <2>1, AppendAt DEF About
  <2>2. CASE i # Len(ups) + 1
    <3>1. i \in DOMAIN ups /\ upt[i] = ups[i] /\ \A l \in DOMAIN ups : l > i => ~About(ups[l], j, who)
      BY <1>2, <2>2, AppendAt
    <3>2. ~About(up, j, who)
      BY <1>2, <3>1, AppendAt
    <3>3. ups[i].k = "add" <=> who \in sv[j]
      BY <1>1, <3>1 DEF EndsRight, ServerFine
    <3> QED
      BY <1>1, <3>1, <3>2, <3>3
  <2> QED
    BY <2>1, <2>2
<1>6. Below(upt, top) /\ BornOnce(upt) /\ NewBirths(ups, upt, top)
  BY <1>2, AppendAt DEF Below, BornOnce, ServerFine, NewBirths
<1>8. \A i \in DOMAIN upt : upt[i].k = "delete" => upt[i].id \notin DOMAIN sw
  BY <1>1, <1>2, AppendAt DEF ServerFine
<1> HIDE DEF sw, upt
<1>7. ServerFine(top, sw, upt)
  BY <1>1, <1>2, <1>5, <1>6, <1>8 DEF ServerFine
<1> QED
  BY <1>1, <1>4, <1>6, <1>7 DEF sw, upt, Carries

\* A message comes, whose id is above all.
LEMMA EventCreated ==
    ASSUME NEW top, NEW sv, NEW ups, ServerFine(top, sv, ups), NEW up \in DsUp, up.id = top + 1, up.k = "create"
    PROVE  LET sw == D!Show(sv, top + 1, {})
               upt == Append(ups, up)
           IN  /\ ServerFine(top + 1, sw, upt) /\ NewBirths(ups, upt, top)
               /\ \A j \in DOMAIN sw : j <= top => Carries(j, sv, ups, sw, upt)
<1> DEFINE sw == D!Show(sv, top + 1, {})
           upt == Append(ups, up)
<1>1. /\ DOMAIN sw = DOMAIN sv \cup {top + 1} /\ sw \in [DOMAIN sw -> SUBSET Who] /\ sw[top + 1] = {} /\ top + 1 \notin DOMAIN sv
      /\ \A j \in DOMAIN sv : sw[j] = sv[j]
  BY DEF D!Show, ServerFine
<1>2. ups \in Seq(DsUp) /\ upt \in Seq(DsUp) /\ top \in Int /\ top + 1 \in Int /\ DOMAIN sw \subseteq Int
  BY <1>1, AppendAt DEF ServerFine
<1>3. \A j, who : NoneAbout(upt, j, who) <=> NoneAbout(ups, j, who) /\ ~About(up, j, who)
  BY <1>2, AboutAppend
<1>4. ASSUME NEW x, NEW j \in DOMAIN sv, Fresh(x, j, sv, ups) PROVE Fresh(x, j, sw, upt)
  <2> SUFFICES ASSUME NEW who \in Who, NoneAbout(upt, j, who) PROVE who \in x <=> who \in sw[j]
    BY DEF Fresh
  <2>1. NoneAbout(ups, j, who) /\ (who \in x <=> who \in sv[j])
    BY <1>3, <1>4 DEF Fresh
  <2> QED
    BY <1>1, <2>1
<1>5. EndsRight(upt, sw)
  <2> SUFFICES ASSUME NEW i \in DOMAIN upt, NEW j \in DOMAIN sw, NEW who \in Who, About(upt[i], j, who),
                      \A l \in DOMAIN upt : l > i => ~About(upt[l], j, who)
               PROVE  upt[i].k = "add" <=> who \in sw[j]
    BY DEF EndsRight
  <2>1. CASE i = Len(ups) + 1
    BY <1>1, <1>2, <2>1, AppendAt DEF About
  <2>2. CASE i # Len(ups) + 1
    <3>1. i \in DOMAIN ups /\ upt[i] = ups[i] /\ \A l \in DOMAIN ups : l > i => ~About(ups[l], j, who)
      BY <1>2, <2>2, AppendAt
    <3>2. j <= top /\ j \in DOMAIN sv
      BY <1>1, <1>2, <3>1 DEF ServerFine, Below, About
    <3>3. ups[i].k = "add" <=> who \in sv[j]
      BY <3>1, <3>2 DEF EndsRight, ServerFine
    <3> QED
      BY <1>1, <3>1, <3>2, <3>3
  <2> QED
    BY <2>1, <2>2
<1>6. Below(upt, top + 1) /\ BornOnce(upt) /\ NewBirths(ups, upt, top)
  <2>1. \A i \in DOMAIN ups : ups[i].id <= top /\ ups[i].id \in Int
    BY <1>2, IdOfUp DEF ServerFine, Below
  <2> QED
    BY <1>2, <2>1, AppendAt DEF Below, BornOnce, ServerFine, NewBirths
<1>7. \A j \in DOMAIN sw : j <= top + 1
  BY <1>1, <1>2 DEF ServerFine
<1>10. \A i \in DOMAIN upt : upt[i].k = "delete" => upt[i].id \notin DOMAIN sw
  <2>1. \A i \in DOMAIN ups : ups[i].id <= top /\ ups[i].id \in Int /\ (ups[i].k = "delete" => ups[i].id \notin DOMAIN sv)
    BY <1>2, IdOfUp DEF ServerFine, Below
  <2> QED
    BY <1>1, <1>2, <2>1, AppendAt
<1> HIDE DEF sw, upt
<1>8. ServerFine(top + 1, sw, upt)
  BY <1>1, <1>2, <1>5, <1>6, <1>7, <1>10 DEF ServerFine
<1>9. \A j \in DOMAIN sw : j <= top => Carries(j, sv, ups, sw, upt)
  BY <1>1, <1>2, <1>4 DEF Carries
<1> QED
  BY <1>6, <1>8, <1>9 DEF sw, upt

LEMMA EventDeleted ==
    ASSUME NEW top, NEW sv, NEW ups, ServerFine(top, sv, ups), NEW id \in DOMAIN sv, NEW up \in DsUp, up.id = id, up.k = "delete"
    PROVE  LET sw == D!Restrict(sv, DOMAIN sv \ {id})
               upt == Append(ups, up)
           IN  /\ ServerFine(top, sw, upt) /\ NewBirths(ups, upt, top)
               /\ \A j \in DOMAIN sw : Carries(j, sv, ups, sw, upt)
<1> DEFINE sw == D!Restrict(sv, DOMAIN sv \ {id})
           upt == Append(ups, up)
<1>1. DOMAIN sw = DOMAIN sv \ {id} /\ sw \in [DOMAIN sw -> SUBSET Who] /\ \A j \in DOMAIN sw : sw[j] = sv[j]
  BY DEF D!Restrict, ServerFine
<1>2. ups \in Seq(DsUp) /\ upt \in Seq(DsUp)
  BY AppendAt DEF ServerFine
<1>3. \A j, who : NoneAbout(upt, j, who) <=> NoneAbout(ups, j, who) /\ ~About(up, j, who)
  BY <1>2, AboutAppend
<1>4. ASSUME NEW x, NEW j \in DOMAIN sw, Fresh(x, j, sv, ups) PROVE Fresh(x, j, sw, upt)
  <2> SUFFICES ASSUME NEW who \in Who, NoneAbout(upt, j, who) PROVE who \in x <=> who \in sw[j]
    BY DEF Fresh
  <2>1. NoneAbout(ups, j, who) /\ (who \in x <=> who \in sv[j])
    BY <1>3, <1>4 DEF Fresh
  <2> QED
    BY <1>1, <2>1
<1>5. EndsRight(upt, sw)
  <2> SUFFICES ASSUME NEW i \in DOMAIN upt, NEW j \in DOMAIN sw, NEW who \in Who, About(upt[i], j, who),
                      \A l \in DOMAIN upt : l > i => ~About(upt[l], j, who)
               PROVE  upt[i].k = "add" <=> who \in sw[j]
    BY DEF EndsRight
  <2>1. i # Len(ups) + 1
    BY <1>1, <1>2, AppendAt DEF About
  <2>2. i \in DOMAIN ups /\ upt[i] = ups[i] /\ \A l \in DOMAIN ups : l > i => ~About(ups[l], j, who)
    BY <1>2, <2>1, AppendAt
  <2>3. ups[i].k = "add" <=> who \in sv[j]
    BY <1>1, <2>2 DEF EndsRight, ServerFine
  <2> QED
    BY <1>1, <2>2, <2>3
<1>6. Below(upt, top) /\ BornOnce(upt) /\ NewBirths(ups, upt, top)
  BY <1>2, AppendAt DEF Below, BornOnce, ServerFine, NewBirths
<1>8. \A i \in DOMAIN upt : upt[i].k = "delete" => upt[i].id \notin DOMAIN sw
  BY <1>1, <1>2, AppendAt DEF ServerFine
<1> HIDE DEF sw, upt
<1>7. ServerFine(top, sw, upt)
  BY <1>1, <1>2, <1>5, <1>6, <1>8 DEF ServerFine
<1> QED
  BY <1>1, <1>4, <1>6, <1>7 DEF sw, upt, Carries

\* What an event that is sent leaves right, or one treated that is not about it.
LEMMA ListKept ==
    ASSUME NEW top, NEW sv, NEW ups, NEW raced, NEW ms, ListFine(ms, top, sv, ups, raced), top \in Int,
           NEW top2 \in Int, top <= top2, NEW sw, NEW upt, NEW raced2, raced \subseteq raced2, NewBirths(ups, upt, top),
           \A i \in DOMAIN ms : ms[i].id \in DOMAIN sw \ raced2 => Carries(ms[i].id, sv, ups, sw, upt)
    PROVE  ListFine(ms, top2, sw, upt, raced2)
<1>1. ms \in Seq(DsMsg) /\ \A i \in DOMAIN ms : ms[i].id \in Int /\ ms[i].id <= top
  BY IdOfMsg DEF ListFine, Below
<1>2. Copies(ms, sw, upt, raced2)
  BY DEF Copies, ListFine, Carries
<1>3. Unborn(ms, upt, raced2)
  <2> SUFFICES ASSUME NEW i \in DOMAIN upt, upt[i].k = "create", upt[i].id \notin raced2, D!Held(ms, upt[i].id) PROVE FALSE
    BY DEF Unborn
  <2>1. upt[i].id <= top
    BY <1>1 DEF D!Held
  <2>2. ~(upt[i].id > top)
    BY <2>1, <1>1 DEF D!Held
  <2>3. PICK l \in DOMAIN ups : ups[l].k = "create" /\ ups[l].id = upt[i].id
    BY <2>2 DEF NewBirths
  <2> QED
    BY <2>3 DEF Unborn, ListFine
<1>4. Below(ms, top2)
  BY <1>1 DEF Below
<1> QED
  BY <1>1, <1>2, <1>3, <1>4 DEF ListFine

LEMMA EventsKept ==
    ASSUME NEW top, NEW sv, NEW ups, NEW store, NEW ui, NEW raced, NEW tasks, LiveFine(top, sv, ups, store, ui, raced, tasks),
           NEW top2, NEW sw, NEW upt, ServerFine(top2, sw, upt), top <= top2, NewBirths(ups, upt, top),
           \A j \in DOMAIN sw : j <= top => Carries(j, sv, ups, sw, upt)
    PROVE  LiveFine(top2, sw, upt, store, ui, raced, tasks)
<1>1. top \in Int /\ top2 \in Int
  BY DEF LiveFine, ServerFine
<1>2. ASSUME NEW ms, ListFine(ms, top, sv, ups, raced) PROVE ListFine(ms, top2, sw, upt, raced)
  <2>1. \A i \in DOMAIN ms : ms[i].id \in DOMAIN sw \ raced => Carries(ms[i].id, sv, ups, sw, upt)
    BY <1>2 DEF ListFine, Below
  <2> QED
    BY <1>1, <1>2, <2>1, ListKept
<1>3. ScreenFine(ui, top2, sw, upt, raced)
  <2>1. \A id \in DOMAIN ui : id \in Int /\ id <= top
    BY DEF LiveFine, ScreenFine
  <2> QED
    BY <1>1, <2>1 DEF LiveFine, ScreenFine, Shown, Carries
<1>4. \A p \in tasks : p.k = "page" => PageFine(p, top2, sw, upt, raced)
  BY <1>2 DEF LiveFine, PageFine
<1> QED
  BY <1>2, <1>3, <1>4 DEF LiveFine

\* The gateway treats the first event.
LEMMA EventTreated ==
    ASSUME NEW top, NEW sv, NEW ups, ServerFine(top, sv, ups), ups # <<>>
    PROVE  /\ Head(ups) \in DsUp /\ Head(ups).id \in Int /\ Head(ups).id <= top
           /\ ServerFine(top, sv, Tail(ups)) /\ NewBirths(ups, Tail(ups), top)
           /\ \A j \in DOMAIN sv : j # Head(ups).id => Carries(j, sv, ups, sv, Tail(ups))
           /\ Head(ups).k = "create" => \A i \in DOMAIN Tail(ups) : Tail(ups)[i].k = "create" => Tail(ups)[i].id # Head(ups).id
<1>1. ups \in Seq(DsUp) /\ Tail(ups) \in Seq(DsUp) /\ Head(ups) \in DsUp
  BY TailAt DEF ServerFine
<1>2. Head(ups).id \in Int /\ Head(ups).id <= top
  BY <1>1, IdOfUp, TailAt DEF ServerFine, Below
<1>3. EndsRight(Tail(ups), sv)
  <2> SUFFICES ASSUME NEW i \in DOMAIN Tail(ups), NEW j \in DOMAIN sv, NEW who \in Who, About(Tail(ups)[i], j, who),
                      \A l \in DOMAIN Tail(ups) : l > i => ~About(Tail(ups)[l], j, who)
               PROVE  Tail(ups)[i].k = "add" <=> who \in sv[j]
    BY DEF EndsRight
  <2>1. i \in Nat /\ i + 1 \in DOMAIN ups /\ ups[i + 1] = Tail(ups)[i]
    BY <1>1, TailAt
  <2>2. \A l \in DOMAIN ups : l > i + 1 => ~About(ups[l], j, who)
    <3> SUFFICES ASSUME NEW l \in DOMAIN ups, l > i + 1 PROVE ~About(ups[l], j, who)
      OBVIOUS
    <3>1. l \in Nat /\ l # 1
      BY <1>1, <2>1, TailAt
    <3>2. l - 1 \in DOMAIN Tail(ups) /\ Tail(ups)[l - 1] = ups[l] /\ l - 1 > i
      BY <1>1, <2>1, <3>1, TailAt
    <3> QED
      BY <3>2
  <2> QED
    BY <2>1, <2>2 DEF EndsRight, ServerFine
<1>4. /\ Below(Tail(ups), top) /\ NewBirths(ups, Tail(ups), top)
      /\ \A i \in DOMAIN Tail(ups) : Tail(ups)[i].k = "delete" => Tail(ups)[i].id \notin DOMAIN sv
  BY <1>1, TailAt DEF Below, NewBirths, ServerFine
<1>5. BornOnce(Tail(ups))
  <2> SUFFICES ASSUME NEW i \in DOMAIN Tail(ups), NEW j \in DOMAIN Tail(ups), Tail(ups)[i].k = "create", Tail(ups)[j].k = "create",
                      Tail(ups)[i].id = Tail(ups)[j].id
               PROVE  i = j
    BY DEF BornOnce
  <2>1. i \in Nat /\ j \in Nat /\ i + 1 \in DOMAIN ups /\ j + 1 \in DOMAIN ups /\ ups[i + 1] = Tail(ups)[i] /\ ups[j + 1] = Tail(ups)[j]
    BY <1>1, TailAt
  <2>2. i + 1 = j + 1
    BY <2>1 DEF BornOnce, ServerFine
  <2> QED
    BY <2>1, <2>2
<1>6. \A j \in DOMAIN sv : j # Head(ups).id => Carries(j, sv, ups, sv, Tail(ups))
  BY <1>1, AboutTail DEF Carries, Fresh, About
<1>7. ASSUME Head(ups).k = "create", NEW i \in DOMAIN Tail(ups), Tail(ups)[i].k = "create" PROVE Tail(ups)[i].id # Head(ups).id
  <2>1. i \in Nat /\ i + 1 \in DOMAIN ups /\ ups[i + 1] = Tail(ups)[i] /\ 1 \in DOMAIN ups /\ ups[1] = Head(ups) /\ i # 0
    BY <1>1, TailAt
  <2>2. i + 1 # 1
    BY <2>1
  <2> QED
    BY <1>7, <2>1, <2>2 DEF BornOnce, ServerFine
<1> QED
  BY <1>1, <1>2, <1>3, <1>4, <1>5, <1>6, <1>7 DEF ServerFine

LEMMA Treated ==
    ASSUME NEW top, NEW sv, NEW ups, ServerFine(top, sv, ups), ups # <<>>, NEW x, Head(ups).id \in DOMAIN sv
    PROVE  /\ Head(ups).k = "create" => Fresh({}, Head(ups).id, sv, Tail(ups))
           /\ Head(ups).k \notin {"create", "delete"} /\ Fresh(x, Head(ups).id, sv, ups)
              => Fresh(D!Applied(Head(ups), x), Head(ups).id, sv, Tail(ups))
<1> DEFINE up == Head(ups)
<1>1. ups \in Seq(DsUp) /\ up \in DsUp /\ 1 \in DOMAIN ups /\ ups[1] = up
  BY TailAt DEF ServerFine
<1>2. ASSUME NEW who \in Who, NoneAbout(Tail(ups), up.id, who), About(up, up.id, who) PROVE up.k = "add" <=> who \in sv[up.id]
  <2>1. \A j \in DOMAIN ups : j > 1 => ~About(ups[j], up.id, who)
    <3> SUFFICES ASSUME NEW j \in DOMAIN ups, j > 1 PROVE ~About(ups[j], up.id, who)
      OBVIOUS
    <3>1. j - 1 \in DOMAIN Tail(ups) /\ Tail(ups)[j - 1] = ups[j]
      BY <1>1, TailAt
    <3> QED
      BY <1>2, <3>1 DEF NoneAbout
  <2> QED
    BY <1>1, <1>2, <2>1 DEF EndsRight, ServerFine
<1>3. up.k \in {"create", "delete", "add", "remove", "clear"}
  BY <1>1 DEF DsUp
<1> HIDE DEF up
<1>4. ASSUME up.k = "create" PROVE Fresh({}, up.id, sv, Tail(ups))
  <2>1. \A who : About(up, up.id, who)
    BY <1>4 DEF About
  <2> QED
    BY <1>2, <1>4, <2>1 DEF Fresh
<1>5. ASSUME up.k \notin {"create", "delete"}, Fresh(x, up.id, sv, ups) PROVE Fresh(D!Applied(up, x), up.id, sv, Tail(ups))
  <2> SUFFICES ASSUME NEW who \in Who, NoneAbout(Tail(ups), up.id, who) PROVE who \in D!Applied(up, x) <=> who \in sv[up.id]
    BY DEF Fresh
  <2>1. CASE About(up, up.id, who)
    <3>1. up.k = "add" <=> who \in sv[up.id]
      BY <1>2, <2>1
    <3>2. up.k \in {"add", "remove"} => up.who = who
      BY <2>1 DEF About
    <3> QED
      BY <1>3, <1>5, <3>1, <3>2 DEF D!Applied
  <2>2. CASE ~About(up, up.id, who)
    <3>1. up.k \in {"add", "remove"} /\ up.who # who
      BY <2>2 DEF About
    <3>2. NoneAbout(ups, up.id, who)
      BY <1>1, <2>2, AboutTail DEF up
    <3>3. who \in x <=> who \in sv[up.id]
      BY <1>5, <3>2 DEF Fresh
    <3> QED
      BY <3>1, <3>3 DEF D!Applied
  <2> QED
    BY <2>1, <2>2
<1> QED
  BY <1>4, <1>5 DEF up

LEMMA Changed ==
    ASSUME NEW ms \in Seq(DsMsg), NEW up \in DsUp
    PROVE  /\ D!Change(ms, up) \in Seq(DsMsg) /\ Len(D!Change(ms, up)) = Len(ms) /\ DOMAIN D!Change(ms, up) = DOMAIN ms
           /\ \A i \in DOMAIN ms : /\ D!Change(ms, up)[i].id = ms[i].id
                                   /\ D!Change(ms, up)[i].reacts = IF ms[i].id = up.id THEN D!Applied(up, ms[i].reacts) ELSE ms[i].reacts
<1> DEFINE new == D!Change(ms, up)
<1>1. \A m \in DsMsg, r \in SUBSET Who : [m EXCEPT !.reacts = r] \in DsMsg /\ [m EXCEPT !.reacts = r].id = m.id /\ [m EXCEPT !.reacts = r].reacts = r
  BY DEF DsMsg
<1>2. \A r \in SUBSET Who : D!Applied(up, r) \in SUBSET Who
  BY DEF D!Applied, DsUp
<1>3. \A i \in DOMAIN ms : ms[i] \in DsMsg /\ ms[i].reacts \in SUBSET Who
  BY ElemOf, IdOfMsg
<1>4. DOMAIN new = DOMAIN ms /\ \A i \in DOMAIN ms : new[i] = IF ms[i].id = up.id THEN [ms[i] EXCEPT !.reacts = D!Applied(up, ms[i].reacts)] ELSE ms[i]
  BY DEF D!Change
<1>a. \A i \in DOMAIN ms : D!Applied(up, ms[i].reacts) \in SUBSET Who
  BY <1>2, <1>3
<1>5. ASSUME NEW i \in DOMAIN ms
      PROVE  /\ new[i] \in DsMsg /\ new[i].id = ms[i].id
             /\ new[i].reacts = IF ms[i].id = up.id THEN D!Applied(up, ms[i].reacts) ELSE ms[i].reacts
  <2> DEFINE r == D!Applied(up, ms[i].reacts)
             new2 == [ms[i] EXCEPT !.reacts = r]
  <2>1. ms[i] \in DsMsg /\ r \in SUBSET Who
    BY <1>3, <1>a
  <2>2. new[i] = IF ms[i].id = up.id THEN new2 ELSE ms[i]
    BY <1>4
  <2> HIDE DEF new, r
  <2>3. new2 \in DsMsg /\ new2.id = ms[i].id /\ new2.reacts = r
    BY <1>1, <2>1
  <2> QED
    BY <2>1, <2>2, <2>3 DEF r
<1>6. DOMAIN ms = 1..Len(ms) /\ Len(ms) \in Nat
  OBVIOUS
<1>7. new = [i \in 1..Len(ms) |-> new[i]]
  BY <1>4, <1>6 DEF D!Change
<1> HIDE DEF new
<1>8. new \in Seq(DsMsg) /\ Len(new) = Len(ms)
  BY <1>5, <1>6, <1>7
<1> QED
  BY <1>4, <1>5, <1>8 DEF new

\* A list made of what a list holds and of one message more.
MsgFine(m, top, sv, ups, raced) ==
    /\ m \in DsMsg /\ m.id <= top /\ (m.id \in DOMAIN sv \ raced => Fresh(m.reacts, m.id, sv, ups))
    /\ \A i \in DOMAIN ups : ups[i].k = "create" /\ ups[i].id = m.id => m.id \in raced
From(new, ms, m) == \A i \in DOMAIN new : new[i] = m \/ \E j \in DOMAIN ms : new[i] = ms[j]

LEMMA MsgOf == ASSUME NEW top, NEW sv, NEW ups, NEW raced, NEW ms, ListFine(ms, top, sv, ups, raced), NEW i \in DOMAIN ms
               PROVE  MsgFine(ms[i], top, sv, ups, raced)
  BY ElemOf DEF ListFine, MsgFine, Copies, Below, Unborn, D!Held

LEMMA ListOf == ASSUME NEW top, NEW sv, NEW ups, NEW raced, NEW ms \in Seq(DsMsg), \A i \in DOMAIN ms : MsgFine(ms[i], top, sv, ups, raced)
                PROVE  ListFine(ms, top, sv, ups, raced)
  BY DEF ListFine, MsgFine, Copies, Below, Unborn, D!Held

LEMMA ListMade ==
    ASSUME NEW top, NEW sv, NEW ups, NEW raced, NEW ms, ListFine(ms, top, sv, ups, raced), NEW m, MsgFine(m, top, sv, ups, raced),
           NEW new \in Seq(DsMsg), From(new, ms, m)
    PROVE  ListFine(new, top, sv, ups, raced)
<1>1. \A i \in DOMAIN new : MsgFine(new[i], top, sv, ups, raced)
  BY MsgOf DEF From
<1> QED
  BY <1>1, ListOf

Descending(s) == \A i, j \in DOMAIN s : i < j => s[i].id > s[j].id

LEMMA SetMade ==
    ASSUME NEW store \in Seq(DsMsg), NEW m \in DsMsg, StoreCap \in Nat
    PROVE  /\ D!MessageSet(store, m) \in Seq(DsMsg) /\ From(D!MessageSet(store, m), store, m)
           /\ Descending(store) => Descending(D!MessageSet(store, m))
<1> DEFINE new == D!MessageSet(store, m)
           over == <<m>> \o store
           n == IF Len(store) < StoreCap THEN Len(store) + 1 ELSE StoreCap
<1>1. /\ over \in Seq(DsMsg) /\ Len(over) = Len(store) + 1 /\ over[1] = m
      /\ \A i \in 1..Len(over) : i = 1 \/ (i - 1 \in DOMAIN store /\ over[i] = store[i - 1])
  OBVIOUS
<1>2. \A i \in DOMAIN store : store[i].id \in Int
  BY IdOfMsg
<1>3. m.id \in Int /\ (store # <<>> => Head(store) = store[1] /\ 1 \in DOMAIN store /\ Len(store) \in DOMAIN store /\ D!Last(store) = store[Len(store)])
  BY DEF DsMsg, D!Last
<1>4. CASE store = <<>> \/ m.id > Head(store).id
  <2>1. new = SubSeq(over, 1, n)
    BY <1>4 DEF D!MessageSet
  <2>2. n \in Nat /\ n <= Len(over)
    BY <1>1
  <2>3. new \in Seq(DsMsg) /\ DOMAIN new = 1..n /\ \A i \in 1..n : new[i] = over[i] /\ i \in 1..Len(over)
    BY <1>1, <2>1, <2>2
  <2>4. From(new, store, m)
    BY <1>1, <2>3 DEF From
  <2>5. ASSUME Descending(store) PROVE Descending(new)
    <3> SUFFICES ASSUME NEW i \in DOMAIN new, NEW j \in DOMAIN new, i < j PROVE new[i].id > new[j].id
      BY DEF Descending
    <3>1. i \in Int /\ j \in Int /\ j # 1 /\ j - 1 \in DOMAIN store /\ new[j] = store[j - 1]
      BY <1>1, <2>3
    <3>2. CASE i = 1
      <4>1. store # <<>> /\ m.id > store[1].id
        BY <1>3, <1>4, <3>1
      <4>2. j - 1 = 1 \/ 1 < j - 1
        BY <3>1
      <4>3. store[1].id >= store[j - 1].id
        BY <1>2, <1>3, <2>5, <3>1, <4>1, <4>2 DEF Descending
      <4> QED
        BY <1>1, <1>2, <1>3, <2>3, <3>1, <3>2, <4>1, <4>3
    <3>3. CASE i # 1
      <4>1. i - 1 \in DOMAIN store /\ new[i] = store[i - 1] /\ i - 1 < j - 1
        BY <1>1, <2>3, <3>1, <3>3
      <4> QED
        BY <2>5, <3>1, <4>1 DEF Descending
    <3> QED
      BY <3>2, <3>3
  <2> HIDE DEF new
  <2> QED
    BY <2>3, <2>4, <2>5 DEF new
<1>5. CASE store # <<>> /\ ~(m.id > Head(store).id) /\ m.id < D!Last(store).id /\ Len(store) < StoreCap
  <2>1. new = Append(store, m)
    BY <1>5 DEF D!MessageSet
  <2>2. new \in Seq(DsMsg) /\ From(new, store, m)
    BY <2>1, AppendAt DEF From
  <2>3. ASSUME Descending(store) PROVE Descending(new)
    <3> SUFFICES ASSUME NEW i \in DOMAIN new, NEW j \in DOMAIN new, i < j PROVE new[i].id > new[j].id
      BY DEF Descending
    <3>1. i \in DOMAIN store /\ new[i] = store[i] /\ i \in Int /\ i <= Len(store)
      BY <2>1, AppendAt
    <3>2. CASE j \in DOMAIN store
      BY <2>1, <2>3, <3>1, <3>2, AppendAt DEF Descending
    <3>3. CASE j \notin DOMAIN store
      <4>1. new[j] = m
        BY <2>1, <3>3, AppendAt
      <4>2. i = Len(store) \/ i < Len(store)
        BY <3>1
      <4>3. store[i].id >= store[Len(store)].id
        BY <1>2, <1>3, <1>5, <2>3, <3>1, <4>2 DEF Descending
      <4> QED
        BY <1>2, <1>3, <1>5, <3>1, <4>1, <4>3
    <3> QED
      BY <3>2, <3>3
  <2> HIDE DEF new
  <2> QED
    BY <2>2, <2>3 DEF new
<1>6. CASE store # <<>> /\ ~(m.id > Head(store).id) /\ ~(m.id < D!Last(store).id /\ Len(store) < StoreCap)
  BY <1>6 DEF D!MessageSet, From
<1> QED
  BY <1>4, <1>5, <1>6

LEMMA Joined == ASSUME NEW S, NEW x \in Seq(S), NEW y \in Seq(S)
                PROVE  /\ x \o y \in Seq(S) /\ Len(x \o y) = Len(x) + Len(y)
                       /\ \A i \in 1..(Len(x) + Len(y)) : (x \o y)[i] = IF i <= Len(x) THEN x[i] ELSE y[i - Len(x)]
  OBVIOUS

LEMMA Removed ==
    ASSUME NEW store \in Seq(DsMsg), NEW id, D!Held(store, id)
    PROVE  /\ D!RemoveAt(store, D!Place(store, id)) \in Seq(DsMsg) /\ \A i \in DOMAIN D!RemoveAt(store, D!Place(store, id)) :
                 \E j \in DOMAIN store : D!RemoveAt(store, D!Place(store, id))[i] = store[j]
           /\ Descending(store) => Descending(D!RemoveAt(store, D!Place(store, id)))
<1> DEFINE n == D!Place(store, id)
           new == D!RemoveAt(store, n)
           at(i) == IF i < n THEN i ELSE i + 1
<1>1. n \in DOMAIN store
  BY DEF D!Held, D!Place
<1> HIDE DEF n
<1>2. n \in 1..Len(store) /\ Len(store) \in Nat /\ n \in Nat
  BY <1>1
<1>3. new = SubSeq(store, 1, n - 1) \o SubSeq(store, n + 1, Len(store))
  BY DEF D!RemoveAt
<1>4. SubSeq(store, 1, n - 1) \in Seq(DsMsg) /\ Len(SubSeq(store, 1, n - 1)) = n - 1 /\ \A i \in 1..(n - 1) : SubSeq(store, 1, n - 1)[i] = store[i]
  BY <1>2
<1>5. /\ SubSeq(store, n + 1, Len(store)) \in Seq(DsMsg) /\ Len(SubSeq(store, n + 1, Len(store))) = Len(store) - n
      /\ \A i \in 1..(Len(store) - n) : SubSeq(store, n + 1, Len(store))[i] = store[n + i]
  BY <1>2
<1>6. new \in Seq(DsMsg) /\ Len(new) = Len(store) - 1 /\ \A i \in DOMAIN new : i \in Int /\ at(i) \in DOMAIN store /\ new[i] = store[at(i)]
  <2> DEFINE x == SubSeq(store, 1, n - 1)
             y == SubSeq(store, n + 1, Len(store))
  <2>1. x \in Seq(DsMsg) /\ y \in Seq(DsMsg) /\ new = x \o y /\ Len(x) = n - 1 /\ Len(y) = Len(store) - n
    BY <1>3, <1>4, <1>5
  <2>2. \A i \in 1..(n - 1) : x[i] = store[i]
    BY <1>4
  <2>3. \A i \in 1..(Len(store) - n) : y[i] = store[n + i]
    BY <1>5
  <2> HIDE DEF x, y, new
  <2>4. new \in Seq(DsMsg) /\ Len(new) = Len(store) - 1 /\ \A i \in 1..Len(new) : new[i] = IF i < n THEN x[i] ELSE y[i - (n - 1)]
    <3>1. new \in Seq(DsMsg) /\ Len(new) = Len(x) + Len(y) /\ \A i \in 1..Len(new) : new[i] = IF i <= Len(x) THEN x[i] ELSE y[i - Len(x)]
      <4>1. x \in Seq(DsMsg) /\ y \in Seq(DsMsg) /\ new = x \o y
        BY <2>1
      <4> HIDE DEF n
      <4>2. /\ x \o y \in Seq(DsMsg) /\ Len(x \o y) = Len(x) + Len(y)
            /\ \A i \in 1..(Len(x) + Len(y)) : (x \o y)[i] = IF i <= Len(x) THEN x[i] ELSE y[i - Len(x)]
        BY <4>1, Joined
      <4> QED
        BY <4>1, <4>2
    <3>2. Len(x) + Len(y) = Len(store) - 1 /\ \A i \in Int : i <= n - 1 <=> i < n
      BY <1>2, <2>1
    <3>3. \A i \in 1..Len(new) : new[i] = IF i <= n - 1 THEN x[i] ELSE y[i - (n - 1)]
      BY <2>1, <3>1
    <3> QED
      BY <1>2, <3>1, <3>2, <3>3
  <2> SUFFICES ASSUME NEW i \in DOMAIN new PROVE i \in Int /\ at(i) \in DOMAIN store /\ new[i] = store[at(i)]
    BY <2>4
  <2>5. i \in 1..Len(new)
    BY <2>4
  <2>6. CASE i < n
    BY <1>2, <2>2, <2>4, <2>5, <2>6
  <2>7. CASE ~(i < n)
    <3>1. new[i] = y[i - (n - 1)] /\ i - (n - 1) \in 1..(Len(store) - n) /\ n + (i - (n - 1)) = i + 1
      BY <1>2, <2>4, <2>5, <2>7
    <3>2. new[i] = store[i + 1]
      BY <2>3, <3>1
    <3> QED
      BY <1>2, <2>4, <2>5, <2>7, <3>2
  <2> QED
    BY <2>6, <2>7
<1>7. \A i, j \in DOMAIN new : i < j => at(i) < at(j)
  BY <1>2, <1>6
<1> HIDE DEF new, at
<1>8. Descending(store) => Descending(new)
  BY <1>6, <1>7 DEF Descending
<1> QED
  BY <1>6, <1>8 DEF n, new

LEMMA HandleReaction ==
    ASSUME NEW top, NEW sv, NEW ups, NEW store, NEW ui, NEW raced, NEW tasks, LiveFine(top, sv, ups, store, ui, raced, tasks),
           ups # <<>>, Head(ups).k \notin {"create", "delete"},
           NEW raced2, raced2 = raced \/ raced2 = raced \cup {Head(ups).id},
           Head(ups).id \in raced2 \/ (D!Held(store, Head(ups).id) /\ \A p \in tasks : p.k = "page" => ~D!Held(p.ms, Head(ups).id)),
           NEW new, new = D!Change(store, Head(ups)),
           NEW ui2, ui2 = IF D!Held(new, Head(ups).id) /\ Head(ups).id \in DOMAIN ui
                          THEN D!Show(ui, Head(ups).id, D!ReactsOf(new, Head(ups).id)) ELSE ui
    PROVE  LiveFine(top, sv, Tail(ups), new, ui2, raced2, tasks)
<1> DEFINE up == Head(ups)
           upt == Tail(ups)
<1>1. /\ up \in DsUp /\ up.id \in Int /\ up.id <= top /\ ServerFine(top, sv, upt) /\ NewBirths(ups, upt, top)
      /\ ServerFine(top, sv, ups) /\ top \in Int /\ ListFine(store, top, sv, ups, raced) /\ ScreenFine(ui, top, sv, ups, raced)
      /\ \A j \in DOMAIN sv : j # up.id => Carries(j, sv, ups, sv, upt)
  BY EventTreated DEF LiveFine, ServerFine
<1>2. up.id \in DOMAIN sv => \A x : Fresh(x, up.id, sv, ups) => Fresh(D!Applied(up, x), up.id, sv, upt)
  BY <1>1, Treated
<1>3. raced \subseteq raced2
  OBVIOUS
<1>4. ASSUME NEW ms, ListFine(ms, top, sv, ups, raced), up.id \in raced2 \/ ~D!Held(ms, up.id) PROVE ListFine(ms, top, sv, upt, raced2)
  <2>1. \A i \in DOMAIN ms : ms[i].id \in DOMAIN sv \ raced2 => ms[i].id # up.id
    BY <1>4 DEF D!Held
  <2>2. \A i \in DOMAIN ms : ms[i].id \in DOMAIN sv \ raced2 => Carries(ms[i].id, sv, ups, sv, upt)
    BY <1>1, <2>1
  <2> HIDE DEF up, upt
  <2> QED
    BY <1>1, <1>3, <1>4, <2>2, ListKept
<1>5. /\ store \in Seq(DsMsg) /\ new \in Seq(DsMsg) /\ DOMAIN new = DOMAIN store
      /\ \A i \in DOMAIN store : new[i].id = store[i].id /\ new[i].reacts = IF store[i].id = up.id THEN D!Applied(up, store[i].reacts) ELSE store[i].reacts
  BY <1>1, Changed DEF ListFine
<1>6. \A id : D!Held(new, id) <=> D!Held(store, id)
  BY <1>5 DEF D!Held
<1> HIDE DEF up, upt
<1>7. ListFine(new, top, sv, upt, raced2)
  <2>1. Copies(new, sv, upt, raced2)
    <3> SUFFICES ASSUME NEW i \in DOMAIN new, new[i].id \in DOMAIN sv \ raced2 PROVE Fresh(new[i].reacts, new[i].id, sv, upt)
      BY DEF Copies
    <3>1. store[i].id = new[i].id /\ Fresh(store[i].reacts, store[i].id, sv, ups)
      BY <1>1, <1>3, <1>5 DEF ListFine, Copies
    <3>2. CASE store[i].id = up.id
      <4>1. new[i].reacts = D!Applied(up, store[i].reacts)
        BY <1>5, <3>2
      <4> QED
        BY <1>2, <3>1, <3>2, <4>1
    <3>3. CASE store[i].id # up.id
      <4>1. new[i].reacts = store[i].reacts
        BY <1>5, <3>3
      <4> QED
        BY <1>1, <3>1, <3>3, <4>1 DEF Carries
    <3> QED
      BY <3>2, <3>3
  <2>2. Unborn(new, upt, raced2)
    <3> SUFFICES ASSUME NEW i \in DOMAIN upt, upt[i].k = "create", upt[i].id \notin raced2, D!Held(new, upt[i].id) PROVE FALSE
      BY DEF Unborn
    <3>1. D!Held(store, upt[i].id)
      BY <1>6
    <3>2. PICK j \in DOMAIN store : store[j].id = upt[i].id
      BY <3>1 DEF D!Held
    <3>3. store[j].id \in Int /\ store[j].id <= top
      BY <1>1, <1>5, IdOfMsg DEF ListFine, Below
    <3>4. PICK l \in DOMAIN ups : ups[l].k = "create" /\ ups[l].id = upt[i].id
      BY <1>1, <3>2, <3>3 DEF NewBirths
    <3> QED
      BY <1>1, <1>3, <3>1, <3>4 DEF Unborn, ListFine
  <2>3. Below(new, top)
    BY <1>1, <1>5 DEF Below, ListFine
  <2> QED
    BY <1>5, <2>1, <2>2, <2>3 DEF ListFine
<1>8. ScreenFine(ui2, top, sv, upt, raced2)
  <2> DEFINE r == D!ReactsOf(new, up.id)
             at == D!Place(new, up.id)
  <2>1. ui \in [DOMAIN ui -> SUBSET Who] /\ DOMAIN ui \subseteq Int /\ \A id \in DOMAIN ui : id <= top
    BY <1>1 DEF ScreenFine
  <2>2. ASSUME D!Held(new, up.id), up.id \in DOMAIN ui
        PROVE  at \in DOMAIN new /\ new[at].id = up.id /\ r = new[at].reacts /\ r \subseteq Who
    <3>1. at \in DOMAIN new /\ new[at].id = up.id
      BY <2>2 DEF D!Held, D!Place
    <3>2. r = new[at].reacts
      BY DEF D!ReactsOf
    <3> QED
      BY <1>5, <3>1, <3>2, IdOfMsg
  <2>3. CASE D!Held(new, up.id) /\ up.id \in DOMAIN ui
    <3>1. ui2 = D!Show(ui, up.id, r)
      BY <2>3 DEF up
    <3>2. DOMAIN ui2 = DOMAIN ui /\ ui2[up.id] = r /\ \A id \in DOMAIN ui : id # up.id => ui2[id] = ui[id]
      BY <2>3, <3>1 DEF D!Show
    <3>3. ui2 \in [DOMAIN ui2 -> SUBSET Who]
      BY <2>1, <2>2, <2>3, <3>1, <3>2 DEF D!Show
    <3>4. ASSUME NEW id \in (DOMAIN ui2 \cap DOMAIN sv) \ raced2 PROVE Fresh(ui2[id], id, sv, upt)
      <4>1. CASE id = up.id
        BY <1>7, <2>2, <2>3, <3>2, <4>1 DEF ListFine, Copies
      <4>2. CASE id # up.id
        BY <1>1, <1>3, <3>2, <4>2 DEF ScreenFine, Shown, Carries
      <4> QED
        BY <4>1, <4>2
    <3> QED
      BY <2>1, <3>2, <3>3, <3>4 DEF ScreenFine, Shown
  <2>4. CASE ~(D!Held(new, up.id) /\ up.id \in DOMAIN ui)
    <3>1. ui2 = ui
      BY <2>4 DEF up
    <3>2. ASSUME NEW id \in (DOMAIN ui \cap DOMAIN sv) \ raced2 PROVE Fresh(ui[id], id, sv, upt)
      <4>1. id # up.id
        BY <1>6, <2>4 DEF up
      <4> QED
        BY <1>1, <1>3, <4>1 DEF ScreenFine, Shown, Carries
    <3> QED
      BY <2>1, <3>1, <3>2 DEF ScreenFine, Shown
  <2> QED
    BY <2>3, <2>4
<1>9. \A p \in tasks : p.k = "page" => PageFine(p, top, sv, upt, raced2)
  <2> SUFFICES ASSUME NEW p \in tasks, p.k = "page" PROVE PageFine(p, top, sv, upt, raced2)
    OBVIOUS
  <2>1. PageFine(p, top, sv, ups, raced)
    BY DEF LiveFine
  <2>2. ListFine(p.ms, top, sv, upt, raced2)
    BY <1>4, <2>1 DEF PageFine, up
  <2> QED
    BY <2>1, <2>2 DEF PageFine
<1> QED
  BY <1>1, <1>7, <1>8, <1>9 DEF LiveFine, upt

LEMMA HandleCreate ==
    ASSUME NEW top, NEW sv, NEW ups, NEW store, NEW ui, NEW raced, NEW tasks, LiveFine(top, sv, ups, store, ui, raced, tasks),
           ups # <<>>, Head(ups).k = "create", StoreCap \in Nat
    PROVE  LiveFine(top, sv, Tail(ups), D!MessageSet(store, [id |-> Head(ups).id, reacts |-> {}]), D!Show(ui, Head(ups).id, {}), raced, tasks)
<1> DEFINE up == Head(ups)
           upt == Tail(ups)
           m == [id |-> up.id, reacts |-> {}]
           new == D!MessageSet(store, m)
           ui2 == D!Show(ui, up.id, {})
<1>1. /\ up \in DsUp /\ up.id \in Int /\ up.id <= top /\ ServerFine(top, sv, upt) /\ NewBirths(ups, upt, top)
      /\ ServerFine(top, sv, ups) /\ top \in Int /\ ListFine(store, top, sv, ups, raced) /\ ScreenFine(ui, top, sv, ups, raced)
      /\ \A j \in DOMAIN sv : j # up.id => Carries(j, sv, ups, sv, upt)
      /\ \A i \in DOMAIN upt : upt[i].k = "create" => upt[i].id # up.id
      /\ 1 \in DOMAIN ups /\ ups[1] = up
  BY EventTreated, TailAt DEF LiveFine, ServerFine
<1>2. up.id \in DOMAIN sv => Fresh({}, up.id, sv, upt)
  BY <1>1, Treated
<1>4. ASSUME NEW ms, ListFine(ms, top, sv, ups, raced) PROVE ListFine(ms, top, sv, upt, raced)
  <2>1. up.id \notin raced => ~D!Held(ms, up.id)
    BY <1>1, <1>4 DEF ListFine, Unborn
  <2>2. \A i \in DOMAIN ms : ms[i].id \in DOMAIN sv \ raced => Carries(ms[i].id, sv, ups, sv, upt)
    BY <1>1, <2>1 DEF D!Held
  <2> HIDE DEF up, upt
  <2> QED
    BY <1>1, <1>4, <2>2, ListKept
<1>5. m \in DsMsg /\ m.id = up.id /\ m.reacts = {}
  BY <1>1 DEF DsMsg
<1> HIDE DEF up, upt, m, new
<1>6. MsgFine(m, top, sv, upt, raced)
  BY <1>1, <1>2, <1>5 DEF MsgFine
<1>7. ListFine(new, top, sv, upt, raced)
  <2>1. store \in Seq(DsMsg) /\ ListFine(store, top, sv, upt, raced)
    BY <1>1, <1>4 DEF ListFine
  <2>2. new \in Seq(DsMsg) /\ From(new, store, m)
    BY <1>5, <2>1, SetMade DEF new
  <2> QED
    BY <1>6, <2>1, <2>2, ListMade
<1>8. ScreenFine(ui2, top, sv, upt, raced)
  <2>1. ui \in [DOMAIN ui -> SUBSET Who] /\ DOMAIN ui \subseteq Int /\ \A id \in DOMAIN ui : id <= top
    BY <1>1 DEF ScreenFine
  <2>2. DOMAIN ui2 = DOMAIN ui \cup {up.id} /\ ui2[up.id] = {} /\ ui2 \in [DOMAIN ui2 -> SUBSET Who] /\ \A id \in DOMAIN ui : id # up.id => ui2[id] = ui[id]
    BY <2>1 DEF D!Show
  <2>3. ASSUME NEW id \in (DOMAIN ui2 \cap DOMAIN sv) \ raced PROVE Fresh(ui2[id], id, sv, upt)
    BY <1>1, <1>2, <2>2 DEF ScreenFine, Shown, Carries
  <2> QED
    BY <1>1, <2>1, <2>2, <2>3 DEF ScreenFine, Shown
<1>9. \A p \in tasks : p.k = "page" => PageFine(p, top, sv, upt, raced)
  BY <1>4 DEF LiveFine, PageFine
<1>10. \A p, q \in tasks : p.k = "page" /\ q.k = "page" => p = q
  BY DEF LiveFine
<1>11. LiveFine(top, sv, upt, new, ui2, raced, tasks)
  BY <1>1, <1>7, <1>8, <1>9, <1>10 DEF LiveFine
<1> QED
  BY <1>11 DEF upt, new, m, up

LEMMA HandleDelete ==
    ASSUME NEW top, NEW sv, NEW ups, NEW store, NEW ui, NEW raced, NEW tasks, LiveFine(top, sv, ups, store, ui, raced, tasks),
           ups # <<>>, Head(ups).k = "delete"
    PROVE  LiveFine(top, sv, Tail(ups), IF D!Held(store, Head(ups).id) THEN D!RemoveAt(store, D!Place(store, Head(ups).id)) ELSE store,
                    D!Restrict(ui, DOMAIN ui \ {Head(ups).id}), raced, tasks)
<1> DEFINE up == Head(ups)
           upt == Tail(ups)
           new == IF D!Held(store, up.id) THEN D!RemoveAt(store, D!Place(store, up.id)) ELSE store
           ui2 == D!Restrict(ui, DOMAIN ui \ {up.id})
<1>1. /\ ServerFine(top, sv, upt) /\ NewBirths(ups, upt, top) /\ ServerFine(top, sv, ups) /\ top \in Int
      /\ ListFine(store, top, sv, ups, raced) /\ ScreenFine(ui, top, sv, ups, raced)
      /\ \A j \in DOMAIN sv : j # up.id => Carries(j, sv, ups, sv, upt)
      /\ 1 \in DOMAIN ups /\ ups[1] = up
  BY EventTreated, TailAt DEF LiveFine, ServerFine
<1>2. up.id \notin DOMAIN sv
  BY <1>1 DEF ServerFine
<1> HIDE DEF up, upt, new
<1>4. ASSUME NEW ms, ListFine(ms, top, sv, ups, raced) PROVE ListFine(ms, top, sv, upt, raced)
  <2>2. \A i \in DOMAIN ms : ms[i].id \in DOMAIN sv \ raced => Carries(ms[i].id, sv, ups, sv, upt)
    BY <1>1, <1>2
  <2> QED
    BY <1>1, <1>4, <2>2, ListKept
<1>7. ListFine(new, top, sv, upt, raced)
  <2>1. store \in Seq(DsMsg) /\ ListFine(store, top, sv, upt, raced)
    BY <1>1, <1>4 DEF ListFine
  <2>2. new \in Seq(DsMsg) /\ \A i \in DOMAIN new : \E j \in DOMAIN store : new[i] = store[j]
    BY <2>1, Removed DEF new
  <2>3. \A i \in DOMAIN new : MsgFine(new[i], top, sv, upt, raced)
    BY <2>1, <2>2, MsgOf
  <2> QED
    BY <2>2, <2>3, ListOf
<1>8. ScreenFine(ui2, top, sv, upt, raced)
  <2>1. ui \in [DOMAIN ui -> SUBSET Who] /\ DOMAIN ui \subseteq Int /\ \A id \in DOMAIN ui : id <= top
    BY <1>1 DEF ScreenFine
  <2>2. DOMAIN ui2 = DOMAIN ui \ {up.id} /\ ui2 \in [DOMAIN ui2 -> SUBSET Who] /\ \A id \in DOMAIN ui2 : ui2[id] = ui[id]
    BY <2>1 DEF D!Restrict
  <2>3. ASSUME NEW id \in (DOMAIN ui2 \cap DOMAIN sv) \ raced PROVE Fresh(ui2[id], id, sv, upt)
    BY <1>1, <2>2 DEF ScreenFine, Shown, Carries
  <2> QED
    BY <1>1, <2>1, <2>2, <2>3 DEF ScreenFine, Shown
<1>9. \A p \in tasks : p.k = "page" => PageFine(p, top, sv, upt, raced)
  BY <1>4 DEF LiveFine, PageFine
<1>10. \A p, q \in tasks : p.k = "page" /\ q.k = "page" => p = q
  BY DEF LiveFine
<1>11. LiveFine(top, sv, upt, new, ui2, raced, tasks)
  BY <1>1, <1>7, <1>8, <1>9, <1>10 DEF LiveFine
<1> QED
  BY <1>11 DEF upt, new, up

\* The one page there is goes on.
LEMMA PageGoes ==
    ASSUME NEW top, NEW sv, NEW ups, NEW store, NEW ui, NEW raced, NEW tasks, LiveFine(top, sv, ups, store, ui, raced, tasks),
           NEW raced2, raced \subseteq raced2, NEW new, ListFine(new, top, sv, ups, raced2),
           NEW p \in tasks, p.k = "page", NEW next, PageFine(next, top, sv, ups, raced2)
    PROVE  LiveFine(top, sv, ups, new, ui, raced2, (tasks \ {p}) \cup {next})
<1>1. ScreenFine(ui, top, sv, ups, raced2)
  BY DEF LiveFine, ScreenFine, Shown
<1>2. \A q \in tasks \ {p} : q.k # "page"
  BY DEF LiveFine
<1> QED
  BY <1>1, <1>2 DEF LiveFine

\* A page as the server has it; what is still to be told as new is raced.
PageOf(s, sv) == [i \in DOMAIN s |-> [id |-> s[i], reacts |-> sv[s[i]]]]

LEMMA PageRead ==
    ASSUME NEW top, NEW sv, NEW ups, ServerFine(top, sv, ups), NEW raced, \A i \in DOMAIN ups : ups[i].k = "create" => ups[i].id \in raced,
           PageSize \in Nat, NEW ids \in SUBSET DOMAIN sv, NEW s \in D!Page(ids)
    PROVE  ListFine(PageOf(s, sv), top, sv, ups, raced) /\ PageOf(s, sv) \in Seq(DsMsg) /\ Descending(PageOf(s, sv))
<1> DEFINE ms == PageOf(s, sv)
<1>1. sv \in [DOMAIN sv -> SUBSET Who] /\ DOMAIN sv \subseteq Int /\ (\A id \in DOMAIN sv : id <= top) /\ top \in Int
  BY DEF ServerFine
<1>2. PICK n \in 0..PageSize : s \in [1..n -> ids] /\ D!IsPage(s, ids)
  BY DEF D!Page
<1>3. /\ n \in Nat /\ ms = [i \in 1..n |-> [id |-> s[i], reacts |-> sv[s[i]]]]
      /\ \A i \in 1..n : s[i] \in DOMAIN sv /\ sv[s[i]] \in SUBSET Who /\ s[i] \in Int
  BY <1>1, <1>2 DEF PageOf
<1> HIDE DEF ms
<1>4. \A i \in 1..n : ms[i] = [id |-> s[i], reacts |-> sv[s[i]]] /\ ms[i] \in DsMsg
  BY <1>3 DEF DsMsg
<1>5. ms \in Seq(DsMsg) /\ DOMAIN ms = 1..n
  BY <1>3, <1>4
<1>6. \A i \in DOMAIN ms : MsgFine(ms[i], top, sv, ups, raced)
  <2> SUFFICES ASSUME NEW i \in DOMAIN ms PROVE MsgFine(ms[i], top, sv, ups, raced)
    OBVIOUS
  <2>1. ms[i].id = s[i] /\ ms[i].reacts = sv[s[i]] /\ ms[i] \in DsMsg /\ s[i] \in DOMAIN sv /\ s[i] <= top /\ s[i] \in Int
    BY <1>1, <1>3, <1>4, <1>5
  <2>2. Fresh(ms[i].reacts, ms[i].id, sv, ups)
    BY <2>1 DEF Fresh
  <2> QED
    BY <2>1, <2>2 DEF MsgFine
<1>7. ListFine(ms, top, sv, ups, raced)
  BY <1>5, <1>6, ListOf
<1>8. Descending(ms)
  BY <1>2, <1>4, <1>5 DEF Descending, D!IsPage
<1> QED
  BY <1>5, <1>7, <1>8 DEF ms

LEMMA PageSeeded ==
    ASSUME NEW top, NEW sv, NEW ups, NEW store, NEW ui, NEW raced, NEW tasks, LiveFine(top, sv, ups, store, ui, raced, tasks),
           StoreCap \in Nat, NEW p \in tasks, p.k = "page", p.ph = "got", p.set < Len(p.ms)
    PROVE  /\ p.set \in Nat /\ D!Seed(p) \in DsMsg
           /\ LiveFine(top, sv, ups, D!MessageSet(store, D!Seed(p)), ui, raced, (tasks \ {p}) \cup {[p EXCEPT !.set = @ + 1]})
<1> DEFINE m == D!Seed(p)
           next == [p EXCEPT !.set = @ + 1]
           at == IF p.older THEN p.set + 1 ELSE Len(p.ms) - p.set
<1>1. PageFine(p, top, sv, ups, raced) /\ ListFine(store, top, sv, ups, raced) /\ ListFine(p.ms, top, sv, ups, raced)
  BY DEF LiveFine, PageFine
<1>2. p \in DsPages /\ p.ms \in Seq(DsMsg) /\ p.set \in Nat /\ p.older \in BOOLEAN
  BY <1>1 DEF PageFine, DsPages
<1>3. m = p.ms[at] /\ at \in DOMAIN p.ms
  BY <1>2 DEF D!Seed
<1> HIDE DEF m, at
<1>4. MsgFine(m, top, sv, ups, raced) /\ m \in DsMsg
  BY <1>1, <1>3, MsgOf DEF MsgFine
<1>5. ListFine(D!MessageSet(store, m), top, sv, ups, raced)
  <2>1. store \in Seq(DsMsg)
    BY <1>1 DEF ListFine
  <2>2. D!MessageSet(store, m) \in Seq(DsMsg) /\ From(D!MessageSet(store, m), store, m)
    BY <1>4, <2>1, SetMade
  <2> QED
    BY <1>1, <1>4, <2>2, ListMade
<1>6. next \in DsPages /\ next.ms = p.ms /\ next.set = p.set + 1 /\ next.ph = p.ph
  BY <1>2 DEF DsPages
<1> HIDE DEF next
<1>7. PageFine(next, top, sv, ups, raced)
  <2>1. next.set <= Len(next.ms)
    BY <1>2, <1>6
  <2> QED
    BY <1>1, <1>6, <2>1 DEF PageFine
<1>8. LiveFine(top, sv, ups, D!MessageSet(store, m), ui, raced, (tasks \ {p}) \cup {next})
  BY <1>5, <1>7, PageGoes
<1> QED
  BY <1>2, <1>4, <1>8 DEF m, next

LEMMA PagePosted ==
    ASSUME NEW top, NEW sv, NEW ups, NEW store, NEW ui, NEW raced, NEW tasks, LiveFine(top, sv, ups, store, ui, raced, tasks),
           NEW p \in tasks, p.k = "page", NEW new, new = {p.ms[i].id : i \in DOMAIN p.ms} \ DOMAIN ui,
           NEW ui2, ui2 = [x \in DOMAIN ui \cup new |-> IF x \in DOMAIN ui THEN ui[x] ELSE p.ms[CHOOSE i \in DOMAIN p.ms : p.ms[i].id = x].reacts]
    PROVE  LiveFine(top, sv, ups, store, ui2, raced, tasks \ {p})
<1>1. ListFine(p.ms, top, sv, ups, raced) /\ ScreenFine(ui, top, sv, ups, raced) /\ p.ms \in Seq(DsMsg)
  BY DEF LiveFine, PageFine, ListFine
<1>2. ASSUME NEW x \in new
      PROVE  \E i \in DOMAIN p.ms : p.ms[i].id = x /\ ui2[x] = p.ms[i].reacts
  <2> DEFINE at == CHOOSE i \in DOMAIN p.ms : p.ms[i].id = x
  <2>1. at \in DOMAIN p.ms /\ p.ms[at].id = x
    BY <1>2
  <2>2. ui2[x] = p.ms[at].reacts
    BY <1>2
  <2> QED
    BY <2>1, <2>2
<1>3. DOMAIN ui2 = DOMAIN ui \cup new /\ \A x \in DOMAIN ui : ui2[x] = ui[x]
  OBVIOUS
<1>4. ui2 = [x \in DOMAIN ui2 |-> ui2[x]]
  OBVIOUS
<1>5. ASSUME NEW x \in DOMAIN ui2
      PROVE  x \in Int /\ x <= top /\ ui2[x] \in SUBSET Who /\ (x \in DOMAIN sv \ raced => Fresh(ui2[x], x, sv, ups))
  <2>1. CASE x \in DOMAIN ui
    BY <1>1, <1>3, <2>1 DEF ScreenFine, Shown
  <2>2. CASE x \in new
    <3>1. PICK i \in DOMAIN p.ms : p.ms[i].id = x /\ ui2[x] = p.ms[i].reacts
      BY <1>2, <2>2
    <3>2. p.ms[i].id \in Int /\ p.ms[i].reacts \subseteq Who
      BY <1>1, IdOfMsg
    <3> QED
      BY <1>1, <3>1, <3>2 DEF ListFine, Copies, Below
  <2> QED
    BY <1>3, <2>1, <2>2
<1>6. ui2 \in [DOMAIN ui2 -> SUBSET Who]
  BY <1>4, <1>5
<1>7. ScreenFine(ui2, top, sv, ups, raced)
  BY <1>5, <1>6 DEF ScreenFine, Shown
<1> QED
  BY <1>7 DEF LiveFine

\* A page that fits, while no message comes or goes: what is in the store so
\* far, with room for the rest, which is apart.
InStore(p, i) == IF p.older THEN i <= p.set ELSE i > Len(p.ms) - p.set
Seeding(p, store) ==
    /\ \A i \in DOMAIN p.ms : InStore(p, i) => D!Held(store, p.ms[i].id)
    /\ Len(store) + Len(p.ms) - p.set <= StoreCap /\ (store = <<>> => p.set = 0)
    /\ store # <<>> => \A i \in DOMAIN p.ms :
         ~InStore(p, i) => IF p.older THEN p.ms[i].id < store[Len(store)].id ELSE p.ms[i].id > store[1].id
SeedFine(store, still, tasks) ==
    Descending(store) /\ \A p \in tasks : p.k = "page" /\ p.ph = "got" /\ p.fits /\ still => Seeding(p, store)

LEMMA Ends == ASSUME NEW store \in Seq(DsMsg), store # <<>>
              PROVE  /\ Head(store) = store[1] /\ D!Last(store) = store[Len(store)] /\ 1 \in DOMAIN store /\ Len(store) \in DOMAIN store
                     /\ Len(store) \in Nat /\ Len(store) >= 1 /\ store[1].id \in Int /\ store[Len(store)].id \in Int
                     /\ Descending(store) => store[1].id >= store[Len(store)].id
<1>1. Head(store) = store[1] /\ D!Last(store) = store[Len(store)] /\ 1 \in DOMAIN store /\ Len(store) \in DOMAIN store /\ Len(store) \in Nat /\ Len(store) >= 1
  BY DEF D!Last
<1>2. store[1].id \in Int /\ store[Len(store)].id \in Int
  BY <1>1, IdOfMsg
<1>3. Descending(store) => store[1].id >= store[Len(store)].id
  <2>1. 1 = Len(store) \/ 1 < Len(store)
    <3>1. \A n \in Nat : n >= 1 => 1 = n \/ 1 < n
      OBVIOUS
    <3> QED
      BY <1>1, <3>1
  <2> QED
    BY <1>1, <1>2, <2>1 DEF Descending
<1> QED
  BY <1>1, <1>2, <1>3

LEMMA SeedRead ==
    ASSUME NEW store \in Seq(DsMsg), Descending(store), StoreCap \in Nat, NEW ms \in Seq(DsMsg), NEW p \in DsPages, p.set = 0, p.ms = ms,
           p.fits => Len(store) + Len(ms) <= StoreCap /\ D!Apart(store, ms, p.older), p.fits
    PROVE  Seeding(p, store)
<1>1. Len(ms) \in Nat /\ Len(store) \in Nat /\ DOMAIN ms = 1..Len(ms)
  OBVIOUS
<1>2. \A i \in DOMAIN ms : ~InStore(p, i)
  BY <1>1 DEF InStore
<1>3. ASSUME store # <<>>, NEW i \in DOMAIN ms PROVE IF p.older THEN ms[i].id < store[Len(store)].id ELSE ms[i].id > store[1].id
  BY <1>3, Ends DEF D!Apart
<1> QED
  BY <1>1, <1>2, <1>3 DEF Seeding

LEMMA SeedNext ==
    ASSUME NEW store \in Seq(DsMsg), Descending(store), StoreCap \in Nat, NEW p \in DsPages, Descending(p.ms), Seeding(p, store),
           p.set < Len(p.ms), NEW next \in DsPages, next.ms = p.ms, next.older = p.older, next.set = p.set + 1
    PROVE  Seeding(next, D!MessageSet(store, D!Seed(p)))
<1> DEFINE m == D!Seed(p)
           at == IF p.older THEN p.set + 1 ELSE Len(p.ms) - p.set
           new == D!MessageSet(store, m)
<1>1. p.ms \in Seq(DsMsg) /\ p.set \in Nat /\ p.older \in BOOLEAN /\ Len(p.ms) \in Nat /\ DOMAIN p.ms = 1..Len(p.ms) /\ Len(store) \in Nat
  BY DEF DsPages
<1>2. m = p.ms[at] /\ at \in DOMAIN p.ms /\ at \in Nat /\ ~InStore(p, at)
  BY <1>1 DEF D!Seed, InStore
<1>3. \A i \in DOMAIN p.ms : p.ms[i] \in DsMsg /\ p.ms[i].id \in Int
  BY <1>1, ElemOf, IdOfMsg
<1>4. Len(store) < StoreCap
  BY <1>1 DEF Seeding
<1>5. \A i \in DOMAIN p.ms : InStore(next, i) <=> InStore(p, i) \/ i = at
  BY <1>1 DEF InStore
<1>6. \A i \in DOMAIN p.ms : ~InStore(next, i) => IF p.older THEN p.ms[i].id < m.id ELSE p.ms[i].id > m.id
  <2> SUFFICES ASSUME NEW i \in DOMAIN p.ms, ~InStore(next, i) PROVE IF p.older THEN p.ms[i].id < m.id ELSE p.ms[i].id > m.id
    OBVIOUS
  <2>1. IF p.older THEN at < i ELSE i < at
    BY <1>1 DEF InStore
  <2> QED
    BY <1>2, <1>3, <2>1 DEF Descending
<1>7. m \in DsMsg /\ m.id \in Int
  BY <1>2, <1>3
<1>m. m = D!Seed(p)
  OBVIOUS
<1> HIDE DEF m, at
<1>8. CASE store = <<>> \/ (store # <<>> /\ ~p.older)
  <2>1. store # <<>> => m.id > Head(store).id /\ Head(store) = store[1]
    BY <1>1, <1>2, <1>8, Ends DEF Seeding
  <2>2. new = SubSeq(<<m>> \o store, 1, Len(store) + 1)
    BY <1>1, <1>4, <2>1 DEF D!MessageSet
  <2>3. new = <<m>> \o store
    BY <1>7, <2>2
  <2>4. new \in Seq(DsMsg) /\ Len(new) = Len(store) + 1 /\ new[1] = m /\ 1 \in DOMAIN new /\ \A i \in DOMAIN store : i + 1 \in DOMAIN new /\ new[i + 1] = store[i]
    BY <1>7, <2>3
  <2> HIDE DEF new
  <2>5. \A id : D!Held(store, id) \/ id = m.id => D!Held(new, id)
    BY <2>4 DEF D!Held
  <2>6. new[Len(new)] = IF store = <<>> THEN m ELSE store[Len(store)]
    BY <1>1, <2>4
  <2>7. ASSUME NEW i \in DOMAIN p.ms, ~InStore(next, i) PROVE IF p.older THEN p.ms[i].id < new[Len(new)].id ELSE p.ms[i].id > new[1].id
    BY <1>6, <1>8, <2>4, <2>6, <2>7
  <2>8. \A i \in DOMAIN p.ms : InStore(next, i) => D!Held(new, p.ms[i].id)
    BY <1>2, <1>5, <2>5 DEF Seeding
  <2>9. Len(new) + Len(next.ms) - next.set <= StoreCap /\ new # <<>>
    BY <1>1, <2>4 DEF Seeding
  <2>10. Seeding(next, new)
    BY <2>7, <2>8, <2>9 DEF Seeding
  <2> QED
    BY <1>m, <2>10 DEF new
<1>9. CASE store # <<>> /\ p.older
  <2>1. m.id < D!Last(store).id /\ ~(m.id > Head(store).id)
    BY <1>1, <1>2, <1>7, <1>9, Ends DEF Seeding
  <2>2. new = Append(store, m)
    BY <1>4, <1>9, <2>1 DEF D!MessageSet
  <2>3. Len(new) = Len(store) + 1 /\ new[Len(new)] = m /\ Len(new) \in DOMAIN new /\ \A i \in DOMAIN store : i \in DOMAIN new /\ new[i] = store[i]
    BY <1>7, <2>2
  <2> HIDE DEF new
  <2>5. \A id : D!Held(store, id) \/ id = m.id => D!Held(new, id)
    BY <2>3 DEF D!Held
  <2>7. ASSUME NEW i \in DOMAIN p.ms, ~InStore(next, i) PROVE IF p.older THEN p.ms[i].id < new[Len(new)].id ELSE p.ms[i].id > new[1].id
    BY <1>6, <1>9, <2>3, <2>7
  <2>8. \A i \in DOMAIN p.ms : InStore(next, i) => D!Held(new, p.ms[i].id)
    BY <1>2, <1>5, <2>5 DEF Seeding
  <2>9. Len(new) + Len(next.ms) - next.set <= StoreCap /\ new # <<>>
    BY <1>1, <2>3 DEF Seeding
  <2>10. Seeding(next, new)
    BY <2>7, <2>8, <2>9 DEF Seeding
  <2> QED
    BY <1>m, <2>10 DEF new
<1> QED
  BY <1>8, <1>9

LEMMA SeedChanged ==
    ASSUME NEW store \in Seq(DsMsg), NEW new \in Seq(DsMsg), DOMAIN new = DOMAIN store, Len(new) = Len(store),
           \A i \in DOMAIN store : new[i].id = store[i].id, NEW still, NEW tasks, SeedFine(store, still, tasks)
    PROVE  SeedFine(new, still, tasks)
<1>1. \A id : D!Held(store, id) <=> D!Held(new, id)
  BY DEF D!Held
<1>2. new = <<>> <=> store = <<>>
  OBVIOUS
<1>3. store # <<>> => new[1].id = store[1].id /\ new[Len(new)].id = store[Len(store)].id
  BY Ends
<1>4. Descending(new)
  BY DEF Descending, SeedFine
<1>5. \A p \in tasks : Seeding(p, store) => Seeding(p, new)
  BY <1>1, <1>2, <1>3 DEF Seeding
<1> QED
  BY <1>4, <1>5 DEF SeedFine

LEMMA SeedOver ==
    ASSUME NEW store \in Seq(DsMsg), NEW p \in DsPages, p.set = Len(p.ms), Seeding(p, store)
    PROVE  \A i \in DOMAIN p.ms : D!Held(store, p.ms[i].id)
<1>1. p.ms \in Seq(DsMsg) /\ DOMAIN p.ms = 1..Len(p.ms) /\ Len(p.ms) \in Nat /\ p.older \in BOOLEAN
  BY DEF DsPages
<1>2. \A i \in DOMAIN p.ms : InStore(p, i)
  BY <1>1 DEF InStore
<1> QED
  BY <1>2 DEF Seeding

DsLiveInv ==
    /\ LiveFine(ds.top, ds.sv, ds.ups, ds.store, ds.ui, ds.raced, ds.tasks) /\ SeedFine(ds.store, ds.still, ds.tasks)
    /\ \A p \in ds.tasks : p.k = "react" => p.ph \in {"read", "add", "remove"}

LEMMA DsFieldsAre == ASSUME DsShape
    PROVE  /\ DOMAIN ds = DsFields /\ "top" \in DsFields /\ "sv" \in DsFields /\ "ups" \in DsFields /\ "store" \in DsFields
           /\ "ui" \in DsFields /\ "raced" \in DsFields /\ "still" \in DsFields /\ "tasks" \in DsFields
  BY RecDomain DEF DsShape, DsFields

\* An event of the server, sent.
LEMMA LiveSent ==
    ASSUME DsLiveInv, NEW top2, NEW sw, NEW upt, ServerFine(top2, sw, upt), ds.top <= top2, NewBirths(ds.ups, upt, ds.top),
           \A j \in DOMAIN sw : j <= ds.top => Carries(j, ds.sv, ds.ups, sw, upt),
           ds'.top = top2, ds'.sv = sw, ds'.ups = upt, ds'.store = ds.store, ds'.ui = ds.ui, ds'.raced = ds.raced,
           ds'.still = ds.still, ds'.tasks = ds.tasks
    PROVE  DsLiveInv'
<1>1. LiveFine(top2, sw, upt, ds.store, ds.ui, ds.raced, ds.tasks)
  BY EventsKept DEF DsLiveInv
<1> QED
  BY <1>1 DEF DsLiveInv

LEMMA LiveCreates == ASSUME DsShape, DsLiveInv, D!ServerCreates PROVE DsLiveInv'
<1>1. PICK up : up = [k |-> "create", id |-> ds.top + 1, who |-> None]
  OBVIOUS
<1>2. PICK sw : sw = D!Show(ds.sv, ds.top + 1, {})
  OBVIOUS
<1>3. ds' = [ds EXCEPT !.top = @ + 1, !.sv = sw, !.ups = Append(@, up)]
  BY <1>1, <1>2 DEF D!ServerCreates, D!Does
<1>4. /\ ds'.top = ds.top + 1 /\ ds'.sv = sw /\ ds'.ups = Append(ds.ups, up) /\ ds'.store = ds.store /\ ds'.ui = ds.ui
      /\ ds'.raced = ds.raced /\ ds'.still = ds.still /\ ds'.tasks = ds.tasks
  BY <1>3, DsFieldsAre
<1>5. ServerFine(ds.top, ds.sv, ds.ups) /\ ds.top \in Int
  BY DEF DsLiveInv, LiveFine, ServerFine
<1>6. up \in DsUp /\ up.id = ds.top + 1 /\ up.k = "create"
  BY <1>1, <1>5 DEF DsUp
<1>7. /\ ServerFine(ds.top + 1, sw, Append(ds.ups, up)) /\ NewBirths(ds.ups, Append(ds.ups, up), ds.top)
      /\ \A j \in DOMAIN sw : j <= ds.top => Carries(j, ds.sv, ds.ups, sw, Append(ds.ups, up))
  BY <1>2, <1>5, <1>6, EventCreated
<1>8. ds.top <= ds.top + 1
  BY <1>5
<1> QED
  BY <1>4, <1>7, <1>8, LiveSent

LEMMA LiveServer ==
    ASSUME DsShape, DsLiveInv, NEW id, D!ServerReacts(id, "add") \/ D!ServerReacts(id, "remove") \/ D!ServerClears(id) \/ D!ServerDeletes(id)
    PROVE  DsLiveInv'
<1>1. ServerFine(ds.top, ds.sv, ds.ups) /\ ds.top \in Int /\ ds.sv \in [DOMAIN ds.sv -> SUBSET Who] /\ DOMAIN ds.sv \subseteq Int
  BY DEF DsLiveInv, LiveFine, ServerFine
<1>2. ASSUME NEW sw, NEW k, NEW who, D!Server(sw, k, id, who), NEW up, up = [k |-> k, id |-> id, who |-> who],
             ServerFine(ds.top, sw, Append(ds.ups, up)), NewBirths(ds.ups, Append(ds.ups, up), ds.top),
             \A j \in DOMAIN sw : Carries(j, ds.sv, ds.ups, sw, Append(ds.ups, up))
      PROVE  DsLiveInv'
  <2>1. ds' = [ds EXCEPT !.sv = sw, !.ups = Append(@, up)]
    BY <1>2 DEF D!Server, D!Does
  <2>2. /\ ds'.top = ds.top /\ ds'.sv = sw /\ ds'.ups = Append(ds.ups, up) /\ ds'.store = ds.store /\ ds'.ui = ds.ui
        /\ ds'.raced = ds.raced /\ ds'.still = ds.still /\ ds'.tasks = ds.tasks
    BY <2>1, DsFieldsAre
  <2>3. ds.top <= ds.top
    BY <1>1
  <2> QED
    BY <1>2, <2>2, <2>3, LiveSent
<1>3. ASSUME NEW r \in SUBSET Who, NEW k, NEW who, k \in {"add", "remove", "clear"}, who \in Who \cup {None}, k # "clear" => who \in Who,
             id \in DOMAIN ds.sv, D!Server(D!Show(ds.sv, id, r), k, id, who),
             \A x \in Who : IF k = "clear" \/ x = who THEN k = "add" <=> x \in r ELSE x \in r <=> x \in ds.sv[id]
      PROVE  DsLiveInv'
  <2>1. PICK up : up = [k |-> k, id |-> id, who |-> who]
    OBVIOUS
  <2>2. up \in DsUp /\ up.k = k /\ up.id = id /\ up.who = who
    BY <1>1, <1>3, <2>1 DEF DsUp
  <2>3. \A x \in Who : IF About(up, id, x) THEN up.k = "add" <=> x \in r ELSE x \in r <=> x \in ds.sv[id]
    BY <1>3, <2>2 DEF About
  <2>4. up.k \notin {"create", "delete"}
    BY <1>3, <2>2
  <2>5. /\ ServerFine(ds.top, D!Show(ds.sv, id, r), Append(ds.ups, up)) /\ NewBirths(ds.ups, Append(ds.ups, up), ds.top)
        /\ DOMAIN D!Show(ds.sv, id, r) = DOMAIN ds.sv
        /\ \A j \in DOMAIN D!Show(ds.sv, id, r) : Carries(j, ds.sv, ds.ups, D!Show(ds.sv, id, r), Append(ds.ups, up))
    BY <1>1, <1>3, <2>2, <2>3, <2>4, EventSent
  <2> QED
    BY <1>2, <1>3, <2>1, <2>5
<1>4. CASE D!ServerReacts(id, "add")
  <2>1. id \in DOMAIN ds.sv /\ D!Server(D!Show(ds.sv, id, ds.sv[id] \cup {"other"}), "add", id, "other")
    BY <1>4 DEF D!ServerReacts, D!Live
  <2>2. ds.sv[id] \cup {"other"} \in SUBSET Who
    BY <1>1, <2>1 DEF Who
  <2>3. "other" \in Who
    BY DEF Who
  <2> QED
    BY <1>3, <2>1, <2>2, <2>3
<1>5. CASE D!ServerReacts(id, "remove")
  <2>1. id \in DOMAIN ds.sv /\ D!Server(D!Show(ds.sv, id, ds.sv[id] \ {"other"}), "remove", id, "other")
    BY <1>5 DEF D!ServerReacts, D!Live
  <2>2. ds.sv[id] \ {"other"} \in SUBSET Who
    BY <1>1, <2>1 DEF Who
  <2>3. "other" \in Who
    BY DEF Who
  <2> QED
    BY <1>3, <2>1, <2>2, <2>3
<1>6. CASE D!ServerClears(id)
  <2>1. id \in DOMAIN ds.sv /\ D!Server(D!Show(ds.sv, id, {}), "clear", id, None)
    BY <1>6 DEF D!ServerClears, D!Live
  <2> QED
    BY <1>3, <2>1
<1>7. CASE D!ServerDeletes(id)
  <2>1. PICK up : up = [k |-> "delete", id |-> id, who |-> None]
    OBVIOUS
  <2>2. id \in DOMAIN ds.sv /\ D!Server(D!Restrict(ds.sv, DOMAIN ds.sv \ {id}), "delete", id, None)
    BY <1>7 DEF D!ServerDeletes, D!Live
  <2>3. up \in DsUp /\ up.id = id /\ up.k = "delete"
    BY <1>1, <2>1, <2>2 DEF DsUp
  <2>4. /\ ServerFine(ds.top, D!Restrict(ds.sv, DOMAIN ds.sv \ {id}), Append(ds.ups, up)) /\ NewBirths(ds.ups, Append(ds.ups, up), ds.top)
        /\ \A j \in DOMAIN D!Restrict(ds.sv, DOMAIN ds.sv \ {id}) :
             Carries(j, ds.sv, ds.ups, D!Restrict(ds.sv, DOMAIN ds.sv \ {id}), Append(ds.ups, up))
    BY <1>1, <2>2, <2>3, EventDeleted
  <2> QED
    BY <1>2, <2>1, <2>2, <2>4
<1> QED
  BY <1>4, <1>5, <1>6, <1>7

\* An event of the server, treated.
LEMMA LiveTreated ==
    ASSUME DsShape, DsLiveInv, D!Handle, StoreCap \in Nat
    PROVE  DsLiveInv'
<1>1. PICK up : up = Head(ds.ups)
  OBVIOUS
<1>2. PICK p : p = [ds EXCEPT !.ups = Tail(@), !.still = @ /\ up.k \notin {"create", "delete"}]
  OBVIOUS
<1>3. /\ p.ups = Tail(ds.ups) /\ p.still = (ds.still /\ up.k \notin {"create", "delete"}) /\ DOMAIN p = DsFields /\ p.top = ds.top
      /\ p.sv = ds.sv /\ p.store = ds.store /\ p.ui = ds.ui /\ p.raced = ds.raced /\ p.tasks = ds.tasks
  BY <1>2, DsFieldsAre
<1>4. ds.ups # <<>>
  BY DEF D!Handle
<1>5. ds.store \in Seq(DsMsg) /\ Descending(ds.store) /\ ServerFine(ds.top, ds.sv, ds.ups)
  BY DEF DsLiveInv, LiveFine, ListFine, SeedFine
<1>6. up \in DsUp /\ up.id \in Int
  BY <1>1, <1>4, <1>5, EventTreated
<1>7. CASE up.k = "create"
  <2>1. PICK m : m = [id |-> up.id, reacts |-> {}]
    OBVIOUS
  <2>2. ds' = [p EXCEPT !.store = D!MessageSet(@, m), !.ui = D!Show(@, up.id, {})]
    BY <1>1, <1>2, <1>7, <2>1 DEF D!Handle, D!Goes
  <2>3. /\ ds'.top = ds.top /\ ds'.sv = ds.sv /\ ds'.ups = Tail(ds.ups) /\ ds'.store = D!MessageSet(ds.store, m)
        /\ ds'.ui = D!Show(ds.ui, up.id, {}) /\ ds'.raced = ds.raced /\ ~ds'.still /\ ds'.tasks = ds.tasks
    BY <1>3, <1>7, <2>2, DsFieldsAre
  <2>4. LiveFine(ds.top, ds.sv, Tail(ds.ups), D!MessageSet(ds.store, m), D!Show(ds.ui, up.id, {}), ds.raced, ds.tasks)
    BY <1>1, <1>4, <1>7, <2>1, HandleCreate DEF DsLiveInv
  <2>5. m \in DsMsg
    BY <1>6, <2>1 DEF DsMsg
  <2>6. Descending(D!MessageSet(ds.store, m))
    BY <1>5, <2>5, SetMade
  <2> QED
    BY <2>3, <2>4, <2>6 DEF DsLiveInv, SeedFine
<1>8. CASE up.k = "delete"
  <2>1. PICK new : new = IF D!Held(ds.store, up.id) THEN D!RemoveAt(ds.store, D!Place(ds.store, up.id)) ELSE ds.store
    OBVIOUS
  <2>2. ds' = [p EXCEPT !.store = new, !.ui = D!Restrict(@, DOMAIN @ \ {up.id})]
    <3>1. ds' = [p EXCEPT !.store = IF D!Held(@, up.id) THEN D!RemoveAt(@, D!Place(@, up.id)) ELSE @, !.ui = D!Restrict(@, DOMAIN @ \ {up.id})]
      BY <1>1, <1>2, <1>8 DEF D!Handle, D!Goes
    <3> QED
      BY <1>3, <2>1, <3>1
  <2>3. /\ ds'.top = ds.top /\ ds'.sv = ds.sv /\ ds'.ups = Tail(ds.ups) /\ ds'.store = new
        /\ ds'.ui = D!Restrict(ds.ui, DOMAIN ds.ui \ {up.id}) /\ ds'.raced = ds.raced /\ ~ds'.still /\ ds'.tasks = ds.tasks
    BY <1>3, <1>8, <2>2, DsFieldsAre
  <2>4. LiveFine(ds.top, ds.sv, Tail(ds.ups), new, D!Restrict(ds.ui, DOMAIN ds.ui \ {up.id}), ds.raced, ds.tasks)
    BY <1>1, <1>4, <1>8, <2>1, HandleDelete DEF DsLiveInv
  <2>5. Descending(new)
    BY <1>5, <2>1, Removed
  <2> QED
    BY <2>3, <2>4, <2>5 DEF DsLiveInv, SeedFine
<1>9. CASE up.k \notin {"create", "delete"}
  <2>1. PICK raced2 : raced2 = IF ~D!Held(ds.store, up.id) \/ D!InFlight(up.id) THEN ds.raced \cup {up.id} ELSE ds.raced
    OBVIOUS
  <2>2. PICK new : new = D!Change(ds.store, up)
    OBVIOUS
  <2>3. PICK q : q = [p EXCEPT !.store = new, !.raced = raced2]
    OBVIOUS
  <2>4. ds' = D!Reactions(q, up)
    BY <1>1, <1>2, <1>3, <1>9, <2>1, <2>2, <2>3 DEF D!Handle, D!Goes
  <2>5. PICK ui2 : ui2 = IF D!Held(new, up.id) /\ up.id \in DOMAIN ds.ui THEN D!Show(ds.ui, up.id, D!ReactsOf(new, up.id)) ELSE ds.ui
    OBVIOUS
  <2>6. /\ q.store = new /\ q.raced = raced2 /\ DOMAIN q = DsFields /\ q.ups = Tail(ds.ups) /\ q.still = p.still /\ q.top = ds.top
        /\ q.sv = ds.sv /\ q.ui = ds.ui /\ q.tasks = ds.tasks
    BY <1>3, <2>3, DsFieldsAre
  <2>7. ds' = [q EXCEPT !.ui = ui2]
    BY <2>4, <2>5, <2>6 DEF D!Reactions
  <2>8. /\ ds'.top = ds.top /\ ds'.sv = ds.sv /\ ds'.ups = Tail(ds.ups) /\ ds'.store = new
        /\ ds'.ui = ui2 /\ ds'.raced = raced2 /\ (ds'.still => ds.still) /\ ds'.tasks = ds.tasks
    <3>1. ds'.still = p.still
      BY <2>6, <2>7, DsFieldsAre
    <3> QED
      BY <1>3, <2>6, <2>7, <3>1, DsFieldsAre
  <2>9. up.id \in raced2 \/ (D!Held(ds.store, up.id) /\ \A x \in ds.tasks : x.k = "page" => ~D!Held(x.ms, up.id))
    <3> SUFFICES ASSUME up.id \notin raced2, NEW x \in ds.tasks, x.k = "page", D!Held(x.ms, up.id) PROVE FALSE
      BY <2>1
    <3>1. x.ph # "asked"
      <4>1. x.ph = "asked" => x.ms = <<>>
        BY DEF DsLiveInv, LiveFine, PageFine
      <4> QED
        BY <4>1 DEF D!Held
    <3> QED
      BY <2>1, <3>1 DEF D!InFlight, D!Held
  <2>10. LiveFine(ds.top, ds.sv, Tail(ds.ups), new, ui2, raced2, ds.tasks)
    <3>1. raced2 = ds.raced \/ raced2 = ds.raced \cup {up.id}
      BY <2>1
    <3> QED
      BY <1>1, <1>4, <1>9, <2>2, <2>5, <2>9, <3>1, HandleReaction DEF DsLiveInv
  <2>11. SeedFine(new, ds.still, ds.tasks)
    <3>1. /\ new \in Seq(DsMsg) /\ Len(new) = Len(ds.store) /\ DOMAIN new = DOMAIN ds.store /\ \A i \in DOMAIN ds.store : new[i].id = ds.store[i].id
      BY <1>5, <1>6, <2>2, Changed
    <3> QED
      BY <1>5, <3>1, SeedChanged DEF DsLiveInv
  <2> QED
    BY <2>8, <2>10, <2>11 DEF DsLiveInv, SeedFine
<1> QED
  BY <1>7, <1>8, <1>9

LEMMA PagesOnly ==
    ASSUME NEW top, NEW sv, NEW ups, NEW store, NEW ui, NEW raced, NEW tasks, LiveFine(top, sv, ups, store, ui, raced, tasks),
           NEW still, SeedFine(store, still, tasks), NEW tasks2, \A p \in tasks2 : p.k = "page" => p \in tasks
    PROVE  LiveFine(top, sv, ups, store, ui, raced, tasks2) /\ SeedFine(store, still, tasks2)
  BY DEF LiveFine, SeedFine

LEMMA LiveAsks == ASSUME DsShape, DsLiveInv, NEW older \in BOOLEAN, D!LoadHistory(older) PROVE DsLiveInv'
<1>1. PICK p : p = D!DTask("page", older, "asked", None)
  OBVIOUS
<1>2. /\ ds'.tasks = ds.tasks \cup {p} /\ ds'.top = ds.top /\ ds'.sv = ds.sv /\ ds'.ups = ds.ups /\ ds'.store = ds.store /\ ds'.ui = ds.ui
      /\ ds'.raced = ds.raced /\ ds'.still = ds.still
  BY <1>1, DsFieldsAre DEF D!LoadHistory, D!Does
<1>3. \A q \in ds.tasks : q.k # "page"
  BY DEF D!LoadHistory
<1>4. PageFine(p, ds.top, ds.sv, ds.ups, ds.raced) /\ p.k = "page" /\ p.ph = "asked"
  <2>1. p \in DsPages /\ p.ms = <<>> /\ p.set = 0 /\ p.ph = "asked" /\ p.k = "page"
    BY <1>1 DEF D!DTask, DsPages
  <2>2. ListFine(<<>>, ds.top, ds.sv, ds.ups, ds.raced)
    BY DEF ListFine, Copies, Unborn, Below, D!Held
  <2> QED
    BY <2>1, <2>2 DEF PageFine
<1> QED
  BY <1>2, <1>3, <1>4 DEF DsLiveInv, LiveFine, SeedFine

LEMMA LiveClicks == ASSUME DsShape, DsLiveInv, NEW id, D!React(id) PROVE DsLiveInv'
<1>1. PICK p : p = D!DTask("react", FALSE, "read", id)
  OBVIOUS
<1>2. /\ ds'.tasks = ds.tasks \cup {p} /\ ds'.top = ds.top /\ ds'.sv = ds.sv /\ ds'.ups = ds.ups /\ ds'.store = ds.store /\ ds'.ui = ds.ui
      /\ ds'.raced = ds.raced /\ ds'.still = ds.still
  BY <1>1, DsFieldsAre DEF D!React, D!Does
<1>3. p.k = "react" /\ p.ph = "read"
  BY <1>1 DEF D!DTask
<1>4. LiveFine(ds.top, ds.sv, ds.ups, ds.store, ds.ui, ds.raced, ds.tasks \cup {p}) /\ SeedFine(ds.store, ds.still, ds.tasks \cup {p})
  BY <1>3, PagesOnly DEF DsLiveInv
<1> QED
  BY <1>2, <1>3, <1>4 DEF DsLiveInv

LEMMA LivePages == ASSUME DsShape, DsLiveInv, NEW p \in ds.tasks, D!HistoryGoes(p), StoreCap \in Nat, PageSize \in Nat PROVE DsLiveInv'
<1>1. /\ p.k = "page" /\ PageFine(p, ds.top, ds.sv, ds.ups, ds.raced) /\ p \in DsPages
      /\ LiveFine(ds.top, ds.sv, ds.ups, ds.store, ds.ui, ds.raced, ds.tasks)
      /\ ds.store \in Seq(DsMsg) /\ Descending(ds.store) /\ Descending(p.ms) /\ \A q \in ds.tasks : q.k = "page" => q = p
  BY DEF D!HistoryGoes, DsLiveInv, LiveFine, PageFine, ListFine, SeedFine, Descending
<1>2. LiveFine(ds.top, ds.sv, ds.ups, ds.store, ds.ui, ds.raced, ds.tasks \ {p}) /\ SeedFine(ds.store, ds.still, ds.tasks \ {p})
  BY PagesOnly DEF DsLiveInv
<1>3. CASE p.ph = "asked" /\ D!Goes([ds EXCEPT !.tasks = @ \ {p}])
  <2>1. /\ ds'.tasks = ds.tasks \ {p} /\ ds'.top = ds.top /\ ds'.sv = ds.sv /\ ds'.ups = ds.ups /\ ds'.store = ds.store /\ ds'.ui = ds.ui
        /\ ds'.raced = ds.raced /\ ds'.still = ds.still
    BY <1>3, DsFieldsAre DEF D!Goes
  <2> QED
    BY <1>2, <2>1 DEF DsLiveInv
<1>4. ASSUME NEW s \in D!Page(IF p.older THEN {i \in D!Live : \A j \in DOMAIN ds.ui : i < j} ELSE D!Live), p.ph = "asked",
             D!Goes([D!Step(p, D!Got(p, D!Read(s))) EXCEPT !.still = TRUE,
                       !.raced = @ \cup {ds.ups[i].id : i \in {j \in DOMAIN ds.ups : ds.ups[j].k = "create"}}])
      PROVE  DsLiveInv'
  <2>1. PICK ids \in SUBSET DOMAIN ds.sv : s \in D!Page(ids)
    BY <1>4 DEF D!Live
  <2>2. PICK ms : ms = PageOf(s, ds.sv)
    OBVIOUS
  <2>3. PICK raced2 : raced2 = ds.raced \cup {ds.ups[i].id : i \in {j \in DOMAIN ds.ups : ds.ups[j].k = "create"}}
    OBVIOUS
  <2>4. PICK next : next = D!Got(p, ms)
    OBVIOUS
  <2>5. D!Goes([D!Step(p, next) EXCEPT !.still = TRUE, !.raced = raced2])
    <3>1. D!Goes([D!Step(p, next) EXCEPT !.still = TRUE, !.raced = @ \cup {ds.ups[i].id : i \in {j \in DOMAIN ds.ups : ds.ups[j].k = "create"}}])
      BY <1>4, <2>2, <2>4 DEF D!Read, PageOf
    <3>2. D!Step(p, next).raced = ds.raced
      BY DsFieldsAre DEF D!Step
    <3> QED
      BY <2>3, <3>1, <3>2
  <2>6. /\ ds'.tasks = (ds.tasks \ {p}) \cup {next} /\ ds'.top = ds.top /\ ds'.sv = ds.sv /\ ds'.ups = ds.ups /\ ds'.store = ds.store
        /\ ds'.ui = ds.ui /\ ds'.raced = raced2 /\ ds'.still = TRUE
    BY <2>5, DsFieldsAre DEF D!Goes, D!Step
  <2>7. PICK b : b = (Len(ds.store) + Len(ms) <= StoreCap /\ D!Apart(ds.store, ms, p.older))
    OBVIOUS
  <2>8. b \in BOOLEAN
    BY <2>7
  <2>9. /\ next = [p EXCEPT !.ph = "got", !.ms = ms, !.fits = b]
    BY <2>4, <2>7 DEF D!Got
  <2>10. ListFine(ms, ds.top, ds.sv, ds.ups, raced2) /\ ms \in Seq(DsMsg) /\ Descending(ms)
    <3>1. ServerFine(ds.top, ds.sv, ds.ups) /\ \A i \in DOMAIN ds.ups : ds.ups[i].k = "create" => ds.ups[i].id \in raced2
      BY <1>1, <2>3 DEF LiveFine
    <3> QED
      BY <2>1, <2>2, <3>1, PageRead
  <2>12. /\ next \in DsPages /\ next.set = 0 /\ next.ms = ms /\ next.k = "page" /\ next.ph = "got" /\ next.fits = b
         /\ PageFine(next, ds.top, ds.sv, ds.ups, raced2)
    <3>1. p.set = 0
      BY <1>1, <1>4 DEF PageFine
    <3>2. next \in DsPages /\ next.set = 0 /\ next.ms = ms /\ next.k = "page" /\ next.ph = "got" /\ next.fits = b
      BY <1>1, <2>8, <2>9, <2>10, <3>1 DEF DsPages
    <3>3. 0 <= Len(ms)
      BY <2>10
    <3> QED
      BY <2>10, <3>2, <3>3 DEF PageFine, Descending
  <2>11. LiveFine(ds.top, ds.sv, ds.ups, ds.store, ds.ui, raced2, (ds.tasks \ {p}) \cup {next})
    <3>1. ds.raced \subseteq raced2
      BY <2>3
    <3>2. ListFine(ds.store, ds.top, ds.sv, ds.ups, raced2)
      BY <1>1, <3>1 DEF LiveFine, ListFine, Copies, Unborn
    <3>3. LiveFine(ds.top, ds.sv, ds.ups, ds.store, ds.ui, ds.raced, ds.tasks) /\ p.k = "page"
      BY <1>1
    <3> QED
      BY <2>12, <3>1, <3>2, <3>3, PageGoes
  <2>13. next.fits => Seeding(next, ds.store)
    <3>1. next.older = p.older
      BY <1>1, <2>9 DEF DsPages
    <3>2. next.fits => Len(ds.store) + Len(ms) <= StoreCap /\ D!Apart(ds.store, ms, next.older)
      BY <2>7, <2>12, <3>1
    <3> QED
      BY <1>1, <2>10, <2>12, <3>2, SeedRead
  <2>14. SeedFine(ds.store, TRUE, (ds.tasks \ {p}) \cup {next})
    BY <1>1, <2>13 DEF SeedFine
  <2> QED
    BY <2>6, <2>11, <2>12, <2>14 DEF DsLiveInv
<1>5. CASE p.ph = "got" /\ p.set < Len(p.ms) /\ D!Goes([D!Step(p, [p EXCEPT !.set = @ + 1]) EXCEPT !.store = D!MessageSet(@, D!Seed(p))])
  <2>1. PICK next : next = [p EXCEPT !.set = @ + 1]
    OBVIOUS
  <2>2. PICK new : new = D!MessageSet(ds.store, D!Seed(p))
    OBVIOUS
  <2>3. D!Goes([D!Step(p, next) EXCEPT !.store = new])
    <3>1. D!Step(p, next).store = ds.store
      BY DsFieldsAre DEF D!Step
    <3> QED
      BY <1>5, <2>1, <2>2, <3>1
  <2>4. /\ ds'.tasks = (ds.tasks \ {p}) \cup {next} /\ ds'.top = ds.top /\ ds'.sv = ds.sv /\ ds'.ups = ds.ups /\ ds'.store = new
        /\ ds'.ui = ds.ui /\ ds'.raced = ds.raced /\ ds'.still = ds.still
    BY <2>3, DsFieldsAre DEF D!Goes, D!Step
  <2>5. p.set \in Nat /\ D!Seed(p) \in DsMsg /\ LiveFine(ds.top, ds.sv, ds.ups, new, ds.ui, ds.raced, (ds.tasks \ {p}) \cup {next})
    BY <1>1, <1>5, <2>1, <2>2, PageSeeded
  <2>6. Descending(new)
    BY <1>1, <2>2, <2>5, SetMade
  <2>7. next \in DsPages /\ next.ms = p.ms /\ next.older = p.older /\ next.set = p.set + 1 /\ next.k = "page" /\ next.fits = p.fits
    BY <1>1, <2>1 DEF DsPages
  <2>8. next.fits /\ ds.still => Seeding(next, new)
    <3>1. p.fits /\ ds.still => Seeding(p, ds.store)
      BY <1>1, <1>5 DEF DsLiveInv, SeedFine
    <3> QED
      BY <1>1, <1>5, <2>2, <2>7, <3>1, SeedNext
  <2>9. SeedFine(new, ds.still, (ds.tasks \ {p}) \cup {next})
    BY <1>1, <2>6, <2>8 DEF SeedFine
  <2> QED
    BY <2>4, <2>5, <2>7, <2>9 DEF DsLiveInv
<1>6. CASE p.ph = "got" /\ p.set = Len(p.ms)
           /\ LET new == {p.ms[i].id : i \in DOMAIN p.ms} \ DOMAIN ds.ui
              IN  D!Goes([ds EXCEPT !.tasks = @ \ {p}, !.ui = [x \in DOMAIN @ \cup new |->
                            IF x \in DOMAIN @ THEN @[x] ELSE p.ms[CHOOSE i \in DOMAIN p.ms : p.ms[i].id = x].reacts]])
  <2>1. PICK new : new = {p.ms[i].id : i \in DOMAIN p.ms} \ DOMAIN ds.ui
    OBVIOUS
  <2>2. PICK ui2 : ui2 = [x \in DOMAIN ds.ui \cup new |-> IF x \in DOMAIN ds.ui THEN ds.ui[x] ELSE p.ms[CHOOSE i \in DOMAIN p.ms : p.ms[i].id = x].reacts]
    OBVIOUS
  <2>3. D!Goes([ds EXCEPT !.tasks = @ \ {p}, !.ui = ui2])
    BY <1>6, <2>1, <2>2
  <2>4. /\ ds'.tasks = ds.tasks \ {p} /\ ds'.top = ds.top /\ ds'.sv = ds.sv /\ ds'.ups = ds.ups /\ ds'.store = ds.store /\ ds'.ui = ui2
        /\ ds'.raced = ds.raced /\ ds'.still = ds.still
    BY <2>3, DsFieldsAre DEF D!Goes
  <2>5. LiveFine(ds.top, ds.sv, ds.ups, ds.store, ui2, ds.raced, ds.tasks \ {p})
    <3>1. LiveFine(ds.top, ds.sv, ds.ups, ds.store, ds.ui, ds.raced, ds.tasks) /\ p.k = "page"
      BY <1>1
    <3> QED
      BY <2>1, <2>2, <3>1, PagePosted
  <2> QED
    BY <1>2, <2>4, <2>5 DEF DsLiveInv
<1> QED
  BY <1>3, <1>4, <1>5, <1>6 DEF D!HistoryGoes

LEMMA LiveReacts == ASSUME DsShape, DsLiveInv, NEW p \in ds.tasks, D!ReactGoes(p) PROVE DsLiveInv'
<1>1. p.k = "react" /\ p.ph \in {"read", "add", "remove"}
  BY DEF D!ReactGoes, DsLiveInv
<1>2. /\ LiveFine(ds.top, ds.sv, ds.ups, ds.store, ds.ui, ds.raced, ds.tasks \ {p})
      /\ SeedFine(ds.store, ds.still, ds.tasks \ {p}) /\ ServerFine(ds.top, ds.sv, ds.ups)
      /\ ds.sv \in [DOMAIN ds.sv -> SUBSET Who] /\ DOMAIN ds.sv \subseteq Int
  <2>1. ServerFine(ds.top, ds.sv, ds.ups)
    BY DEF DsLiveInv, LiveFine
  <2> QED
    BY <2>1, PagesOnly DEF DsLiveInv, ServerFine
<1>3. CASE D!Goes([ds EXCEPT !.tasks = @ \ {p}])
  <2>1. /\ ds'.tasks = ds.tasks \ {p} /\ ds'.top = ds.top /\ ds'.sv = ds.sv /\ ds'.ups = ds.ups /\ ds'.store = ds.store /\ ds'.ui = ds.ui
        /\ ds'.raced = ds.raced /\ ds'.still = ds.still
    BY <1>3, DsFieldsAre DEF D!Goes
  <2> QED
    BY <1>2, <2>1 DEF DsLiveInv
<1>4. ASSUME NEW reacts, p.ph = "read", D!Goes(D!Step(p, [p EXCEPT !.ph = D!Toggle("me" \in reacts)])) PROVE DsLiveInv'
  <2>1. PICK ph \in {"add", "remove"} : ph = D!Toggle("me" \in reacts)
    BY DEF D!Toggle
  <2>2. PICK next : next = [p EXCEPT !.ph = ph]
    OBVIOUS
  <2>3. /\ ds'.tasks = (ds.tasks \ {p}) \cup {next} /\ ds'.top = ds.top /\ ds'.sv = ds.sv /\ ds'.ups = ds.ups /\ ds'.store = ds.store
        /\ ds'.ui = ds.ui /\ ds'.raced = ds.raced /\ ds'.still = ds.still
    BY <1>4, <2>1, <2>2, DsFieldsAre DEF D!Goes, D!Step
  <2>4. next.k = "react" /\ (next.ph = ph \/ next = p)
    BY <1>1, <2>2
  <2>5. /\ LiveFine(ds.top, ds.sv, ds.ups, ds.store, ds.ui, ds.raced, (ds.tasks \ {p}) \cup {next})
        /\ SeedFine(ds.store, ds.still, (ds.tasks \ {p}) \cup {next})
    BY <2>4, PagesOnly DEF DsLiveInv
  <2> QED
    BY <1>1, <2>3, <2>4, <2>5 DEF DsLiveInv
<1>5. ASSUME NEW r, p.ph # "read", p.add \in DOMAIN ds.sv, r = IF p.ph = "add" THEN ds.sv[p.add] \cup {"me"} ELSE ds.sv[p.add] \ {"me"},
             NEW upt, upt = IF r = ds.sv[p.add] THEN ds.ups ELSE Append(ds.ups, [k |-> p.ph, id |-> p.add, who |-> "me"]),
             D!Goes([ds EXCEPT !.tasks = @ \ {p}, !.sv = D!Show(@, p.add, r), !.ups = upt])
      PROVE  DsLiveInv'
  <2>1. PICK sw : sw = D!Show(ds.sv, p.add, r)
    OBVIOUS
  <2>2. /\ ds'.tasks = ds.tasks \ {p} /\ ds'.top = ds.top /\ ds'.sv = sw /\ ds'.ups = upt /\ ds'.store = ds.store
        /\ ds'.ui = ds.ui /\ ds'.raced = ds.raced /\ ds'.still = ds.still
    BY <1>5, <2>1, DsFieldsAre DEF D!Goes
  <2>3. CASE r = ds.sv[p.add]
    <3>1. sw = ds.sv
      BY <1>2, <1>5, <2>1, <2>3 DEF D!Show
    <3>2. upt = ds.ups
      BY <1>5, <2>3
    <3> QED
      BY <1>2, <2>2, <3>1, <3>2 DEF DsLiveInv
  <2>4. CASE r # ds.sv[p.add]
    <3>1. PICK up : up = [k |-> p.ph, id |-> p.add, who |-> "me"]
      OBVIOUS
    <3>2. "me" \in Who /\ r \in SUBSET Who
      BY <1>2, <1>5 DEF Who
    <3>3. up \in DsUp /\ up.id = p.add /\ up.k = p.ph /\ up.who = "me" /\ up.k \in {"add", "remove"}
      BY <1>1, <1>2, <1>5, <3>1, <3>2 DEF DsUp
    <3>4. \A x \in Who : IF About(up, p.add, x) THEN up.k = "add" <=> x \in r ELSE x \in r <=> x \in ds.sv[p.add]
      BY <1>5, <3>3 DEF About
    <3>5. upt = Append(ds.ups, up)
      BY <1>5, <2>4, <3>1
    <3>6. /\ ServerFine(ds.top, sw, upt) /\ NewBirths(ds.ups, upt, ds.top) /\ DOMAIN sw = DOMAIN ds.sv
          /\ \A j \in DOMAIN sw : Carries(j, ds.sv, ds.ups, sw, upt)
      <4>1. ServerFine(ds.top, ds.sv, ds.ups) /\ p.add \in DOMAIN ds.sv /\ r \in SUBSET Who /\ up \in DsUp /\ up.id = p.add /\ up.k \notin {"create", "delete"}
        BY <1>2, <1>5, <3>2, <3>3
      <4> QED
        BY <2>1, <3>4, <3>5, <4>1, EventSent
    <3>7. ds.top <= ds.top
      BY <1>2 DEF ServerFine
    <3>8. LiveFine(ds.top, sw, upt, ds.store, ds.ui, ds.raced, ds.tasks \ {p})
      BY <1>2, <3>6, <3>7, EventsKept
    <3> QED
      BY <1>2, <2>2, <3>8 DEF DsLiveInv
  <2> QED
    BY <2>3, <2>4
<1> QED
  BY <1>3, <1>4, <1>5 DEF D!ReactGoes, D!Live

LEMMA LiveKept == ASSUME DsShape, DsLiveInv, DsServerStep \/ DsPageStep, StoreCap \in Nat, PageSize \in Nat PROVE DsLiveInv'
<1>1. CASE DsServerStep
  <2>1. ASSUME NEW id, D!ServerReacts(id, "add") \/ D!ServerReacts(id, "remove") \/ D!ServerClears(id) \/ D!ServerDeletes(id) PROVE DsLiveInv'
    BY <2>1, LiveServer
  <2> QED
    BY <1>1, <2>1, LiveCreates, LiveTreated DEF DsServerStep
<1>2. CASE DsPageStep
  BY <1>2, LiveAsks, LiveClicks, LivePages, LiveReacts DEF DsPageStep
<1> QED
  BY <1>1, <1>2

\* The steps of the other scenes leave the store and the screen; the tasks of
\* the guilds are no pages.
LEMMA LiveStay ==
    ASSUME DsShape, DsLiveInv, NEW G, DsIn(G, ds, ds'), G \cap {"top", "sv", "ups", "store", "ui", "raced", "still"} = {},
           "tasks" \notin G \/ (\A p \in ds'.tasks : p.k = "list")
    PROVE  DsLiveInv'
<1>1. \A f \in DsFields \ G : ds'[f] = ds[f]
  BY RecDomain DEF DsIn, Within, Only, DsShape
<1>2. /\ ds'.top = ds.top /\ ds'.sv = ds.sv /\ ds'.ups = ds.ups /\ ds'.store = ds.store /\ ds'.ui = ds.ui
      /\ ds'.raced = ds.raced /\ ds'.still = ds.still
  BY <1>1, DsFieldsAre
<1>3. ds'.tasks = ds.tasks \/ \A p \in ds'.tasks : p.k = "list"
  BY <1>1, DsFieldsAre
<1>4. CASE ds'.tasks = ds.tasks
  BY <1>2, <1>4 DEF DsLiveInv
<1>5. CASE \A p \in ds'.tasks : p.k = "list"
  <2>1. \A p \in ds'.tasks : p.k # "page" /\ p.k # "react"
    BY <1>5
  <2>2. LiveFine(ds.top, ds.sv, ds.ups, ds.store, ds.ui, ds.raced, ds'.tasks) /\ SeedFine(ds.store, ds.still, ds'.tasks)
    BY <2>1, PagesOnly DEF DsLiveInv
  <2> QED
    BY <1>2, <2>1, <2>2 DEF DsLiveInv
<1> QED
  BY <1>3, <1>4, <1>5

LEMMA LiveInit == ASSUME D!DscInit PROVE DsLiveInv
<1>1. PICK top \in 1..2 : ds.tasks = {} /\ ds.top = top /\ ds.sv = [i \in 1..top |-> {}] /\ ds.ups = <<>> /\ ds.store = <<>>
                          /\ ds.ui = [i \in {} |-> {}] /\ ds.raced = {} /\ ds.still = FALSE
  BY DEF D!DscInit
<1>2. ServerFine(ds.top, ds.sv, ds.ups)
  BY <1>1 DEF ServerFine, Below, EndsRight, BornOnce
<1>3. ListFine(ds.store, ds.top, ds.sv, ds.ups, ds.raced)
  BY <1>1 DEF ListFine, Copies, Unborn, Below, D!Held
<1>4. ScreenFine(ds.ui, ds.top, ds.sv, ds.ups, ds.raced)
  BY <1>1 DEF ScreenFine, Shown
<1>5. SeedFine(ds.store, ds.still, ds.tasks)
  BY <1>1 DEF SeedFine, Descending
<1> QED
  BY <1>1, <1>2, <1>3, <1>4, <1>5 DEF DsLiveInv, LiveFine

LEMMA LiveRight == ASSUME DsLiveInv PROVE D!ReactsFollow /\ D!PageHeld
<1>1. ASSUME ds.ups = <<>>, NEW id \in (DOMAIN ds.ui \cap D!Live) \ ds.raced, D!Held(ds.store, id)
      PROVE  ds.ui[id] = ds.sv[id] /\ D!ReactsOf(ds.store, id) = ds.sv[id]
  <2>1. /\ ServerFine(ds.top, ds.sv, ds.ups) /\ ListFine(ds.store, ds.top, ds.sv, ds.ups, ds.raced) /\ ds.store \in Seq(DsMsg)
        /\ ScreenFine(ds.ui, ds.top, ds.sv, ds.ups, ds.raced)
    BY DEF DsLiveInv, LiveFine, ListFine
  <2>2. id \in DOMAIN ds.sv /\ id \in DOMAIN ds.ui /\ id \notin ds.raced /\ ds.sv[id] \subseteq Who /\ ds.ui[id] \subseteq Who
    BY <1>1, <2>1 DEF D!Live, ServerFine, ScreenFine
  <2>3. ASSUME NEW r, r \subseteq Who, Fresh(r, id, ds.sv, ds.ups) PROVE r = ds.sv[id]
    <3>1. \A who \in Who : NoneAbout(ds.ups, id, who)
      BY <1>1 DEF NoneAbout
    <3>2. \A who \in Who : who \in r <=> who \in ds.sv[id]
      BY <2>3, <3>1 DEF Fresh
    <3> QED
      BY <2>2, <2>3, <3>2
  <2>4. ds.ui[id] = ds.sv[id]
    BY <2>1, <2>2, <2>3 DEF ScreenFine, Shown
  <2>5. PICK at \in DOMAIN ds.store : ds.store[at].id = id /\ D!ReactsOf(ds.store, id) = ds.store[at].reacts
    BY <1>1 DEF D!Held, D!ReactsOf, D!Place
  <2>6. D!ReactsOf(ds.store, id) = ds.sv[id]
    <3>1. ds.store[at].reacts \subseteq Who
      BY <2>1, IdOfMsg
    <3> QED
      BY <2>1, <2>2, <2>3, <2>5, <3>1 DEF ListFine, Copies
  <2> QED
    BY <2>4, <2>6
<1>2. ASSUME NEW p \in ds.tasks, p.k = "page", p.fits, ds.still, p.set = Len(p.ms) PROVE \A i \in DOMAIN p.ms : D!Held(ds.store, p.ms[i].id)
  <2>1. p \in DsPages /\ ds.store \in Seq(DsMsg) /\ (p.ph = "asked" => p.ms = <<>>) /\ p.ph \in {"asked", "got"}
    BY <1>2 DEF DsLiveInv, LiveFine, PageFine, ListFine, DsPages
  <2>2. p.ph = "got" => Seeding(p, ds.store)
    BY <1>2 DEF DsLiveInv, SeedFine
  <2>3. CASE p.ph = "asked"
    BY <2>1, <2>3
  <2>4. CASE p.ph = "got"
    BY <1>2, <2>1, <2>2, <2>4, SeedOver
  <2> QED
    BY <2>1, <2>3, <2>4
<1> QED
  BY <1>1, <1>2 DEF D!ReactsFollow, D!PageHeld

-----------------------------------------------------------------------------
(* Discord: all the scenes.                                                *)
DsInv == DsShape /\ DsFilesInv /\ DsLoginInv /\ DsSearchInv /\ DsCallsInv /\ DsGuildInv /\ DsLiveInv
DsConstants == None \notin {"temp", "part", "whole", "live", "dead", "revoked"} /\ StoreCap \in Nat /\ PageSize \in Nat

LEMMA DsOpsOn == ASSUME DsGuildInv, [D!DscNext]_dscVars PROVE dsOps' = dsOps \/ dsOps' = dsOps + 1
<1> DEFINE G == dsOps' = dsOps \/ dsOps' = dsOps + 1
<1>1. (\E next : D!Does(next) \/ D!Goes(next) \/ D!Login(next) \/ D!Acts(next)) => G
  BY Zenon DEF D!Does, D!Goes, D!Login, D!Acts
<1>2. CASE DsServerStep
  <2>1. D!ServerCreates \/ (\E id : D!ServerReacts(id, "add") \/ D!ServerReacts(id, "remove") \/ D!ServerClears(id) \/ D!ServerDeletes(id)) => G
    BY <1>1, Zenon DEF D!ServerCreates, D!ServerReacts, D!ServerClears, D!ServerDeletes, D!Server
  <2>2. D!Handle => G
    <3>1. D!Handle => \E next : D!Goes(next)
      <4>1. SUFFICES ASSUME D!Handle PROVE \E next : D!Goes(next)
        OBVIOUS
      <4>2. PICK up, p : up = Head(ds.ups) /\ p = [ds EXCEPT !.ups = Tail(@), !.still = @ /\ up.k \notin {"create", "delete"}]
        OBVIOUS
      <4>3. CASE up.k = "create"
        <5>1. D!Goes([p EXCEPT !.store = D!MessageSet(@, [id |-> up.id, reacts |-> {}]), !.ui = D!Show(@, up.id, {})])
          BY <4>1, <4>2, <4>3 DEF D!Handle
        <5> QED
          BY <5>1, Zenon
      <4>4. CASE up.k = "delete"
        <5>1. D!Goes([p EXCEPT !.store = IF D!Held(@, up.id) THEN D!RemoveAt(@, D!Place(@, up.id)) ELSE @, !.ui = D!Restrict(@, DOMAIN @ \ {up.id})])
          BY <4>1, <4>2, <4>4 DEF D!Handle
        <5> QED
          BY <5>1, Zenon
      <4>5. CASE up.k \notin {"create", "delete"}
        <5>1. D!Goes(D!Reactions([p EXCEPT !.store = D!Change(@, up),
                             !.raced = IF ~D!Held(ds.store, up.id) \/ D!InFlight(up.id) THEN @ \cup {up.id} ELSE @], up))
          BY <4>1, <4>2, <4>5 DEF D!Handle
        <5> QED
          BY <5>1, Zenon
      <4> QED
        BY <4>3, <4>4, <4>5
    <3> QED
      BY <3>1, <1>1
  <2> QED
    BY <1>2, <2>1, <2>2 DEF DsServerStep
<1>3. CASE DsPageStep
  <2>1. (\E older : D!LoadHistory(older)) \/ (\E id : D!React(id)) => G
    BY <1>1, Zenon DEF D!LoadHistory, D!React
  <2>2. \A p : D!HistoryGoes(p) => G
    BY <1>1, Zenon DEF D!HistoryGoes
  <2>3. \A p : D!ReactGoes(p) => G
    BY <1>1, Zenon DEF D!ReactGoes
  <2> QED
    BY <1>3, <2>1, <2>2, <2>3, Zenon DEF DsPageStep
<1>4. CASE DsGuildStep
  <2>1. D!LoadDialogs \/ D!Outage \/ D!Back \/ D!GuildGone \/ D!EmojisChange \/ (\E c : D!ChatFor(c)) \/ (\E c : D!DeleteChat(c)) => G
    BY <1>1, Zenon DEF D!LoadDialogs, D!Outage, D!Back, D!GuildGone, D!EmojisChange, D!ChatFor, D!DeleteChat, D!Guild
  <2>2. ASSUME NEW p \in ds.tasks, D!DialogsGo(p) PROVE G
    <3>1. p.ph \in {"guilds", "chans", "emojis", "cached", "post"}
      <4>1. p.k = "list"
        BY <2>2 DEF D!DialogsGo
      <4> QED
        BY <4>1 DEF DsGuildInv, DsTasksInv, ListRight
    <3>2. \A next : D!Goes(next) => G
      BY <1>1, Zenon
    <3> HIDE DEF G
    <3> QED
      BY <2>2, <3>1, <3>2 DEF D!DialogsGo
  <2> QED
    BY <1>4, <2>1, <2>2, Zenon DEF DsGuildStep
<1>5. CASE DsSearchStep
  <2>1. (\E all : D!AskSearch(all)) \/ D!BudgetSpent => G
    BY <1>1, Zenon DEF D!AskSearch, D!BudgetSpent
  <2>2. D!Search => G
    BY <1>1, Zenon DEF D!Search
  <2>3. D!SearchGlobal => G
    BY <1>1, Zenon DEF D!SearchGlobal
  <2> QED
    BY <1>5, <2>1, <2>2, <2>3, Zenon DEF DsSearchStep
<1>6. CASE DsFileStep
  <2>1. D!Download \/ (\E work : D!Upload(work)) \/ D!Quit \/ (\E x : D!Stalls(x)) => G
    BY <1>1, Zenon DEF D!Download, D!Upload, D!Quit, D!Stalls
  <2>2. \A x : D!Slot(x) => G
    BY <1>1, Zenon DEF D!Slot
  <2>3. \A x : D!DownloadGoes(x) => G
    BY <1>1, Zenon DEF D!DownloadGoes, D!Fetch
  <2>4. \A x : D!UploadGoes(x) => G
    BY <1>1, Zenon DEF D!UploadGoes
  <2>5. D!Transfers => G
    <3>1. D!Transfers => \E x : D!Slot(x) \/ D!DownloadGoes(x) \/ D!UploadGoes(x)
      BY DEF D!Transfers
    <3> QED
      BY <3>1, <2>2, <2>3, <2>4, Zenon
  <2> QED
    BY <1>6, <2>1, <2>5, Zenon DEF DsFileStep
<1>7. CASE DsLoginStep
  <2>1. D!StartRun \/ D!ShowCode \/ D!Scanned \/ D!Enter \/ D!PendingLogin \/ D!QRFails \/ D!Revoke \/ D!LosesNet \/ D!QuitRun \/ D!Logout => G
    BY <1>1, Zenon DEF D!StartRun, D!ShowCode, D!Scanned, D!Enter, D!PendingLogin, D!QRFails, D!Revoke, D!LosesNet, D!QuitRun, D!Logout
  <2>2. D!GivesUp \/ D!Closed => G
    BY <1>1, Zenon DEF D!GivesUp, D!Closed
  <2>3. D!Open => G
    <3>1. \A next : D!Login(next) => G
      BY <1>1, Zenon
    <3> HIDE DEF G
    <3> QED
      BY <3>1 DEF D!Open
  <2> QED
    BY <1>7, <2>1, <2>2, <2>3 DEF DsLoginStep
<1>8. CASE DsCallStep
  <2>1. (\E op : D!Call(op)) => G
    BY <1>1, Zenon DEF D!Call
  <2>2. \A c : D!CallGoes(c) => G
    BY <1>1, Zenon DEF D!CallGoes
  <2> QED
    BY <1>8, <2>1, <2>2, Zenon DEF DsCallStep, D!CallsGo
<1>9. CASE UNCHANGED dscVars
  BY <1>9 DEF dscVars
<1> QED
  BY <1>2, <1>3, <1>4, <1>5, <1>6, <1>7, <1>8, <1>9, DsNextParts

\* What a step of one scene leaves of the others.
LEMMA DsFilesStay == ASSUME DsShape, DsFilesInv, dsOps' = dsOps \/ dsOps' = dsOps + 1,
                            ds'.files = ds.files, ds'.path = ds.path, ds'.temps = ds.temps, ds'.gone = ds.gone
                     PROVE  DsFilesInv'
<1>1. PICK m : m = dsOps'
  OBVIOUS
<1>2. m \in Int /\ m >= dsOps
  BY <1>1 DEF DsFilesInv, FilesInv
<1>3. FilesInv(ds.files, ds.path, ds.temps, ds.gone, m)
  BY <1>2, FilesLater DEF DsFilesInv
<1> QED
  BY <1>1, <1>3 DEF DsFilesInv

LEMMA DsStay ==
    ASSUME DsInv, dsOps' = dsOps \/ dsOps' = dsOps + 1, NEW G, DsIn(G, ds, ds')
    PROVE  /\ DsShape'
           /\ G \cap DsFileFields = {} => DsFilesInv'
           /\ "lg" \notin G => DsLoginInv'
           /\ "q" \notin G => DsSearchInv'
           /\ "calls" \notin G => DsCallsInv'
           /\ G \cap {"g", "tasks", "scene"} = {} => DsGuildInv'
<1>1. DsShape' /\ \A f \in DsFields \ G : ds'[f] = ds[f]
  BY RecDomain DEF DsIn, Within, Only, DsShape, DsInv
<1>2. ASSUME G \cap DsFileFields = {} PROVE DsFilesInv'
  <2>1. ds'.files = ds.files /\ ds'.path = ds.path /\ ds'.temps = ds.temps /\ ds'.gone = ds.gone
    BY <1>1, <1>2 DEF DsFields, DsFileFields
  <2> QED
    BY <2>1, DsFilesStay DEF DsInv
<1>3. ASSUME "lg" \notin G PROVE DsLoginInv'
  <2>1. ds'.lg = ds.lg
    BY <1>1, <1>3 DEF DsFields
  <2> QED
    BY <2>1 DEF DsInv, DsLoginInv
<1>4. ASSUME "q" \notin G PROVE DsSearchInv'
  <2>1. ds'.q = ds.q
    BY <1>1, <1>4 DEF DsFields
  <2> QED
    BY <2>1 DEF DsInv, DsSearchInv
<1>5. ASSUME "calls" \notin G PROVE DsCallsInv'
  <2>1. ds'.calls = ds.calls
    BY <1>1, <1>5 DEF DsFields
  <2> QED
    BY <2>1 DEF DsInv, DsCallsInv
<1>6. ASSUME G \cap {"g", "tasks", "scene"} = {} PROVE DsGuildInv'
  <2>1. ds'.g = ds.g /\ ds'.tasks = ds.tasks /\ ds'.scene = ds.scene
    BY <1>1, <1>6 DEF DsFields
  <2> QED
    BY <2>1 DEF DsInv, DsGuildInv, DsTasksInv
<1> QED
  BY <1>1, <1>2, <1>3, <1>4, <1>5, <1>6

LEMMA DsInvKept == ASSUME DsInv, [D!DscNext]_dscVars, DsConstants PROVE DsInv'
<1>0. (dsOps' = dsOps \/ dsOps' = dsOps + 1) /\ None \notin {"live", "dead", "revoked"} /\ None \notin {"temp", "part", "whole"}
  BY DsOpsOn DEF DsInv, DsConstants
<1>1. CASE DsServerStep
  <2>1. DsIn(DsServerFields, ds, ds')
    BY <1>1, DsServerFrame DEF DsInv
  <2>2. DsLiveInv'
    BY <1>1, LiveKept DEF DsInv, DsConstants
  <2> QED
    BY <1>0, <2>1, <2>2, DsStay DEF DsInv, DsServerFields, DsFileFields
<1>2. CASE DsPageStep
  <2>1. DsIn(DsLiveFields, ds, ds') /\ DsGuildInv'
    BY <1>2, DsPageFrame, DsPageTasks DEF DsInv
  <2>2. DsLiveInv'
    BY <1>2, LiveKept DEF DsInv, DsConstants
  <2> QED
    BY <1>0, <2>1, <2>2, DsStay DEF DsInv, DsLiveFields, DsFileFields
<1>3. CASE DsGuildStep
  <2>1. DsIn(DsGuildFields, ds, ds') /\ DsGuildInv' /\ ds.scene = "guilds"
    BY <1>3, DsGuildKept DEF DsInv
  <2>2. \A p \in ds'.tasks : p.k = "list"
    <3>1. ds'.scene = ds.scene
      BY <2>1, RecDomain DEF DsIn, Within, Only, DsInv, DsShape, DsFields, DsGuildFields
    <3> QED
      BY <2>1, <3>1 DEF DsGuildInv, DsTasksInv, ListRight
  <2>3. DsLiveInv'
    BY <2>1, <2>2, LiveStay DEF DsInv, DsGuildFields
  <2> QED
    BY <1>0, <2>1, <2>3, DsStay DEF DsInv, DsGuildFields, DsFileFields
<1>4. CASE DsSearchStep
  <2>1. DsIn({"q"}, ds, ds') /\ DsSearchInv'
    BY <1>4, DsSearchKept DEF DsInv, DsIn, Within, DsShape
  <2>2. DsLiveInv'
    BY <2>1, LiveStay DEF DsInv, DsFileFields
  <2> QED
    BY <1>0, <2>1, <2>2, DsStay DEF DsInv, DsFileFields
<1>5. CASE DsFileStep
  <2>1. DsIn(DsFileFields, ds, ds') /\ DsFilesInv'
    BY <1>0, <1>5, DsFileFrame, DsFileKept DEF DsInv
  <2>2. DsLiveInv'
    BY <2>1, LiveStay DEF DsInv, DsFileFields
  <2> QED
    BY <1>0, <2>1, <2>2, DsStay DEF DsInv, DsFileFields
<1>6. CASE DsLoginStep
  <2>1. DsIn({"lg"}, ds, ds') /\ DsLoginInv'
    BY <1>0, <1>6, DsLoginKept DEF DsInv, DsIn, Within, DsShape
  <2>2. DsLiveInv'
    BY <2>1, LiveStay DEF DsInv, DsFileFields
  <2> QED
    BY <1>0, <2>1, <2>2, DsStay DEF DsInv, DsFileFields
<1>7. CASE DsCallStep
  <2>1. DsIn({"calls"}, ds, ds') /\ DsCallsInv'
    BY <1>7, DsCallsKept DEF DsInv, DsIn, Within, DsShape
  <2>2. DsLiveInv'
    BY <2>1, LiveStay DEF DsInv, DsFileFields
  <2> QED
    BY <1>0, <2>1, <2>2, DsStay DEF DsInv, DsFileFields
<1>8. CASE UNCHANGED dscVars
  BY <1>8 DEF dscVars, DsInv, DsShape, DsFilesInv, DsLoginInv, DsSearchInv, DsCallsInv, DsGuildInv, DsTasksInv, DsLiveInv
<1> QED
  BY <1>1, <1>2, <1>3, <1>4, <1>5, <1>6, <1>7, <1>8, DsNextParts

LEMMA DsInvInit == ASSUME D!DscInit, DsConstants PROVE DsInv
<1>1. PICK scene \in {"live", "guilds", "search", "files", "login", "calls"}, incomplete \in BOOLEAN, own \in BOOLEAN, top \in 1..2 :
        /\ incomplete => scene = "guilds"
        /\ own => scene = "login"
        /\ top = 2 => scene = "live"
        /\ ds = [scene |-> scene, tasks |-> {}, top |-> top, sv |-> [i \in 1..top |-> {}], ups |-> <<>>, store |-> <<>>,
                 ui |-> [i \in {} |-> {}], raced |-> {}, still |-> FALSE,
                 g |-> [sv |-> IF incomplete THEN "outage" ELSE "in", incomplete |-> incomplete, line |-> ~incomplete,
                        chans |-> ~incomplete, emo |-> 0, cache |-> None, crossed |-> FALSE, ui |-> {"D", "G"},
                        missed |-> FALSE, destroyed |-> {}],
                 q |-> [all |-> FALSE, ph |-> "idle", at |-> 1, tries |-> 0, asked |-> 0, hits |-> 0, errs |-> 0, full |-> 0,
                        over |-> FALSE, said |-> None],
                 files |-> {}, path |-> "none", temps |-> 0, gone |-> {}, quit |-> FALSE,
                 lg |-> [at |-> "off", why |-> None, file |-> IF own THEN "live" ELSE None, own |-> own, overlay |-> FALSE,
                         prompt |-> FALSE, entered |-> FALSE, revoked |-> FALSE],
                 calls |-> {}]
  BY DEF D!DscInit
<1>2. dsOps = 0 /\ ds.files = {} /\ ds.path = "none" /\ ds.temps = 0 /\ ds.gone = {} /\ ds.calls = {} /\ ds.tasks = {}
  BY <1>1 DEF D!DscInit
<1>3. DsShape
  BY <1>1 DEF DsShape, IsRec, DsFields
<1>4. DsFilesInv
  <2>1. Temps(ds.files) = {}
    BY <1>2 DEF Temps
  <2> QED
    BY <1>2, <2>1, FS_EmptySet DEF DsFilesInv, FilesInv
<1>5. DsLoginInv
  <2>1. ds.lg = [at |-> "off", why |-> None, file |-> IF own THEN "live" ELSE None, own |-> own, overlay |-> FALSE,
                 prompt |-> FALSE, entered |-> FALSE, revoked |-> FALSE]
    BY <1>1
  <2>2. IsRec(DsLg, ds.lg)
    BY <2>1 DEF IsRec, DsLg
  <2> QED
    BY <2>1, <2>2 DEF DsLoginInv, LgRight, DsConstants
<1>6. DsSearchInv
  <2>1. ds.q = [all |-> FALSE, ph |-> "idle", at |-> 1, tries |-> 0, asked |-> 0, hits |-> 0, errs |-> 0, full |-> 0,
                over |-> FALSE, said |-> None]
    BY <1>1
  <2>2. IsRec(DsQ, ds.q)
    BY <2>1 DEF IsRec, DsQ
  <2> QED
    BY <2>1, <2>2 DEF DsSearchInv, QRight, QCounted
<1>7. DsCallsInv
  BY <1>2 DEF DsCallsInv
<1>8. DsGuildInv
  <2>1. ds.g = [sv |-> IF incomplete THEN "outage" ELSE "in", incomplete |-> incomplete, line |-> ~incomplete,
                chans |-> ~incomplete, emo |-> 0, cache |-> None, crossed |-> FALSE, ui |-> {"D", "G"},
                missed |-> FALSE, destroyed |-> {}]
    BY <1>1
  <2>2. IsRec(DsG, ds.g)
    BY <2>1 DEF IsRec, DsG
  <2> QED
    BY <1>2, <2>1, <2>2 DEF DsGuildInv, DsTasksInv, GRight
<1> QED
  BY <1>3, <1>4, <1>5, <1>6, <1>7, <1>8, LiveInit DEF DsInv

LEMMA DsRight == ASSUME DsInv, DsConstants
                 PROVE  D!FilesRight /\ D!LoginRight /\ D!SearchHonest /\ D!AnsweredOnce /\ D!GuildsKept /\ D!ReactsFollow /\ D!PageHeld
<1>1. D!FilesRight
  <2>1. FilesInv(ds.files, ds.path, ds.temps, ds.gone, dsOps) /\ None # "part"
    BY DEF DsInv, DsFilesInv, DsConstants
  <2> QED
    BY <2>1, FilesAreRight DEF D!FilesRight
<1>2. D!LoginRight
  BY DEF DsInv, DsLoginInv, LgRight, D!LoginRight
<1>3. D!SearchHonest
  BY DEF DsInv, DsSearchInv, QRight, QCounted, D!SearchHonest
<1>4. D!AnsweredOnce
  BY DEF DsInv, DsCallsInv, D!AnsweredOnce
<1>5. D!GuildsKept
  BY DEF DsInv, DsGuildInv, GRight, D!GuildsKept
<1> QED
  BY <1>1, <1>2, <1>3, <1>4, <1>5, LiveRight DEF DsInv
-----------------------------------------------------------------------------
(* The two records side by side, along any step of either.                 *)
RecordsInv == TgBreakerInv /\ TgLoginInv /\ TgFilesInv /\ TgUpdatesInv /\ DsInv

LEMMA NoneAssumed == Wait \in Nat /\ None \notin {"temp", "part", "whole"} /\ DsConstants
  BY RecordClientsAssumption DEF T!TgcAssumption, D!DscAssumption, DsConstants

LEMMA RecordsInit == ASSUME T!TgcInit, D!DscInit PROVE RecordsInv
  BY NoneAssumed, TgInitRight, TgFilesInit, TgUpdatesInit, DsInvInit DEF RecordsInv, TgBreakerInv

LEMMA RecordsStep == ASSUME RecordsInv, [T!TgcNext]_tgcVars, [D!DscNext]_dscVars PROVE RecordsInv' /\ T!BreakerHolds
  BY NoneAssumed, TgBreakerStep, TgLoginKept, TgFilesKept, TgUpdatesKept, DsInvKept DEF RecordsInv

LEMMA RecordsRight == ASSUME RecordsInv
                      PROVE  /\ T!FilesRight /\ T!QRCloses /\ T!UpdatesShown
                             /\ D!FilesRight /\ D!LoginRight /\ D!SearchHonest /\ D!AnsweredOnce /\ D!GuildsKept /\ D!ReactsFollow /\ D!PageHeld
  BY NoneAssumed, TgFilesAreRight, TgUpdatesShown, DsRight DEF RecordsInv, TgLoginInv, T!QRCloses
=============================================================================
