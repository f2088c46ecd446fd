------------------------------ MODULE PartsProofs ------------------------------
(***************************************************************************)
(* Theorems about the drivers, card protocols and CT-API terminals that    *)
(* MCParts puts into one run.  Each part has an inductive invariant of its *)
(* own, XGood, proved over its own steps, for every value of its           *)
(* constants; the theorems at the end are the properties of the run.       *)
(***************************************************************************)
EXTENDS MCParts, SequenceTheorems, WellFoundedInduction, TLAPS

-----------------------------------------------------------------------------
(* The Kaan driver: KnGood *)

KnProtos == {"none", "trans", "T0", "T1"} \cup KnSync
KnStates == {"in", "out"}

KnRecord ==
    [b1 : BOOLEAN, serial : BOOLEAN, slots : KnUnits, frozen : BOOLEAN, idle : BOOLEAN,
     moved : BOOLEAN, asked : Nat, stored : Nat,
     told : [KnSlots -> KnStates], stat : [KnSlots -> KnStates],
     card : [KnSlots -> DOMAIN KnCard \cup {"none"}], cards : Nat,
     proto : [KnSlots -> KnProtos], icc : [KnSlots -> KnProtos]]

(* A sleeping reader compares with the states reported last. *)
KnAsleep(s) == s.frozen => s.told = s.stat

KnObjects(s) == \A n \in KnSlots : s.proto[n] \in KnSync => s.icc[n] = s.proto[n]

KnWithin(asked, stored) ==
    stored > asked => asked > KnChunk /\ asked % KnChunk # 0 /\ stored < asked + KnChunk

KnGood(s) == /\ s \in KnRecord /\ KnAsleep(s) /\ KnObjects(s)
             /\ s.moved = FALSE /\ KnWithin(s.asked, s.stored)

(* What an exchange leaves alone. *)
KnSame(s, t) == /\ t.card = s.card /\ t.proto = s.proto /\ t.icc = s.icc
                /\ t.slots = s.slots /\ t.b1 = s.b1

LEMMA KnXcvGood ==
    ASSUME NEW s, KnGood(s), NEW activity \in BOOLEAN, NEW r \in KnXcv(s, activity)
    PROVE  KnGood(r.s) /\ KnSame(s, r.s)
<1>1. \/ r.s = [s EXCEPT !.idle = s.idle /\ ~activity, !.frozen = s.frozen /\ ~activity]
      \/ r.s = s
    BY DEF KnXcv, KnRes
<1>2. (s.idle /\ ~activity) \in BOOLEAN /\ (s.frozen /\ ~activity) \in BOOLEAN
    OBVIOUS
<1> DEFINE i == s.idle /\ ~activity
           f == s.frozen /\ ~activity
<1>3. f => s.frozen
    OBVIOUS
<1> HIDE DEF i, f
<1>4. i \in BOOLEAN /\ f \in BOOLEAN
    BY <1>2 DEF i, f
<1>5. r.s = [s EXCEPT !.idle = i, !.frozen = f] \/ r.s = s
    BY <1>1 DEF i, f
<1> QED
    BY <1>3, <1>4, <1>5 DEF KnGood, KnSame, KnRecord, KnAsleep, KnObjects

LEMMA KnTransparentSame ==
    ASSUME NEW s, NEW r \in KnTransparent(s)
    PROVE  r.s = s
BY DEF KnTransparent, KnRes

LEMMA KnInState ==
    ASSUME NEW s, NEW n
    PROVE  KnIn(s, n) \in KnStates
BY DEF KnIn, KnStates

LEMMA KnQueryGood ==
    ASSUME NEW s, KnGood(s), ~s.frozen, NEW n \in KnSlots, NEW r \in KnQuery(s, n)
    PROVE  KnGood(r.s)
<1> DEFINE rs == IF s.b1 THEN KnTransparent(s) ELSE KnXcv(s, FALSE)
<1>1. \A q \in rs : KnGood(q.s) /\ ~q.s.frozen
    <2>1. \A q \in KnTransparent(s) : q.s = s
        BY KnTransparentSame
    <2>2. \A q \in KnXcv(s, FALSE) : KnGood(q.s)
        BY KnXcvGood, Zenon
    <2>3. ASSUME NEW q \in KnXcv(s, FALSE) PROVE ~q.s.frozen
        <3>1. \/ q.s = [s EXCEPT !.idle = s.idle /\ ~FALSE, !.frozen = s.frozen /\ ~FALSE]
              \/ q.s = s
            BY DEF KnXcv, KnRes
        <3> QED
            BY <3>1 DEF KnGood, KnRecord
    <2> QED
        BY <2>1, <2>2, <2>3
<1>2. CASE r \in rs
    BY <1>1, <1>2
<1>3. CASE \E q \in rs : r = KnRes([q.s EXCEPT !.stat[n] = KnIn(q.s, n)], "ok")
    <2>1. PICK q \in rs : r = KnRes([q.s EXCEPT !.stat[n] = KnIn(q.s, n)], "ok")
        BY <1>3
    <2>2. KnGood(q.s) /\ ~q.s.frozen /\ KnIn(q.s, n) \in KnStates
        BY <1>1, KnInState
    <2> QED
        BY <2>1, <2>2 DEF KnRes, KnGood, KnRecord, KnAsleep, KnObjects
<1> QED
    BY <1>2, <1>3 DEF KnQuery, KnThen, KnOk

LEMMA KnAwakeGood ==
    ASSUME NEW s, KnGood(s), NEW n \in KnSlots, NEW r \in KnAwake(s, n)
    PROVE  KnGood(r.s)
<1>1. CASE ~s.frozen
    BY <1>1, KnQueryGood DEF KnAwake
<1>2. CASE s.frozen /\ Dsr(s)
    <2> DEFINE t == [s EXCEPT !.idle = FALSE, !.frozen = FALSE]
    <2>1. KnGood(t) /\ ~t.frozen
        BY DEF KnGood, KnRecord, KnAsleep, KnObjects
    <2>2. r \in KnQuery(t, n)
        BY <1>2 DEF KnAwake
    <2> QED
        BY <2>1, <2>2, KnQueryGood
<1>3. CASE s.frozen /\ ~Dsr(s)
    BY <1>3 DEF KnAwake, KnOk, KnRes
<1> QED
    BY <1>1, <1>2, <1>3

LEMMA KnStatusGood ==
    ASSUME KnGood(kn), NEW n \in KnSlots, kaan_card_status(n)
    PROVE  KnGood(kn')
<1> DEFINE Asleep(t) == [KnFreeze(t) EXCEPT !.frozen = TRUE]
<1>1. CASE \E r \in KnAwake(kn, n) : kn' = r.s
    BY <1>1, KnAwakeGood
<1>2. CASE \E q \in KnXcv(kn, FALSE) : kn' = q.s
    BY <1>2, KnXcvGood
<1>3. CASE \E q \in KnXcv(kn, FALSE) : \E r \in KnAwake(Asleep(q.s), n) : kn' = r.s
    <2>1. PICK q \in KnXcv(kn, FALSE) : \E r \in KnAwake(Asleep(q.s), n) : kn' = r.s
        BY <1>3
    <2>2. KnGood(q.s)
        BY KnXcvGood
    <2>3. KnGood(Asleep(q.s))
        BY <2>2 DEF KnGood, KnFreeze, KnRecord, KnAsleep, KnObjects
    <2> QED
        BY <2>1, <2>3, KnAwakeGood
<1> QED
    BY <1>1, <1>2, <1>3 DEF kaan_card_status, KnThen

KnPutting(s, n, a, b) == [s EXCEPT !.proto[n] = a, !.icc[n] = b]

LEMMA KnPut ==
    ASSUME NEW s, KnGood(s), NEW n \in KnSlots, NEW a \in KnProtos, NEW b \in KnProtos, a \in KnSync => a = b
    PROVE  /\ KnGood(KnPutting(s, n, a, b)) /\ KnPutting(s, n, a, b).card = s.card
           /\ KnPutting(s, n, a, b).icc[n] = b
<1> DEFINE t == KnPutting(s, n, a, b)
            pr == [s.proto EXCEPT ![n] = a]
           ic == [s.icc EXCEPT ![n] = b]
<1>1. t = [s EXCEPT !.proto = pr, !.icc = ic]
    BY DEF KnGood, KnRecord, KnPutting
<1>2. pr \in [KnSlots -> KnProtos] /\ ic \in [KnSlots -> KnProtos] /\ ic[n] = b
      /\ \A m \in KnSlots : pr[m] \in KnSync => ic[m] = pr[m]
    BY DEF KnGood, KnRecord, KnObjects
<1> HIDE DEF pr, ic, t
<1>3. t \in KnRecord /\ t.proto = pr /\ t.icc = ic /\ t.card = s.card
    BY <1>1, <1>2 DEF KnGood, KnRecord
<1>4. t.moved = FALSE /\ KnWithin(t.asked, t.stored) /\ KnAsleep(t)
    BY <1>1 DEF KnGood, KnRecord, KnAsleep
<1> QED
    BY <1>2, <1>3, <1>4 DEF KnGood, KnObjects, t

LEMMA KnSetProtocolGood ==
    ASSUME NEW s, KnGood(s), NEW n \in KnSlots, NEW p \in KnProtos, NEW r \in KnSetProtocol(s, n, p)
    PROVE  KnGood(r.s) /\ r.s.card = s.card /\ (r.rc = "ok" => r.s.icc[n] = p)
<1>1. CASE r \in KnXcv(s, TRUE) /\ r.rc # "ok"
    BY <1>1, KnXcvGood DEF KnSame
<1>2. CASE \E q \in KnXcv(s, TRUE) :
              r = KnRes(KnPutting(q.s, n, "trans", p), "ok")
    <2>1. PICK q \in KnXcv(s, TRUE) : r = KnRes(KnPutting(q.s, n, "trans", p), "ok")
        BY <1>2
    <2>2. KnGood(q.s) /\ q.s.card = s.card
        BY KnXcvGood DEF KnSame
    <2> QED
        <3>1. "trans" \in KnProtos /\ "trans" \notin KnSync
            BY DEF KnProtos, KnSync
        <3>2. r.s = KnPutting(q.s, n, "trans", p)
            BY <2>1 DEF KnRes
        <3>3. KnGood(r.s) /\ r.s.card = q.s.card /\ r.s.icc[n] = p
            BY <2>2, <3>1, <3>2, KnPut
        <3> QED
            BY <2>2, <3>3
<1> QED
    BY <1>1, <1>2 DEF KnSetProtocol, KnThen, KnOk, KnPutting

LEMMA KnSyncDetectGood ==
    ASSUME NEW s, KnGood(s), NEW n \in KnSlots, s.card[n] # "none", NEW r \in KnSyncDetect(s, n)
    PROVE  KnGood(r.s)
<1>1. s.card[n] \in DOMAIN KnCard
    BY DEF KnGood, KnRecord
<1>2. KnCard[s.card[n]].file \in KnProtos
    BY <1>1 DEF KnCard, KnProtos, KnSync
<1> DEFINE p == KnCard[s.card[n]].file
<1> HIDE DEF p
<1>3. \/ r.s = s
      \/ r.s = KnPutting(s, n, p, p)
    <2>1. \A q \in KnTransparent(s) : q.s = s
        BY KnTransparentSame
    <2>2. \/ r \in KnTransparent(s)
          \/ \E q \in KnTransparent(s) :
                \/ r = KnRes(q.s, "error")
                \/ r = KnRes(KnPutting(q.s, n, KnCard[q.s.card[n]].file, KnCard[q.s.card[n]].file), "ok")
        BY Zenon DEF KnSyncDetect, KnThen, KnOk, KnPutting
    <2>3. CASE \E q \in KnTransparent(s) : r = KnRes(q.s, "error") \/ r = q
        BY <2>1, <2>3 DEF KnRes
    <2>4. CASE \E q \in KnTransparent(s) :
                  r = KnRes(KnPutting(q.s, n, KnCard[q.s.card[n]].file, KnCard[q.s.card[n]].file), "ok")
        <3>1. r = KnRes(KnPutting(s, n, p, p), "ok")
            BY <2>1, <2>4 DEF p
        <3> QED
            BY <3>1 DEF KnRes
    <2> QED
        BY <2>2, <2>3, <2>4
<1> QED
    <2>1. p \in KnProtos
        BY <1>2 DEF p
    <2> QED
        BY <1>3, <2>1, KnPut

LEMMA KnMemoryGood ==
    ASSUME NEW s, KnGood(s), NEW n \in KnSlots, NEW p \in KnProtos, NEW r \in KnMemory(s, n, p)
    PROVE  KnGood(r.s) /\ r.s.card = s.card /\ (r.rc = "ok" => r.s.icc[n] = p)
           /\ (s.icc[n] = p => r.s = s)
<1>1. CASE s.icc[n] = p
    BY <1>1, KnTransparentSame DEF KnMemory, KnThen, KnOk, KnRes
<1>2. CASE s.icc[n] # p
    <2>1. \/ r \in KnSetProtocol(s, n, p)
          \/ \E q \in KnSetProtocol(s, n, p) : q.rc = "ok" /\ r \in KnTransparent(q.s)
        BY <1>2 DEF KnMemory, KnThen
    <2>2. CASE r \in KnSetProtocol(s, n, p)
        BY <1>2, <2>2, KnSetProtocolGood
    <2>3. CASE \E q \in KnSetProtocol(s, n, p) : q.rc = "ok" /\ r \in KnTransparent(q.s)
        BY <1>2, <2>3, KnSetProtocolGood, KnTransparentSame
    <2> QED
        BY <2>1, <2>2, <2>3
<1> QED
    BY <1>1, <1>2

LEMMA KnProbeGood ==
    ASSUME NEW s, KnGood(s), NEW n \in KnSlots, s.card[n] # "none", NEW r \in KnProbe(s, n)
    PROVE  KnGood(r.s)
<1> DEFINE found == KnCard[s.card[n]].probe
           p == IF found = "none" THEN "3WIRE" ELSE found
<1>1. s.card[n] \in DOMAIN KnCard
    BY DEF KnGood, KnRecord
<1>2. p \in KnProtos
    BY <1>1 DEF KnCard, KnProtos, KnSync
<1> DEFINE Found(t) == [t EXCEPT !.proto[n] = p]
<1>3. \E q \in KnMemory(s, n, p) :
        \/ r.s = q.s
        \/ q.rc = "ok" /\ r.s = Found(q.s)
    <2>1. PICK q \in KnMemory(s, n, p) :
              \/ r = q
              \/ q.rc = "ok" /\ r = KnRes(q.s, "error")
              \/ q.rc = "ok" /\ r = KnRes(Found(q.s), "ok")
        BY Zenon DEF KnProbe, KnThen, KnOk
    <2> HIDE DEF p, Found
    <2> QED
        BY <2>1 DEF KnRes
<1> HIDE DEF p, found
<1>4. PICK q \in KnMemory(s, n, p) : \/ r.s = q.s
                                     \/ q.rc = "ok" /\ r.s = Found(q.s)
    BY <1>3
<1>5. KnGood(q.s) /\ (q.rc = "ok" => q.s.icc[n] = p)
    BY <1>2, KnMemoryGood
<1> QED
    BY <1>2, <1>4, <1>5 DEF KnGood, KnRecord, KnAsleep, KnObjects

LEMMA KnResetGood ==
    ASSUME NEW s, KnGood(s), NEW n \in KnSlots, NEW r \in KnReset(s, n)
    PROVE  KnGood(r.s)
<1> DEFINE s0 == [s EXCEPT !.proto[n] = "none", !.icc[n] = "none"]
           sw == IF s.card[n] = "none" THEN "6400" ELSE KnCard[s.card[n]].sw
<1>1. KnGood(s0) /\ s0.card = s.card
    BY DEF KnGood, KnRecord, KnAsleep, KnObjects, KnProtos, KnSync
<1>2. \E t : /\ \E q \in KnXcv(s0, TRUE) : t = q.s
             /\ \/ r.s = t
                \/ \E p \in {"T0", "T1"} : r \in KnSetProtocol(t, n, p)
                \/ sw # "6400" /\ r \in KnSyncDetect(t, n)
                \/ sw # "6400" /\ \E q \in KnSetProtocol(t, n, "EUROCHIP") : r \in KnSyncDetect(q.s, n)
                \/ sw # "6400" /\ r \in KnProbe(t, n)
    <2>1. PICK q \in KnXcv(s0, TRUE) :
              \/ r = q
              \/ r = KnRes(q.s, "error")
              \/ \E p \in {"T0", "T1"} : r \in KnSetProtocol(q.s, n, p)
              \/ sw # "6400" /\ r \in KnSyncDetect(q.s, n)
              \/ sw # "6400" /\ \E x \in KnSetProtocol(q.s, n, "EUROCHIP") : r \in KnSyncDetect(x.s, n)
              \/ sw # "6400" /\ r \in KnProbe(q.s, n)
        <3> DEFINE rs == KnXcv(s0, TRUE)
                   After(t) == CASE sw = "9001" -> KnSetProtocol(t, n, "T0") \cup KnSetProtocol(t, n, "T1")
                      [] sw = "9000" -> KnSyncDetect(t, n)
                      [] sw = "62a5" /\ s.b1 ->
                            UNION {KnSyncDetect(x.s, n) : x \in KnSetProtocol(t, n, "EUROCHIP")}
                      [] sw = "62a5" /\ ~s.b1 -> KnSyncDetect(t, n)
                      [] sw = "62a7" -> KnProbe(t, n)
                      [] OTHER -> {KnRes(t, "error")}
        <3>1. \/ r \in rs
              \/ \E q \in rs : r \in After(q.s)
            BY DEF KnReset, KnThen
        <3>2. ASSUME NEW t, r \in After(t)
              PROVE  \/ r = KnRes(t, "error")
                     \/ \E p \in {"T0", "T1"} : r \in KnSetProtocol(t, n, p)
                     \/ sw # "6400" /\ r \in KnSyncDetect(t, n)
                     \/ sw # "6400" /\ \E x \in KnSetProtocol(t, n, "EUROCHIP") : r \in KnSyncDetect(x.s, n)
                     \/ sw # "6400" /\ r \in KnProbe(t, n)
            <4> HIDE DEF sw
            <4> QED
                BY <3>2
        <3> HIDE DEF rs, After, sw, s0
        <3> QED
            BY <3>1, <3>2 DEF rs
    <2> HIDE DEF s0, sw
    <2>2. KnRes(q.s, "error").s = q.s
        BY DEF KnRes
    <2>3. \/ r.s = q.s
          \/ \E p \in {"T0", "T1"} : r \in KnSetProtocol(q.s, n, p)
          \/ sw # "6400" /\ r \in KnSyncDetect(q.s, n)
          \/ sw # "6400" /\ \E x \in KnSetProtocol(q.s, n, "EUROCHIP") : r \in KnSyncDetect(x.s, n)
          \/ sw # "6400" /\ r \in KnProbe(q.s, n)
        BY ONLY <2>1, <2>2, Zenon
    <2> QED
        BY ONLY <2>3, q \in KnXcv(s0, TRUE), Zenon
<1>3. sw # "6400" => s.card[n] # "none"
    OBVIOUS
<1> HIDE DEF s0, sw
<1>4. PICK t : /\ \E q \in KnXcv(s0, TRUE) : t = q.s
               /\ \/ r.s = t
                  \/ \E p \in {"T0", "T1"} : r \in KnSetProtocol(t, n, p)
                  \/ sw # "6400" /\ r \in KnSyncDetect(t, n)
                  \/ sw # "6400" /\ \E q \in KnSetProtocol(t, n, "EUROCHIP") : r \in KnSyncDetect(q.s, n)
                  \/ sw # "6400" /\ r \in KnProbe(t, n)
    BY <1>2
<1>5. KnGood(t) /\ t.card = s.card
    <2>1. \A q \in KnXcv(s0, TRUE) : KnGood(q.s) /\ KnSame(s0, q.s)
        BY <1>1, KnXcvGood, Zenon
    <2> QED
        BY <1>1, <1>4, <2>1 DEF KnSame
<1>6. {"T0", "T1", "EUROCHIP"} \subseteq KnProtos
    BY DEF KnProtos, KnSync
<1>7. CASE r.s = t
    BY <1>5, <1>7
<1>8. CASE \E p \in {"T0", "T1"} : r \in KnSetProtocol(t, n, p)
    BY <1>5, <1>6, <1>8, KnSetProtocolGood
<1>9. CASE sw # "6400" /\ r \in KnSyncDetect(t, n)
    BY <1>3, <1>5, <1>9, KnSyncDetectGood
<1>10. CASE sw # "6400" /\ \E q \in KnSetProtocol(t, n, "EUROCHIP") : r \in KnSyncDetect(q.s, n)
    BY <1>3, <1>5, <1>6, <1>10, KnSetProtocolGood, KnSyncDetectGood
<1>11. CASE sw # "6400" /\ r \in KnProbe(t, n)
    BY <1>3, <1>5, <1>11, KnProbeGood
<1> QED
    BY <1>4, <1>7, <1>8, <1>9, <1>10, <1>11

LEMMA KnAccessWithin ==
    ASSUME NEW len \in Nat, NEW total \in {KnReadBinary(len), KnUpdateBinary(len)}
    PROVE  total \in Nat /\ KnWithin(len, total)
<1>1. CASE total = KnUpdateBinary(len)
    BY <1>1, KnAssumption DEF KnUpdateBinary, KnWithin
<1>2. CASE total = KnReadBinary(len) /\ len <= KnChunk
    <2>1. len # 0 => len % len = 0
        OBVIOUS
    <2> QED
        BY <1>2, <2>1, KnAssumption DEF KnReadBinary, KnWithin
<1>3. CASE total = KnReadBinary(len) /\ len > KnChunk
    <2>1. len % KnChunk \in 0 .. KnChunk - 1
        BY KnAssumption
    <2> DEFINE m == len % KnChunk
    <2> HIDE DEF m
    <2>2. total = LET turns == IF len = 0 \/ m = 0 THEN len ELSE len - m + KnChunk
                  IN  IF turns > KnSize THEN KnSize ELSE turns
        BY <1>3 DEF KnReadBinary, m
    <2>3. total \in Nat /\ (total > len => m # 0 /\ total < len + KnChunk)
        BY <2>1, <2>2, <1>3, KnAssumption DEF m
    <2> QED
        BY <2>3, <1>3 DEF KnWithin, m
<1> QED
    BY <1>1, <1>2, <1>3, KnAssumption

LEMMA KnAccessGood ==
    ASSUME KnGood(kn), NEW n \in KnSlots, kaan_sync_access(n)
    PROVE  KnGood(kn')
<1>1. PICK r \in KnMemory(kn, n, kn.proto[n]), len \in KnLens :
        \E total \in {KnReadBinary(len), KnUpdateBinary(len)} :
           kn' = [r.s EXCEPT !.moved = r.s.proto[n] # kn.proto[n],
                             !.asked = IF r.rc = "ok" THEN len ELSE 0,
                             !.stored = IF r.rc = "ok" THEN total ELSE 0]
    BY DEF kaan_sync_access
<1>2. PICK total \in {KnReadBinary(len), KnUpdateBinary(len)} :
        kn' = [r.s EXCEPT !.moved = r.s.proto[n] # kn.proto[n],
                          !.asked = IF r.rc = "ok" THEN len ELSE 0,
                          !.stored = IF r.rc = "ok" THEN total ELSE 0]
    BY <1>1
<1>3. kn.proto[n] \in KnProtos /\ kn.icc[n] = kn.proto[n]
    BY DEF kaan_sync_access, KnGood, KnRecord, KnObjects
<1>4. r.s = kn
    BY <1>3, KnMemoryGood
<1>5. len \in Nat
    BY KnAssumption
<1> DEFINE asked == IF r.rc = "ok" THEN len ELSE 0
           stored == IF r.rc = "ok" THEN total ELSE 0
<1>6. asked \in Nat /\ stored \in Nat /\ KnWithin(asked, stored)
    <2>1. total \in Nat /\ KnWithin(len, total)
        BY <1>5, KnAccessWithin
    <2>2. KnWithin(0, 0)
        BY DEF KnWithin
    <2> QED
        BY <1>5, <2>1, <2>2
<1>7. kn' = [kn EXCEPT !.moved = FALSE, !.asked = asked, !.stored = stored]
    BY <1>2, <1>4
<1> HIDE DEF asked, stored
<1> QED
    BY <1>6, <1>7 DEF KnGood, KnRecord, KnAsleep, KnObjects

LEMMA KnMoveGood ==
    ASSUME KnGood(kn), NEW n \in KnSlots, KnMove(n)
    PROVE  KnGood(kn')
<1>1. PICK c \in DOMAIN KnCard \cup {"none"} :
        kn' = [kn EXCEPT !.card[n] = c, !.cards = IF c = "none" THEN @ ELSE @ + 1]
    BY DEF KnMove
<1> DEFINE cd == [kn.card EXCEPT ![n] = c]
           cs == IF c = "none" THEN kn.cards ELSE kn.cards + 1
<1>2. kn' = [kn EXCEPT !.card = cd, !.cards = cs]
    BY <1>1 DEF KnGood, KnRecord
<1>3. cd \in [KnSlots -> DOMAIN KnCard \cup {"none"}] /\ cs \in Nat
    BY DEF KnGood, KnRecord
<1> HIDE DEF cd, cs
<1> QED
    BY <1>2, <1>3 DEF KnGood, KnRecord, KnAsleep, KnObjects

LEMMA KnInitGood ==
    ASSUME KnInit
    PROVE  KnGood(kn)
BY DEF KnInit, KnGood, KnRecord, KnAsleep, KnObjects, KnProtos, KnSync, KnStates, KnSlots, KnUnits,
       KnWithin

LEMMA KnNextGood ==
    ASSUME KnGood(kn), KnNext
    PROVE  KnGood(kn')
<1>1. CASE kaan_display
    <2>1. \A r \in KnXcv(kn, TRUE) : KnGood(r.s)
        BY KnXcvGood, Zenon
    <2> QED
        BY <1>1, <2>1 DEF kaan_display
<1>2. CASE KnIdle
    BY <1>2 DEF KnIdle, KnGood, KnRecord, KnAsleep, KnObjects
<1>3. ASSUME NEW n \in KnSlots,
             \/ kaan_card_status(n) \/ kaan_card_reset(n) \/ kaan_set_protocol(n)
             \/ kaan_transparent(n) \/ kaan_sync_access(n)
             \/ KnMove(n)
      PROVE  KnGood(kn')
    <2>1. CASE kaan_card_status(n)
        BY <2>1, KnStatusGood
    <2>2. CASE kaan_card_reset(n)
        <3>1. \A r \in KnReset(kn, n) : KnGood(r.s)
            BY KnResetGood, Zenon
        <3> QED
            BY <2>2, <3>1 DEF kaan_card_reset
    <2>3. CASE kaan_set_protocol(n)
        <3>1. {"T0", "T1"} \subseteq KnProtos
            BY DEF KnProtos
        <3> QED
            BY <2>3, <3>1, KnSetProtocolGood DEF kaan_set_protocol
    <2>4. CASE kaan_transparent(n)
        BY <2>4, KnTransparentSame DEF kaan_transparent
    <2>5. CASE kaan_sync_access(n)
        BY <2>5, KnAccessGood
    <2>6. CASE KnMove(n)
        BY <2>6, KnMoveGood
    <2> QED
        BY <1>3, <2>1, <2>2, <2>3, <2>4, <2>5, <2>6
<1> QED
    BY <1>1, <1>2, <1>3 DEF KnNext

(* What the invariant says of the properties *)
LEMMA KnGoodSuffices ==
    ASSUME KnGood(kn)
    PROVE  KnAgree /\ KnFits /\ KnWakes
BY DEF KnGood, KnRecord, KnAsleep, KnObjects, KnAgree, KnFits, KnWakes, Dsr, KnWithin

-----------------------------------------------------------------------------
(* The PertoSmart driver: PsGood *)

PsFrame == [head : BOOLEAN, sw : {"ok", "nocard", "error"}, len : Nat, data : Nat, sum : BOOLEAN,
            stale : BOOLEAN]
PsRets == {"none", "ok", "error", "changed", "same", "apdu", "short", "nocard", "large", "locked"}

PsCodes == {"ok", "nocard", "error", "large", "short", "locked"}

PsRecord ==
    [model : {"1030", "1038"}, if_state : {"IDLE", "SENDING", "FINISHED", "ERROR"},
     cur : {"default", "T0", "T1"}, slot : {"none", "T0", "T1"},
     card : DOMAIN PsCard \cup {"none"}, cards : Nat, power : BOOLEAN, swapped : BOOLEAN,
     eaten : BOOLEAN, seen : {"unknown", "out", "in", "on"}, notes : Seq({"in", "out"}),
     owed : BOOLEAN, ret : PsRets, got : PsFrame, fresh : BOOLEAN, locked : BOOLEAN,
     apdu : BOOLEAN]

(* The protocol of the slot is the one noted, and only a card has power. *)
PsSlots(s) == (s.slot # "none" => s.slot = s.cur) /\ (s.power => s.card # "none")

(* The last notification is about the card as it is; nothing was in use
   before the first status; and a card that was taken out is told of. *)
PsTold(s) ==
    /\ s.model = "1038" /\ s.notes # <<>>
          => s.notes[Len(s.notes)] = IF s.card = "none" THEN "out" ELSE "in"
    /\ s.swapped => s.seen # "unknown"
    /\ s.model = "1038" /\ s.swapped /\ ~s.eaten => Changes(s)
    /\ s.model = "1030" /\ s.swapped => s.seen \in {"in", "on"}

(* What is left over of an answer, and the states a transmission is left in. *)
PsLine(s) ==
    /\ s.model = "1038" \/ s.apdu => ~s.owed
    /\ s.model = "1038" /\ ~s.apdu => Ready(s)
    /\ s.locked => Ready(s)

PsCore(s) == s \in PsRecord /\ PsSlots(s) /\ PsTold(s) /\ PsLine(s)

PsOwn(s) == (s.ret = "apdu" => s.got = GoodFrame) /\ (s.ret = "short" => ~s.got.stale)
PsChosen(s) == s.slot # "none" => s.slot \in PsCard[s.card].supp

PsGood(s) == PsCore(s) /\ PsOwn(s) /\ (s.fresh /\ s.power => PsChosen(s))

(* What an exchange leaves alone *)
PsKeep(s, t) ==
    /\ t.model = s.model /\ t.cur = s.cur /\ t.slot = s.slot /\ t.card = s.card
    /\ t.power = s.power /\ t.swapped = s.swapped /\ t.eaten = s.eaten /\ t.seen = s.seen
    /\ t.notes = s.notes /\ t.fresh = s.fresh /\ t.apdu = s.apdu

LEMMA PsKeepCore ==
    ASSUME NEW s, PsCore(s), NEW t \in PsRecord, PsKeep(s, t), PsLine(t)
    PROVE  PsCore(t)
BY DEF PsCore, PsKeep, PsSlots, PsTold, Changes

LEMMA PsDecoded ==
    ASSUME NEW f \in PsFrame
    PROVE  /\ Decode1030(f) \in PsCodes /\ Decode1038(f) \in PsCodes
           /\ Decode1030(f) = "ok" => f.head /\ f.sw = "ok" /\ f.len <= Room /\ f.data = f.len /\ f.sum
           /\ Decode1038(f) = "ok" => f.head /\ f.sw = "ok" /\ f.len <= Room /\ f.data = f.len
BY DEF PsFrame, PsCodes, Decode1030, Decode1038, Room

LEMMA PsFrames ==
    ASSUME NEW f \in Frames
    PROVE  f \in PsFrame /\ ~f.stale
<1>1. \A h, m \in BOOLEAN : \A w \in {"ok", "nocard", "error"} : \A l, d \in Nat :
        Frame(h, w, l, d, m) \in PsFrame /\ Frame(h, w, l, d, m).stale = FALSE
    BY DEF Frame, PsFrame
<1>2. \E h, m \in BOOLEAN : \E w \in {"ok", "nocard", "error"} : \E l, d \in Nat : f = Frame(h, w, l, d, m)
    BY DEF Frames, GoodFrame
<1> QED
    BY <1>1, <1>2

(* A state that a received frame f leads to *)
PsAfter(s, t, st, f, left) ==
    /\ t \in PsRecord /\ PsKeep(s, t) /\ t.if_state = st /\ t.got = f /\ t.locked = FALSE
    /\ (t.owed <=> left)

LEMMA PsResultKeeps ==
    ASSUME NEW s, PsCore(s), NEW st \in {"IDLE", "FINISHED"}, NEW rc \in PsCodes, NEW f \in PsFrame
    PROVE  PsAfter(s, Result(s, st, rc, f).s, st, f, rc # "ok")
<1> DEFINE o == rc # "ok"
<1>1. o \in BOOLEAN
    OBVIOUS
<1> HIDE DEF o
<1>2. Result(s, st, rc, f).s = [s EXCEPT !.if_state = st, !.got = f, !.owed = o, !.locked = FALSE]
    BY DEF Result, o
<1>3. [s EXCEPT !.if_state = st, !.got = f, !.owed = o, !.locked = FALSE] \in PsRecord
    BY <1>1 DEF PsCore, PsRecord
<1>4. o <=> rc # "ok"
    BY DEF o
<1> QED
    BY <1>1, <1>2, <1>3, <1>4 DEF PsCore, PsRecord, PsKeep, PsAfter

LEMMA PsReceivedCore ==
    ASSUME NEW s, PsCore(s), NEW f \in PsFrame
    PROVE  LET e == Received(s, f)
           IN  /\ e.s \in PsRecord /\ PsKeep(s, e.s) /\ e.rc \in PsCodes /\ e.s.got = f
               /\ e.s.if_state \in {"IDLE", "FINISHED"} /\ e.s.locked = FALSE
               /\ s.model = "1038" => e.s.if_state = "IDLE" /\ e.s.owed = FALSE
               /\ e.rc = IF s.model = "1030" THEN Decode1030(f) ELSE Decode1038(f)
<1>1. CASE s.model = "1030"
    <2> DEFINE rc == Decode1030(f)
               st == IF rc = "large" THEN "FINISHED" ELSE "IDLE"
    <2>1. Received(s, f) = Result(s, st, rc, f)
        BY <1>1 DEF Received
    <2>2. rc \in PsCodes /\ st \in {"IDLE", "FINISHED"}
        BY PsDecoded
    <2>3. Result(s, st, rc, f).rc = rc
        BY DEF Result
    <2> HIDE DEF rc, st
    <2>4. rc = Decode1030(f)
        BY DEF rc
    <2> QED
        <3>1. PsAfter(s, Result(s, st, rc, f).s, st, f, rc # "ok")
            BY <2>2, PsResultKeeps
        <3> QED
            BY <1>1, <2>1, <2>2, <2>3, <2>4, <3>1 DEF PsAfter
<1>2. CASE s.model # "1030"
    <2> DEFINE rc == Decode1038(f)
               r == Result(s, "IDLE", rc, f)
    <2>1. rc \in PsCodes
        BY PsDecoded
    <2>2. r.rc = rc /\ r = [s |-> r.s, rc |-> rc]
        BY DEF Result
    <2>3. r.s \in PsRecord /\ PsKeep(s, r.s) /\ r.s.if_state = "IDLE" /\ r.s.got = f /\ r.s.locked = FALSE
          /\ (r.s.owed <=> rc # "ok")
        <3> HIDE DEF rc
        <3> QED
            <4>1. PsAfter(s, Result(s, "IDLE", rc, f).s, "IDLE", f, rc # "ok")
                BY <2>1, PsResultKeeps
            <4> QED
                BY <4>1 DEF PsAfter
    <2>4. Received(s, f) = IF rc = "ok" THEN r ELSE [r EXCEPT !.s = Flushed(r.s)]
        BY <1>2, <2>2 DEF Received
    <2>5. rc = Decode1038(f)
        OBVIOUS
    <2> HIDE DEF rc, r
    <2>6. CASE rc = "ok"
        BY <1>2, <2>1, <2>2, <2>3, <2>4, <2>5, <2>6 DEF PsRecord
    <2>7. CASE rc # "ok"
        <3> DEFINE t == Flushed(r.s)
        <3>1. Received(s, f).s = t /\ Received(s, f).rc = rc
            BY <2>2, <2>4, <2>7
        <3>2. t \in PsRecord /\ PsKeep(r.s, t) /\ t.if_state = r.s.if_state /\ t.got = r.s.got
              /\ t.locked = r.s.locked /\ t.owed = FALSE
            BY <2>3 DEF Flushed, PsRecord, PsKeep
        <3> HIDE DEF t
        <3>3. PsKeep(s, t)
            BY <2>3, <3>2 DEF PsKeep
        <3> QED
            BY <1>2, <2>1, <2>3, <2>5, <3>1, <3>2, <3>3
    <2> QED
        BY <2>6, <2>7
<1> QED
    BY <1>1, <1>2

LEMMA PsSentKeeps ==
    ASSUME NEW s, PsCore(s)
    PROVE  PsCore(Sent(s)) /\ PsKeep(s, Sent(s)) /\ Sent(s).owed = FALSE /\ Sent(s).if_state = s.if_state
<1>1. /\ Sent(s) \in PsRecord /\ PsKeep(s, Sent(s)) /\ Sent(s).if_state = s.if_state
      /\ Sent(s).locked = s.locked
    <2>1. CASE Sent(s) = s
        BY <2>1 DEF PsCore, PsKeep
    <2>2. CASE Sent(s) = [s EXCEPT !.owed = FALSE]
        BY <2>2 DEF PsCore, PsRecord, PsKeep
    <2> QED
        BY <2>1, <2>2 DEF Sent, Flushed
<1>2. Sent(s).owed = FALSE
    <2>1. CASE s.model = "1030"
        BY <2>1 DEF Sent, Flushed, PsCore, PsRecord
    <2>2. CASE s.model = "1038"
        BY <2>2 DEF Sent, PsCore, PsRecord, PsLine
    <2> QED
        BY <2>1, <2>2 DEF PsCore, PsRecord
<1>3. PsLine(Sent(s))
    BY <1>1, <1>2 DEF PsCore, PsKeep, PsLine, Ready
<1> QED
    BY <1>1, <1>2, <1>3, PsKeepCore

LEMMA PsArrivedFrame ==
    ASSUME NEW s, NEW f \in Frames
    PROVE  Arrived(s, f) \in PsFrame /\ (~s.owed => Arrived(s, f) = f)
BY PsFrames DEF Arrived, PsFrame

LEMMA PsExchange ==
    ASSUME NEW s, PsCore(s), ~s.apdu, NEW frames, frames \subseteq Frames, NEW e \in Exchange(s, frames)
    PROVE  PsCore(e.s) /\ PsKeep(s, e.s) /\ e.rc \in PsCodes
<1>1. CASE ~Ready(s)
    <2>1. e = [s |-> Locked(s), rc |-> "locked"]
        BY <1>1 DEF Exchange
    <2>2. s.model = "1030"
        BY <1>1 DEF PsCore, PsLine, PsRecord
    <2>3. e.s = Locked1030(s) /\ e.rc = "locked"
        BY <2>1, <2>2 DEF Locked
    <2>4. e.s \in PsRecord /\ PsKeep(s, e.s) /\ e.s.if_state = "IDLE"
        <3>1. "error" \in PsRets
            BY DEF PsRets
        <3>2. e.s = [s EXCEPT !.if_state = "IDLE", !.locked = TRUE, !.ret = "error"]
            BY <2>3 DEF Locked1030
        <3>3. e.s \in PsRecord
            BY <3>1, <3>2 DEF PsCore, PsRecord
        <3> QED
            BY <3>2, <3>3 DEF PsCore, PsRecord, PsKeep
    <2>5. PsLine(e.s)
        BY <2>2, <2>4 DEF PsLine, PsKeep, Ready
    <2> QED
        BY <2>3, <2>4, <2>5, PsKeepCore DEF PsCodes
<1>2. CASE Ready(s) /\ e = Unsent(Sent(s))
    <2> DEFINE u == Sent(s)
    <2>1. PsCore(u) /\ PsKeep(s, u) /\ u.owed = FALSE
        BY PsSentKeeps
    <2> HIDE DEF u
    <2>2. e.s = [u EXCEPT !.if_state = "IDLE", !.locked = FALSE] /\ e.rc = "error"
        BY <1>2 DEF Unsent, u
    <2>3. e.s \in PsRecord /\ PsKeep(u, e.s) /\ e.s.if_state = "IDLE" /\ e.s.owed = FALSE
        BY <2>1, <2>2, ZenonT(60) DEF PsCore, PsRecord, PsKeep
    <2>4. PsKeep(s, e.s) /\ PsLine(e.s)
        BY <2>1, <2>3 DEF PsKeep, PsLine, Ready
    <2> QED
        BY <2>2, <2>3, <2>4, PsKeepCore DEF PsCodes
<1>3. CASE Ready(s) /\ e \in Reads(Sent(s), frames)
    <2> DEFINE u == Sent(s)
    <2>1. PsCore(u) /\ PsKeep(s, u) /\ u.owed = FALSE
        BY PsSentKeeps
    <2> HIDE DEF u
    <2>2. PICK f \in frames : e = Received(u, Arrived(u, f))
        BY <1>3 DEF Reads, u
    <2>3. Arrived(u, f) \in PsFrame
        BY PsArrivedFrame
    <2>4. /\ e.s \in PsRecord /\ PsKeep(u, e.s) /\ e.rc \in PsCodes /\ e.s.locked = FALSE
          /\ u.model = "1038" => e.s.if_state = "IDLE" /\ e.s.owed = FALSE
        BY <2>1, <2>2, <2>3, PsReceivedCore
    <2>5. PsKeep(s, e.s) /\ PsLine(e.s)
        BY <2>1, <2>4 DEF PsKeep, PsLine, Ready
    <2> QED
        BY <2>4, <2>5, PsKeepCore
<1> QED
    BY <1>1, <1>2, <1>3 DEF Exchange

LEMMA PsCommand ==
    ASSUME NEW s, PsCore(s), ~s.apdu, NEW e \in Command(s)
    PROVE  PsCore(e.s) /\ PsKeep(s, e.s) /\ e.rc \in PsCodes
<1>1. {GoodFrame, Frame(TRUE, "error", 0, 0, TRUE)} \subseteq Frames
    BY DEF Frames
<1> QED
    BY <1>1, PsExchange DEF Command

(* A status call has looked. *)
PsNoted(s, t, seen) ==
    /\ t \in PsRecord /\ PsLine(t) /\ PsSlots(t) /\ t.ret \in {"changed", "same"}
    /\ t.notes = <<>> /\ t.seen = seen /\ t.eaten = FALSE
    /\ t.model = s.model /\ t.cur = s.cur /\ t.slot = s.slot /\ t.card = s.card
    /\ t.power = s.power /\ t.fresh = s.fresh /\ t.apdu = s.apdu
    /\ s.model = "1038" => t.swapped = FALSE

LEMMA PsNoticed ==
    ASSUME NEW s, PsCore(s), NEW seen \in {"out", "in", "on"}, NEW changed \in BOOLEAN,
           s.model = "1038" /\ s.swapped /\ ~s.eaten => changed
    PROVE  /\ PsNoted(s, Noticed(s, seen, changed), seen)
           /\ Noticed(s, seen, changed).swapped => s.swapped /\ ~changed
<1> DEFINE w == s.swapped /\ ~changed /\ ~s.eaten
           r == IF changed THEN "changed" ELSE "same"
<1>1. /\ w \in BOOLEAN /\ r \in {"changed", "same"} /\ (s.model = "1038" => w = FALSE)
      /\ w => s.swapped /\ ~changed
    BY DEF PsCore, PsRecord
<1>2. Noticed(s, seen, changed) =
        [s EXCEPT !.seen = seen, !.notes = <<>>, !.ret = r, !.swapped = w, !.eaten = FALSE]
    BY DEF Noticed
<1> HIDE DEF w, r
<1>3. <<>> \in Seq({"in", "out"})
    OBVIOUS
<1>4. Noticed(s, seen, changed) \in PsRecord
    <2>1. {"changed", "same"} \subseteq PsRets
        BY DEF PsRets
    <2>2. r \in PsRets
        BY <1>1, <2>1
    <2> QED
        BY <1>1, <1>2, <1>3, <2>2, ZenonT(60) DEF PsCore, PsRecord
<1>5. PsLine(Noticed(s, seen, changed)) /\ PsSlots(Noticed(s, seen, changed))
    BY <1>2 DEF PsCore, PsRecord, PsLine, PsSlots, Ready
<1> QED
    BY <1>1, <1>2, <1>4, <1>5 DEF PsCore, PsRecord, PsNoted

LEMMA PsFailed ==
    ASSUME NEW s, PsCore(s)
    PROVE  PsCore(Failed(s)) /\ PsKeep(s, Failed(s)) /\ Failed(s).ret = "error"
<1>1. "error" \in PsRets
    BY DEF PsRets
<1>2. Failed(s) \in PsRecord /\ PsKeep(s, Failed(s)) /\ Failed(s).ret = "error"
    BY <1>1 DEF Failed, PsCore, PsRecord, PsKeep
<1>3. PsLine(Failed(s))
    BY DEF Failed, PsCore, PsRecord, PsLine, Ready
<1> QED
    BY <1>2, <1>3, PsKeepCore

LEMMA PsCapture ==
    ASSUME NEW s, PsCore(s), s.model = "1038", s.seen # "unknown"
    PROVE  /\ PsCore(Capture(s)) /\ Capture(s).ret \in {"changed", "same"} /\ Capture(s).notes = <<>>
           /\ Capture(s).cur = s.cur /\ Capture(s).slot = s.slot /\ Capture(s).card = s.card
           /\ Capture(s).power = s.power /\ Capture(s).fresh = s.fresh /\ Capture(s).apdu = s.apdu
           /\ Capture(s).model = s.model /\ Capture(s).seen # "unknown"
<1> DEFINE seen == IF s.notes = <<>> THEN s.seen ELSE s.notes[Len(s.notes)]
           ch == Changes(s)
<1>1. seen \in {"out", "in", "on"}
    BY DEF PsCore, PsRecord
<1>2. ch \in BOOLEAN /\ (s.swapped /\ ~s.eaten => ch)
    <2>1. ch \in BOOLEAN
        BY DEF Changes
    <2> QED
        BY <2>1 DEF PsCore, PsTold
<1>3. Capture(s) = Noticed(s, seen, ch)
    BY DEF Capture
<1> HIDE DEF seen, ch
<1> DEFINE t == Noticed(s, seen, ch)
<1>4. /\ t \in PsRecord /\ PsLine(t) /\ PsSlots(t) /\ t.ret \in {"changed", "same"}
      /\ t.notes = <<>> /\ t.seen = seen /\ t.eaten = FALSE
      /\ t.model = s.model /\ t.cur = s.cur /\ t.slot = s.slot /\ t.card = s.card
      /\ t.power = s.power /\ t.fresh = s.fresh /\ t.apdu = s.apdu
      /\ t.swapped = FALSE
    <2>1. PsNoted(s, t, seen)
        BY <1>1, <1>2, PsNoticed
    <2> QED
        BY <2>1 DEF PsNoted
<1> HIDE DEF t
<1>5. PsTold(t)
    BY <1>4 DEF PsTold
<1> QED
    BY <1>1, <1>3, <1>4, <1>5 DEF PsCore, t

(* A status call of the 1038, also the one within a reset *)
PsAsked(s, t) ==
    /\ PsCore(t) /\ t.ret \notin {"apdu", "short"} /\ t.model = s.model /\ t.cur = s.cur /\ t.slot = s.slot
    /\ t.card = s.card /\ t.power = s.power /\ t.fresh = s.fresh /\ t.apdu = s.apdu

LEMMA PsStatus1038 ==
    ASSUME NEW s, PsCore(s), ~s.apdu, s.model = "1038", NEW t \in CardStatus1038(s)
    PROVE  PsAsked(s, t) /\ (s.seen # "unknown" => t = Capture(s)) /\ (s.seen = "unknown" => t.swapped = FALSE)
<1>1. CASE s.seen # "unknown"
    <2>1. t = Capture(s)
        BY <1>1 DEF CardStatus1038
    <2> QED
        BY <1>1, <2>1, PsCapture DEF PsAsked
<1>2. CASE s.seen = "unknown"
    <2> DEFINE sn == IF CStat(s) = "out" THEN "out" ELSE "in"
               ch == CStat(s) # "out"
    <2>1. PICK e \in Exchange(s, Frames) :
            \/ t = Failed(e.s)
            \/ t = [Noticed(e.s, sn, ch) EXCEPT !.notes = s.notes]
        BY <1>2 DEF CardStatus1038, Failed
    <2>2. PsCore(e.s) /\ PsKeep(s, e.s)
        BY PsExchange
    <2>3. s.swapped = FALSE /\ e.s.swapped = FALSE
        BY <1>2, <2>2 DEF PsCore, PsTold, PsKeep, PsRecord
    <2>4. sn \in {"out", "in", "on"} /\ ch \in BOOLEAN
        OBVIOUS
    <2> HIDE DEF sn, ch
    <2>5. CASE t = Failed(e.s)
        BY <1>2, <2>2, <2>3, <2>5, PsFailed DEF PsAsked, PsKeep
    <2>6. CASE t = [Noticed(e.s, sn, ch) EXCEPT !.notes = s.notes]
        <3> DEFINE u == Noticed(e.s, sn, ch)
        <3>1. /\ u \in PsRecord /\ PsLine(u) /\ PsSlots(u) /\ u.ret \in {"changed", "same"}
              /\ u.seen = sn /\ u.eaten = FALSE
              /\ u.model = s.model /\ u.cur = s.cur /\ u.slot = s.slot /\ u.card = s.card
              /\ u.power = s.power /\ u.fresh = s.fresh /\ u.apdu = s.apdu
              /\ u.swapped = FALSE
            <4>1. PsNoted(e.s, u, sn)
                BY <2>2, <2>3, <2>4, PsNoticed
            <4> HIDE DEF u
            <4> QED
                BY <2>2, <4>1 DEF PsKeep, PsNoted
        <3> HIDE DEF u
        <3>2. t = [u EXCEPT !.notes = s.notes] /\ s.notes \in Seq({"in", "out"})
            BY <2>6 DEF u, PsCore, PsRecord
        <3>3. /\ t \in PsRecord /\ t.notes = s.notes /\ t.ret = u.ret /\ t.seen = u.seen
              /\ t.eaten = u.eaten /\ t.model = u.model /\ t.cur = u.cur /\ t.slot = u.slot
              /\ t.card = u.card /\ t.power = u.power /\ t.fresh = u.fresh /\ t.apdu = u.apdu
              /\ t.swapped = u.swapped /\ t.owed = u.owed /\ t.locked = u.locked /\ t.if_state = u.if_state
            BY <3>1, <3>2 DEF PsRecord
        <3>4. PsLine(t) /\ PsSlots(t)
            BY <3>1, <3>3 DEF PsLine, PsSlots, Ready
        <3>5. PsTold(t)
            BY <3>1, <3>3, PsCore(s) DEF PsTold, PsCore
        <3> QED
            BY <1>2, <3>1, <3>3, <3>4, <3>5 DEF PsAsked, PsCore
    <2> QED
        BY <2>1, <2>5, <2>6
<1> QED
    BY <1>1, <1>2

LEMMA PsStatus1030 ==
    ASSUME NEW s, PsCore(s), ~s.apdu, s.model = "1030", NEW t \in CardStatus1030(s)
    PROVE  PsAsked(s, t)
<1> DEFINE ch == CStat(s) # s.seen
<1>1. PICK e \in Exchange(s, Frames) : t = Failed(e.s) \/ t = Noticed(e.s, CStat(s), ch)
    BY DEF CardStatus1030, Failed
<1>2. PsCore(e.s) /\ PsKeep(s, e.s)
    BY PsExchange
<1>3. CStat(s) \in {"out", "in", "on"} /\ ch \in BOOLEAN
    BY DEF CStat
<1> HIDE DEF ch
<1>4. CASE t = Failed(e.s)
    BY <1>2, <1>4, PsFailed DEF PsAsked, PsKeep
<1>5. CASE t = Noticed(e.s, CStat(s), ch)
    <2>1. /\ t \in PsRecord /\ PsLine(t) /\ PsSlots(t) /\ t.ret \in {"changed", "same"}
          /\ t.seen = CStat(s)
          /\ t.model = s.model /\ t.cur = s.cur /\ t.slot = s.slot /\ t.card = s.card
          /\ t.power = s.power /\ t.fresh = s.fresh /\ t.apdu = s.apdu
        <3>1. e.s.model = "1030"
            BY <1>2 DEF PsKeep
        <3>2. PsNoted(e.s, t, CStat(s))
            BY <1>2, <1>3, <1>5, <3>1, PsNoticed
        <3> QED
            BY <1>2, <3>2 DEF PsKeep, PsNoted
    <2>2. t.swapped => s.swapped /\ CStat(s) = s.seen
        <3>1. e.s.model = "1030" /\ e.s.swapped = s.swapped
            BY <1>2 DEF PsKeep
        <3>2. t.swapped => e.s.swapped /\ ~ch
            BY <1>2, <1>3, <1>5, <3>1, PsNoticed
        <3> QED
            BY <3>1, <3>2 DEF ch
    <2>3. PsTold(t)
        BY <1>3, <2>1, <2>2 DEF PsTold, PsCore
    <2> QED
        BY <2>1, <2>3 DEF PsAsked, PsCore
<1> QED
    BY <1>1, <1>4, <1>5

PsSeen(s, c) == [c EXCEPT !.swapped = s.swapped,
                          !.eaten = s.eaten \/ (s.seen # "unknown" /\ Changes(s))]

LEMMA PsStatusEaten ==
    ASSUME NEW s, PsCore(s), ~s.apdu, s.model = "1038", NEW c \in CardStatus1038(s)
    PROVE  PsAsked(s, PsSeen(s, c))
<1> DEFINE et == s.eaten \/ (s.seen # "unknown" /\ Changes(s))
           t == [c EXCEPT !.swapped = s.swapped, !.eaten = et]
<1>1. PsAsked(s, c) /\ (s.seen # "unknown" => c = Capture(s)) /\ (s.seen = "unknown" => c.swapped = FALSE)
    BY PsStatus1038
<1>2. et \in BOOLEAN /\ s.swapped \in BOOLEAN
    <2>1. Changes(s) \in BOOLEAN
        BY DEF Changes
    <2> QED
        BY <2>1 DEF PsCore, PsRecord
<1>3. (s.swapped => s.seen # "unknown") /\ (s.swapped /\ ~s.eaten => Changes(s))
    BY DEF PsCore, PsTold
<1>4. s.swapped => et
    BY <1>3
<1> HIDE DEF et
<1>5. /\ t \in PsRecord /\ t.swapped = s.swapped /\ t.eaten = et /\ t.notes = c.notes /\ t.seen = c.seen
      /\ t.ret = c.ret /\ t.model = c.model /\ t.cur = c.cur /\ t.slot = c.slot /\ t.card = c.card
      /\ t.power = c.power /\ t.fresh = c.fresh /\ t.apdu = c.apdu
      /\ t.owed = c.owed /\ t.locked = c.locked /\ t.if_state = c.if_state
    BY <1>1, <1>2 DEF PsAsked, PsCore, PsRecord
<1> HIDE DEF t
<1>6. PsSlots(t) /\ PsLine(t)
    BY <1>1, <1>5 DEF PsAsked, PsCore, PsSlots, PsLine, Ready
<1>7. s.swapped => t.seen # "unknown"
    BY <1>1, <1>3, <1>5, PsCapture
<1>8. PsTold(t)
    BY <1>1, <1>4, <1>5, <1>7 DEF PsAsked, PsCore, PsTold
<1>9. PsAsked(s, t)
    BY <1>1, <1>5, <1>6, <1>8 DEF PsAsked, PsCore
<1> QED
    BY <1>9 DEF t, et, PsSeen

(* What a reset has come to *)
PsReset(s, t, want) ==
    /\ PsCore(t) /\ t.ret \in {"ok", "error"} /\ t.apdu = s.apdu /\ t.model = s.model
    /\ t.card = s.card /\ t.fresh = s.fresh
    /\ want = "default" /\ PsChosen(s) => PsChosen(t)

PsWants == {"default", "T0", "T1"}

LEMMA PsNegotiated ==
    ASSUME NEW s, PsCore(s), s.card # "none", NEW want \in PsWants
    PROVE  /\ Negotiated(s, want) \in {"none", "T0", "T1"}
           /\ want = "default" => Negotiated(s, want) \in PsCard[s.card].supp
<1>1. s.card \in DOMAIN PsCard
    BY DEF PsCore, PsRecord
<1>2. \A c \in DOMAIN PsCard :
        /\ PsCard[c].only \in {"none"} \cup PsCard[c].supp /\ PsCard[c].def \in PsCard[c].supp
        /\ PsCard[c].supp \subseteq {"T0", "T1"}
    BY DEF PsCard
<1> DEFINE c == PsCard[s.card]
<1>3. /\ c.only = "none" \/ (c.only \in c.supp /\ c.only \in {"T0", "T1"})
      /\ c.def \in c.supp /\ c.def \in {"T0", "T1"}
    BY <1>1, <1>2
<1>4. /\ c.only # "none" => Negotiated(s, want) = c.only
      /\ c.only = "none" /\ want = "default" => Negotiated(s, want) = c.def
      /\ c.only = "none" /\ want # "default" => Negotiated(s, want) \in {"none", want}
    BY Zenon DEF Negotiated
<1> HIDE DEF c
<1>5. /\ Negotiated(s, want) \in {"none", "T0", "T1"}
      /\ want = "default" => Negotiated(s, want) \in c.supp
    <2>1. CASE c.only # "none"
        <3>1. Negotiated(s, want) = c.only
            BY <1>4, <2>1
        <3> QED
            BY <1>3, <2>1, <3>1
    <2>2. CASE c.only = "none" /\ want = "default"
        <3>1. Negotiated(s, want) = c.def
            BY <1>4, <2>2
        <3> QED
            BY <1>3, <3>1
    <2>3. CASE c.only = "none" /\ want # "default"
        <3>1. Negotiated(s, want) \in {"none", want}
            BY <1>4, <2>3
        <3> QED
            BY <2>3, <3>1 DEF PsWants
    <2> QED
        BY <2>1, <2>2, <2>3
<1> QED
    BY <1>5 DEF c

LEMMA PsSelectedCore ==
    ASSUME NEW s, PsCore(s), NEW p \in {"T0", "T1"}
    PROVE  LET t == Selected(s, p)
           IN  /\ PsCore(t) /\ t.ret = "ok" /\ t.apdu = s.apdu /\ t.model = s.model
               /\ t.card = s.card /\ t.fresh = s.fresh /\ (t.slot = p \/ t.slot = s.slot)
<1>1. "ok" \in PsRets
    BY DEF PsRets
<1>2. CASE s.slot = "none" \/ s.cur # p
    <2> DEFINE t == [s EXCEPT !.slot = p, !.cur = p, !.ret = "ok"]
    <2>1. Selected(s, p) = t
        BY <1>2 DEF Selected
    <2>2. /\ t \in PsRecord /\ t.slot = p /\ t.cur = p /\ t.ret = "ok" /\ t.model = s.model
          /\ t.card = s.card /\ t.power = s.power /\ t.swapped = s.swapped /\ t.eaten = s.eaten
          /\ t.seen = s.seen /\ t.notes = s.notes /\ t.fresh = s.fresh /\ t.apdu = s.apdu
          /\ t.owed = s.owed /\ t.locked = s.locked /\ t.if_state = s.if_state
        BY <1>1 DEF PsCore, PsRecord
    <2> HIDE DEF t
    <2>3. PsSlots(t) /\ PsLine(t) /\ PsTold(t)
        BY <2>2 DEF PsCore, PsSlots, PsLine, PsTold, Ready, Changes
    <2> QED
        BY <2>1, <2>2, <2>3 DEF PsCore
<1>3. CASE ~(s.slot = "none" \/ s.cur # p)
    <2> DEFINE t == [s EXCEPT !.ret = "ok"]
    <2>1. Selected(s, p) = t
        BY <1>3 DEF Selected
    <2>2. t \in PsRecord /\ PsKeep(s, t) /\ t.ret = "ok" /\ t.owed = s.owed /\ t.locked = s.locked /\ t.if_state = s.if_state
        BY <1>1 DEF PsCore, PsRecord, PsKeep
    <2> HIDE DEF t
    <2>3. PsLine(t)
        BY <2>2 DEF PsCore, PsKeep, PsLine, Ready
    <2> QED
        BY <2>1, <2>2, <2>3, PsKeepCore DEF PsKeep
<1> QED
    BY <1>2, <1>3

LEMMA PsPowerUp ==
    ASSUME NEW s, PsCore(s), ~s.apdu, NEW want \in PsWants, NEW t \in PowerUp(s, want)
    PROVE  PsReset(s, t, want)
<1> DEFINE p == Negotiated(s, want)
           Up(e) == [e.s EXCEPT !.power = TRUE]
<1>1. PICK e \in Exchange(s, Frames) :
        \/ t = Failed(e.s)
        \/ /\ s.card # "none"
           /\ \E u : /\ \/ s.model = "1030" /\ u = Up(e)
                        \/ s.model # "1030" /\ \E c \in CardStatus1038(Up(e)) : u = PsSeen(Up(e), c)
                     /\ t = Failed(u) \/ (p # "none" /\ t = Selected(u, p))
    <2> DEFINE Asked(u) == IF s.model = "1030" THEN {u} ELSE {PsSeen(u, c) : c \in CardStatus1038(u)}
               bad == {x \in Exchange(s, Frames) : x.rc \notin {"ok", "short"} \/ s.card = "none"}
               good == {x \in Exchange(s, Frames) : x.rc \in {"ok", "short"} /\ s.card # "none"}
    <2>1. \/ t \in {Failed(x.s) : x \in bad}
          \/ t \in UNION {{IF x.rc = "short" \/ p = "none" THEN Failed(u) ELSE Selected(u, p)
                             : u \in Asked(Up(x))} : x \in good}
        BY DEF PowerUp, PsSeen
    <2>2. CASE t \in {Failed(x.s) : x \in bad}
        BY <2>2
    <2>3. CASE t \in UNION {{IF x.rc = "short" \/ p = "none" THEN Failed(u) ELSE Selected(u, p)
                              : u \in Asked(Up(x))} : x \in good}
        <3> HIDE DEF Asked, p, Up
        <3>1. PICK x \in good : \E u \in Asked(Up(x)) :
                t = IF x.rc = "short" \/ p = "none" THEN Failed(u) ELSE Selected(u, p)
            BY <2>3
        <3>2. PICK u \in Asked(Up(x)) : t = IF x.rc = "short" \/ p = "none" THEN Failed(u) ELSE Selected(u, p)
            BY <3>1
        <3>3. \/ s.model = "1030" /\ u = Up(x)
              \/ s.model # "1030" /\ \E c \in CardStatus1038(Up(x)) : u = PsSeen(Up(x), c)
            BY <3>2 DEF Asked
        <3>4. x \in Exchange(s, Frames) /\ s.card # "none"
            OBVIOUS
        <3> HIDE DEF good
        <3> QED
            BY <3>2, <3>3, <3>4
    <2> QED
        BY <2>1, <2>2, <2>3
<1>2. PsCore(e.s) /\ PsKeep(s, e.s)
    BY PsExchange
<1>3. CASE t = Failed(e.s)
    BY <1>2, <1>3, PsFailed DEF PsReset, PsKeep, PsChosen
<1>4. CASE /\ s.card # "none"
           /\ \E u : /\ \/ s.model = "1030" /\ u = Up(e)
                        \/ s.model # "1030" /\ \E c \in CardStatus1038(Up(e)) : u = PsSeen(Up(e), c)
                     /\ t = Failed(u) \/ (p # "none" /\ t = Selected(u, p))
    <2>1. PICK u : /\ \/ s.model = "1030" /\ u = Up(e)
                      \/ s.model # "1030" /\ \E c \in CardStatus1038(Up(e)) : u = PsSeen(Up(e), c)
                   /\ t = Failed(u) \/ (p # "none" /\ t = Selected(u, p))
        BY <1>4
    <2> DEFINE v == Up(e)
    <2>2. /\ v \in PsRecord /\ v.power = TRUE /\ v.slot = s.slot /\ v.cur = s.cur /\ v.model = s.model
          /\ v.card = s.card /\ v.swapped = s.swapped /\ v.eaten = s.eaten
          /\ v.seen = s.seen /\ v.notes = s.notes /\ v.fresh = s.fresh /\ v.apdu = s.apdu
          /\ v.owed = e.s.owed /\ v.locked = e.s.locked /\ v.if_state = e.s.if_state
        BY <1>2 DEF PsCore, PsRecord, PsKeep
    <2>3. \/ u = v
          \/ v.model = "1038" /\ \E c \in CardStatus1038(v) : u = PsSeen(v, c)
        BY <2>1, <2>2 DEF PsRecord
    <2> HIDE DEF v, Up
    <2>4. PsSlots(v) /\ PsLine(v) /\ PsTold(v)
        <3>1. PsSlots(v)
            BY <1>4, <2>2 DEF PsCore, PsSlots
        <3>2. PsLine(v)
            BY <1>2, <2>2 DEF PsCore, PsKeep, PsLine, Ready
        <3>3. Changes(v) <=> Changes(s)
            BY <2>2 DEF Changes
        <3>4. PsTold(v)
            BY <2>2, <3>3 DEF PsCore, PsTold
        <3> QED
            BY <3>1, <3>2, <3>4
    <2>5. PsCore(v) /\ ~v.apdu
        BY <2>2, <2>4 DEF PsCore
    <2>6. PsCore(u) /\ u.slot = s.slot /\ u.card = s.card /\ u.fresh = s.fresh /\ u.apdu = s.apdu /\ u.model = s.model
        BY <2>2, <2>3, <2>5, PsStatusEaten DEF PsAsked
    <2>7. CASE t = Failed(u)
        BY <2>6, <2>7, PsFailed DEF PsReset, PsKeep, PsChosen
    <2>8. CASE p # "none" /\ t = Selected(u, p)
        <3>1. p \in {"T0", "T1"} /\ (want = "default" => p \in PsCard[s.card].supp)
            BY <1>4, <2>8, PsNegotiated
        <3> HIDE DEF p
        <3> QED
            BY <2>6, <2>8, <3>1, PsSelectedCore DEF PsReset, PsChosen
    <2> QED
        BY <2>1, <2>7, <2>8
<1> QED
    BY <1>1, <1>3, <1>4

LEMMA PsReselect ==
    ASSUME NEW s, PsCore(s), ~s.apdu, NEW want \in PsWants,
           NEW t \in ps_card_reset_select_protocol(s, want)
    PROVE  PsReset(s, t, want)
<1> DEFINE other == s.slot = "none" \/ s.cur # want
           off == IF s.model = "1030" \/ other THEN Command(s) ELSE {[s |-> s, rc |-> "ok"]}
           Off(e) == [e.s EXCEPT !.power = @ /\ e.s = s]
           Sel(o) == IF other THEN Command(o) ELSE {[s |-> o, rc |-> "ok"]}
<1>1. \/ \E e \in off : t = Failed(e.s)
      \/ \E e \in off : \E x \in Sel(Off(e)) : t = Failed(x.s) \/ t \in PowerUp(x.s, want)
    <2> DEFINE sel == {e \in off : e.rc = "ok"}
               Rest(e) == {Failed(x.s) : x \in {y \in Sel(Off(e)) : y.rc # "ok"}}
                          \cup UNION {PowerUp(x.s, want) : x \in {y \in Sel(Off(e)) : y.rc = "ok"}}
    <2>1. t \in {Failed(e.s) : e \in off \ sel} \cup UNION {Rest(e) : e \in sel}
        BY Zenon DEF ps_card_reset_select_protocol
    <2> HIDE DEF off, Sel, Off
    <2>2. CASE t \in {Failed(e.s) : e \in off \ sel}
        BY <2>2
    <2>3. CASE t \in UNION {Rest(e) : e \in sel}
        <3>1. PICK e \in off : t \in Rest(e)
            BY <2>3
        <3>2. \E x \in Sel(Off(e)) : t = Failed(x.s) \/ t \in PowerUp(x.s, want)
            BY <3>1
        <3> QED
            BY <3>2
    <2> QED
        BY <2>1, <2>2, <2>3
<1>2. \A e \in off : PsCore(e.s) /\ PsKeep(s, e.s)
    BY PsCommand DEF PsKeep
<1>3. ASSUME NEW e \in off
      PROVE  /\ PsCore(Off(e)) /\ ~Off(e).apdu /\ Off(e).slot = s.slot /\ Off(e).card = s.card
             /\ Off(e).fresh = s.fresh /\ Off(e).model = s.model
    <2> DEFINE pw == e.s.power /\ e.s = s
               v == [e.s EXCEPT !.power = pw]
    <2>1. pw \in BOOLEAN /\ (pw => e.s.power) /\ Off(e) = v
        OBVIOUS
    <2>2. PsCore(e.s) /\ PsKeep(s, e.s)
        BY <1>2
    <2> HIDE DEF pw, Off, off
    <2>3. /\ v \in PsRecord /\ v.power = pw /\ v.slot = s.slot /\ v.cur = s.cur /\ v.model = s.model
          /\ v.card = s.card /\ v.swapped = s.swapped /\ v.eaten = s.eaten
          /\ v.seen = s.seen /\ v.notes = s.notes /\ v.fresh = s.fresh /\ v.apdu = s.apdu
          /\ v.owed = e.s.owed /\ v.locked = e.s.locked /\ v.if_state = e.s.if_state
        BY <2>1, <2>2 DEF PsCore, PsRecord, PsKeep
    <2> HIDE DEF v
    <2>4. PsSlots(v)
        BY <2>1, <2>2, <2>3 DEF PsCore, PsSlots, PsKeep
    <2>5. PsLine(v)
        BY <2>2, <2>3 DEF PsCore, PsKeep, PsLine, Ready
    <2>6. Changes(v) <=> Changes(s)
        BY <2>3 DEF Changes
    <2>7. PsTold(v)
        BY <2>3, <2>6 DEF PsCore, PsTold
    <2> QED
        BY <2>1, <2>3, <2>4, <2>5, <2>7 DEF PsCore
<1> HIDE DEF off, Off
<1>4. CASE \E e \in off : t = Failed(e.s)
    BY <1>2, <1>4, PsFailed DEF PsReset, PsKeep, PsChosen
<1>5. CASE \E e \in off : \E x \in Sel(Off(e)) : t = Failed(x.s) \/ t \in PowerUp(x.s, want)
    <2>1. PICK e \in off : \E x \in Sel(Off(e)) : t = Failed(x.s) \/ t \in PowerUp(x.s, want)
        BY <1>5
    <2>2. PICK x \in Sel(Off(e)) : t = Failed(x.s) \/ t \in PowerUp(x.s, want)
        BY <2>1
    <2> DEFINE o == Off(e)
    <2>3. /\ PsCore(o) /\ ~o.apdu /\ o.slot = s.slot /\ o.card = s.card
          /\ o.fresh = s.fresh /\ o.model = s.model
        BY <1>3
    <2> HIDE DEF o
    <2>4. x \in Command(o) \/ x = [s |-> o, rc |-> "ok"]
        BY DEF o
    <2>5. PsCore(x.s) /\ PsKeep(o, x.s)
        BY <2>3, <2>4, PsCommand DEF PsKeep
    <2>6. /\ ~x.s.apdu /\ x.s.slot = s.slot /\ x.s.card = s.card
          /\ x.s.fresh = s.fresh /\ x.s.model = s.model /\ x.s.apdu = s.apdu
        BY <2>3, <2>5 DEF PsKeep, PsCore, PsRecord
    <2>7. CASE t = Failed(x.s)
        BY <2>5, <2>6, <2>7, PsFailed DEF PsReset, PsKeep, PsChosen
    <2>8. CASE t \in PowerUp(x.s, want)
        BY <2>5, <2>6, <2>8, PsPowerUp DEF PsReset, PsChosen
    <2> QED
        BY <2>2, <2>7, <2>8
<1> QED
    BY <1>1, <1>4, <1>5

LEMMA PsInitGood ==
    ASSUME PsInit
    PROVE  PsGood(ps)
<1>1. <<>> \in Seq({"in", "out"}) /\ Len(<<>>) = 0
    OBVIOUS
<1>2. GoodFrame \in PsFrame
    BY PsFrames DEF Frames
<1>3. CASE ps = PsOpen1030
    <2>1. ps \in PsRecord /\ ps.slot = "none" /\ ps.ret = "none"
        BY <1>1, <1>2, <1>3 DEF PsOpen1030, PsRecord, PsRets
    <2> QED
        BY <1>3, <2>1 DEF PsOpen1030, PsGood, PsCore, PsOwn, PsChosen, PsSlots, PsTold, PsLine, Ready
<1>4. CASE ps = PsOpen1038
    <2> HIDE DEF GoodFrame
    <2>0. ps = [model |-> "1038", if_state |-> "IDLE", cur |-> "default", slot |-> "none",
                card |-> "none", cards |-> 0, power |-> FALSE, swapped |-> FALSE, eaten |-> FALSE,
                seen |-> "unknown", notes |-> <<>>, owed |-> FALSE, ret |-> "none", got |-> GoodFrame,
                fresh |-> TRUE, locked |-> FALSE, apdu |-> FALSE]
        BY <1>4 DEF PsOpen1038, PsOpen1030
    <2>1. ps \in PsRecord /\ ps.slot = "none" /\ ps.ret = "none"
        BY <1>1, <1>2, <2>0 DEF PsRecord, PsRets
    <2> QED
        BY <2>0, <2>1 DEF PsGood, PsCore, PsOwn, PsChosen, PsSlots, PsTold, PsLine, Ready
<1> QED
    BY <1>3, <1>4 DEF PsInit

LEMMA PsStatusGood ==
    ASSUME PsGood(ps), ps_card_status
    PROVE  PsGood(ps')
<1>1. PsAsked(ps, ps')
    BY PsStatus1030, PsStatus1038 DEF ps_card_status, PsGood
<1> QED
    BY <1>1 DEF PsGood, PsAsked, PsOwn, PsChosen

(* Only the mark of a protocol that came from the ATR is set after a reset. *)
LEMMA PsFresh ==
    ASSUME NEW s, PsCore(s), s.ret \notin {"apdu", "short"}, NEW b \in BOOLEAN, b /\ s.power => PsChosen(s)
    PROVE  PsGood([s EXCEPT !.fresh = b])
<1> DEFINE t == [s EXCEPT !.fresh = b]
<1>1. /\ t \in PsRecord /\ t.fresh = b /\ t.power = s.power /\ t.slot = s.slot /\ t.cur = s.cur
      /\ t.model = s.model /\ t.ret = s.ret
      /\ t.card = s.card /\ t.swapped = s.swapped /\ t.eaten = s.eaten
      /\ t.seen = s.seen /\ t.notes = s.notes /\ t.apdu = s.apdu
      /\ t.owed = s.owed /\ t.locked = s.locked /\ t.if_state = s.if_state
    BY DEF PsCore, PsRecord
<1> HIDE DEF t
<1>2. PsSlots(t)
    BY <1>1 DEF PsCore, PsSlots
<1>3. PsLine(t)
    BY <1>1 DEF PsCore, PsLine, Ready
<1>4. Changes(t) <=> Changes(s)
    BY <1>1 DEF Changes
<1>5. PsTold(t)
    BY <1>1, <1>4 DEF PsCore, PsTold
<1>6. PsGood(t)
    BY <1>1, <1>2, <1>3, <1>5 DEF PsGood, PsCore, PsOwn, PsChosen
<1> QED
    BY <1>6 DEF t

LEMMA PsResetGood ==
    ASSUME PsGood(ps), ps_card_reset
    PROVE  PsGood(ps')
<1> DEFINE s0 == [ps EXCEPT !.slot = "none"]
           b == ps.cur = "default"
<1>1. PICK s \in ps_card_reset_select_protocol(s0, ps.cur) : ps' = [s EXCEPT !.fresh = b]
    BY DEF ps_card_reset
<1>2. /\ s0 \in PsRecord /\ s0.slot = "none" /\ s0.power = ps.power /\ s0.cur = ps.cur
      /\ s0.model = ps.model
      /\ s0.card = ps.card /\ s0.swapped = ps.swapped /\ s0.eaten = ps.eaten
      /\ s0.seen = ps.seen /\ s0.notes = ps.notes /\ s0.apdu = ps.apdu
      /\ s0.owed = ps.owed /\ s0.locked = ps.locked /\ s0.if_state = ps.if_state
    BY DEF PsGood, PsCore, PsRecord
<1>3. ps.cur \in PsWants /\ b \in BOOLEAN
    BY DEF PsGood, PsCore, PsRecord, PsWants
<1> HIDE DEF s0
<1>4. Changes(s0) <=> Changes(ps)
    BY <1>2 DEF Changes
<1>5. PsCore(s0) /\ ~s0.apdu
    BY <1>2, <1>4 DEF PsGood, PsCore, PsSlots, PsLine, PsTold, Ready, ps_card_reset
<1>6. PsReset(s0, s, ps.cur)
    BY <1>3, <1>5, PsReselect
<1>7. PsCore(s) /\ s.ret \notin {"apdu", "short"} /\ (b => PsChosen(s))
    BY <1>2, <1>6 DEF PsReset, PsChosen
<1> HIDE DEF b
<1> QED
    BY <1>1, <1>3, <1>7, PsFresh

LEMMA PsSetProtocolGood ==
    ASSUME PsGood(ps), NEW want \in PsWants, ps_set_protocol(want)
    PROVE  PsGood(ps')
<1>1. CASE ~(ps.slot = "none" \/ ps.cur # want)
    <2>1. ps' = [ps EXCEPT !.ret = "ok"]
        BY <1>1 DEF ps_set_protocol
    <2>2. "ok" \in PsRets
        BY DEF PsRets
    <2>3. /\ ps' \in PsRecord /\ PsKeep(ps, ps') /\ ps'.ret = "ok"
          /\ ps'.owed = ps.owed /\ ps'.locked = ps.locked /\ ps'.if_state = ps.if_state
        BY <2>1, <2>2 DEF PsGood, PsCore, PsRecord, PsKeep
    <2>4. PsLine(ps')
        BY <2>3 DEF PsGood, PsCore, PsLine, PsKeep, Ready
    <2>5. PsCore(ps')
        BY <2>3, <2>4, PsKeepCore DEF PsGood
    <2> QED
        BY <2>3, <2>5 DEF PsGood, PsOwn, PsChosen, PsKeep
<1>2. CASE ps.slot = "none" \/ ps.cur # want
    <2>1. PICK s \in ps_card_reset_select_protocol(ps, want) : ps' = [s EXCEPT !.fresh = FALSE]
        BY <1>2 DEF ps_set_protocol
    <2>2. PsCore(s) /\ s.ret \notin {"apdu", "short"}
        BY PsReselect DEF PsReset, PsGood, ps_set_protocol
    <2> QED
        BY <2>1, <2>2, PsFresh
<1> QED
    BY <1>1, <1>2

LEMMA PsDeactivateGood ==
    ASSUME PsGood(ps), ps_deactivate
    PROVE  PsGood(ps')
<1>1. PICK e \in Command(ps) : ps' = [e.s EXCEPT !.ret = IF e.rc = "ok" THEN "ok" ELSE "error",
                                                !.power = @ /\ e.rc # "ok"]
    BY DEF ps_deactivate
<1>2. PsCore(e.s) /\ PsKeep(ps, e.s) /\ e.rc \in PsCodes
    BY PsCommand DEF ps_deactivate, PsGood
<1> DEFINE rt == IF e.rc = "ok" THEN "ok" ELSE "error"
           pw == e.s.power /\ e.rc # "ok"
<1>3. rt \notin {"apdu", "short"} /\ rt \in PsRets
    BY DEF PsRets
<1>4. pw \in BOOLEAN /\ (pw => e.s.power) /\ ps' = [e.s EXCEPT !.ret = rt, !.power = pw]
    BY <1>1
<1> HIDE DEF pw, rt
<1> DEFINE s == e.s
<1>5. /\ ps' \in PsRecord /\ ps'.power = pw /\ ps'.slot = s.slot /\ ps'.cur = s.cur /\ ps'.ret = rt
      /\ ps'.model = s.model /\ ps'.fresh = s.fresh
      /\ ps'.card = s.card /\ ps'.swapped = s.swapped /\ ps'.eaten = s.eaten
      /\ ps'.seen = s.seen /\ ps'.notes = s.notes /\ ps'.apdu = s.apdu
      /\ ps'.owed = s.owed /\ ps'.locked = s.locked /\ ps'.if_state = s.if_state
    BY <1>2, <1>3, <1>4 DEF PsCore, PsRecord
<1>6. Changes(ps') <=> Changes(s)
    BY <1>5 DEF Changes
<1>7. PsCore(ps')
    BY <1>2, <1>4, <1>5, <1>6 DEF PsCore, PsSlots, PsLine, PsTold, Ready
<1>8. ps'.fresh /\ ps'.power => PsChosen(ps')
    BY <1>2, <1>4, <1>5 DEF PsGood, PsKeep, PsChosen
<1> QED
    BY <1>3, <1>5, <1>7, <1>8 DEF PsGood, PsOwn

(* A step that only moves the transmission on, or ends with an error, and
   leaves the card alone. *)
LEMMA PsMoved ==
    ASSUME PsGood(ps), NEW s, s \in PsRecord, PsLine(s), s.ret \notin {"apdu", "short"},
           s.model = ps.model, s.cur = ps.cur, s.slot = ps.slot, s.card = ps.card,
           s.power = ps.power, s.swapped = ps.swapped, s.eaten = ps.eaten, s.seen = ps.seen,
           s.notes = ps.notes, s.fresh = ps.fresh
    PROVE  PsGood(s)
<1>1. Changes(s) <=> Changes(ps)
    BY DEF Changes
<1>2. PsTold(s) /\ PsSlots(s)
    BY <1>1 DEF PsGood, PsCore, PsTold, PsSlots
<1> QED
    BY <1>2 DEF PsGood, PsCore, PsOwn, PsChosen

LEMMA PsApduSentGood ==
    ASSUME PsGood(ps), ApduSent
    PROVE  PsGood(ps')
<1> DEFINE s == Sent(ps)
<1>1. PsCore(s) /\ PsKeep(ps, s) /\ s.owed = FALSE
    BY PsSentKeeps DEF PsGood
<1> HIDE DEF s
<1>2. "none" \in PsRets
    BY DEF PsRets
<1>3. ps' = [s EXCEPT !.if_state = "SENDING", !.apdu = TRUE, !.ret = "none", !.locked = FALSE]
    BY DEF ApduSent, s
<1>4. /\ ps' \in PsRecord /\ ps'.if_state = "SENDING" /\ ps'.apdu = TRUE /\ ps'.ret = "none"
      /\ ps'.locked = FALSE /\ ps'.owed = FALSE
      /\ ps'.model = s.model /\ ps'.cur = s.cur /\ ps'.slot = s.slot /\ ps'.card = s.card
      /\ ps'.power = s.power /\ ps'.swapped = s.swapped /\ ps'.eaten = s.eaten /\ ps'.seen = s.seen
      /\ ps'.notes = s.notes /\ ps'.fresh = s.fresh
    BY <1>1, <1>2, <1>3 DEF PsCore, PsRecord
<1>5. PsLine(ps')
    BY <1>4 DEF PsLine
<1> QED
    BY <1>1, <1>4, <1>5, PsMoved DEF PsKeep

LEMMA PsApduNotSentGood ==
    ASSUME PsGood(ps), NEW state, ~ps.apdu, ApduNotSent(state),
           state \in {"IDLE", "ERROR"} \/ (state = ps.if_state /\ ps.model = "1030")
    PROVE  PsGood(ps')
<1>1. "error" \in PsRets
    BY DEF PsRets
<1>2. ps' = [ps EXCEPT !.if_state = state, !.ret = "error", !.locked = FALSE]
    BY DEF ApduNotSent
<1>3. /\ ps' \in PsRecord /\ ps'.if_state = state /\ ps'.apdu = ps.apdu /\ ps'.ret = "error"
      /\ ps'.locked = FALSE /\ ps'.owed = ps.owed
      /\ ps'.model = ps.model /\ ps'.cur = ps.cur /\ ps'.slot = ps.slot /\ ps'.card = ps.card
      /\ ps'.power = ps.power /\ ps'.swapped = ps.swapped /\ ps'.eaten = ps.eaten /\ ps'.seen = ps.seen
      /\ ps'.notes = ps.notes /\ ps'.fresh = ps.fresh
    BY <1>1, <1>2 DEF PsGood, PsCore, PsRecord
<1>4. PsLine(ps')
    BY <1>3 DEF PsLine, PsGood, PsCore, Ready
<1> QED
    BY <1>3, <1>4, PsMoved

LEMMA PsLocked1030Good ==
    ASSUME PsGood(ps), ~ps.apdu, ps.model = "1030", ps' = Locked1030(ps)
    PROVE  PsGood(ps')
<1>1. "error" \in PsRets
    BY DEF PsRets
<1>2. ps' = [ps EXCEPT !.if_state = "IDLE", !.locked = TRUE, !.ret = "error"]
    BY DEF Locked1030
<1>3. /\ ps' \in PsRecord /\ ps'.if_state = "IDLE" /\ ps'.apdu = ps.apdu /\ ps'.ret = "error"
      /\ ps'.locked = TRUE /\ ps'.owed = ps.owed
      /\ ps'.model = ps.model /\ ps'.cur = ps.cur /\ ps'.slot = ps.slot /\ ps'.card = ps.card
      /\ ps'.power = ps.power /\ ps'.swapped = ps.swapped /\ ps'.eaten = ps.eaten /\ ps'.seen = ps.seen
      /\ ps'.notes = ps.notes /\ ps'.fresh = ps.fresh
    BY <1>1, <1>2 DEF PsGood, PsCore, PsRecord
<1>4. PsLine(ps')
    BY <1>3 DEF PsLine, PsGood, PsCore, Ready
<1> QED
    BY <1>3, <1>4, PsMoved

LEMMA PsApduSendGood ==
    ASSUME PsGood(ps), ps_apdu_send
    PROVE  PsGood(ps')
<1>1. CASE ps.model = "1030" /\ ApduSend1030
    BY <1>1, PsApduSentGood, PsApduNotSentGood, PsLocked1030Good DEF ApduSend1030, ps_apdu_send
<1>2. CASE ps.model = "1038" /\ ApduSend1038
    <2>1. Ready(ps)
        BY <1>2 DEF ps_apdu_send, PsGood, PsCore, PsLine
    <2> QED
        BY <1>2, <2>1, PsApduSentGood, PsApduNotSentGood DEF ApduSend1038, ps_apdu_send
<1> QED
    BY <1>1, <1>2 DEF ps_apdu_send

(* The only frame that is accepted is the good one. *)
LEMMA PsAccepted ==
    ASSUME NEW f \in Frames, f.head, f.sw = "ok", f.len <= Room, f.data = f.len, f.sum
    PROVE  f = GoodFrame
BY DEF Frames, GoodFrame, Frame, Room

LEMMA PsApduRecvGood ==
    ASSUME PsGood(ps), ps_apdu_recv
    PROVE  PsGood(ps')
<1> DEFINE Ret(rc) == CASE rc = "ok" -> "apdu" [] rc = "short" -> "short" [] OTHER -> "error"
<1>1. PICK e \in Reads(ps, Frames) : ps' = [e.s EXCEPT !.apdu = FALSE, !.ret = Ret(e.rc)]
    BY DEF ps_apdu_recv
<1>2. PICK f \in {x \in Frames : x.sum \/ ps.model = "1030"} : e = Received(ps, Arrived(ps, f))
    BY DEF Reads
<1>3. ~ps.owed /\ Arrived(ps, f) = f
    BY PsArrivedFrame DEF ps_apdu_recv, PsGood, PsCore, PsLine
<1>4. f \in PsFrame
    BY PsFrames
<1> DEFINE s == e.s
           r == Ret(e.rc)
<1>5. /\ s \in PsRecord /\ PsKeep(ps, s) /\ e.rc \in PsCodes /\ s.got = f
      /\ s.if_state \in {"IDLE", "FINISHED"} /\ s.locked = FALSE
      /\ ps.model = "1038" => s.if_state = "IDLE" /\ s.owed = FALSE
      /\ e.rc = IF ps.model = "1030" THEN Decode1030(f) ELSE Decode1038(f)
    <2>1. e = Received(ps, f) /\ PsCore(ps)
        BY <1>2, <1>3 DEF PsGood
    <2> HIDE DEF Ret
    <2> QED
        BY <1>4, <2>1, PsReceivedCore
<1>6. r \in PsRets /\ (r = "apdu" => e.rc = "ok")
    BY DEF PsRets
<1>7. r = "apdu" => f = GoodFrame
    <2>1. CASE ps.model = "1030"
        BY <1>4, <1>5, <1>6, <2>1, PsDecoded, PsAccepted
    <2>2. CASE ps.model # "1030"
        BY <1>4, <1>5, <1>6, <2>2, PsDecoded, PsAccepted
    <2> QED
        BY <2>1, <2>2
<1>a. ~f.stale
    BY PsFrames
<1>8. ps' = [s EXCEPT !.apdu = FALSE, !.ret = r]
    BY <1>1
<1> HIDE DEF s, r
<1>9. /\ ps' \in PsRecord /\ ps'.if_state = s.if_state /\ ps'.apdu = FALSE /\ ps'.ret = r
      /\ ps'.locked = FALSE /\ ps'.owed = s.owed /\ ps'.got = f
      /\ ps'.model = s.model /\ ps'.cur = s.cur /\ ps'.slot = s.slot /\ ps'.card = s.card
      /\ ps'.power = s.power /\ ps'.swapped = s.swapped /\ ps'.eaten = s.eaten /\ ps'.seen = s.seen
      /\ ps'.notes = s.notes /\ ps'.fresh = s.fresh
    BY <1>5, <1>6, <1>8 DEF PsRecord
<1>10. PsLine(ps')
    BY <1>5, <1>9 DEF PsLine, PsKeep, Ready
<1>11. Changes(ps') <=> Changes(ps)
    BY <1>5, <1>9 DEF Changes, PsKeep
<1>12. PsTold(ps') /\ PsSlots(ps')
    BY <1>5, <1>9, <1>11 DEF PsGood, PsCore, PsTold, PsSlots, PsKeep
<1>13. PsOwn(ps')
    BY <1>7, <1>9, <1>a DEF PsOwn
<1> QED
    BY <1>5, <1>9, <1>10, <1>12, <1>13 DEF PsGood, PsCore, PsKeep, PsChosen

(* A notification more: what was a change before is one after, and a card
   that leaves is one. *)
LEMMA PsOneMore ==
    ASSUME NEW s \in PsRecord, NEW t \in PsRecord, NEW n \in {"in", "out"},
           t.notes = Append(s.notes, n), t.seen = s.seen
    PROVE  /\ t.notes # <<>> /\ t.notes[Len(t.notes)] = n
           /\ Changes(s) => Changes(t)
           /\ s.notes = <<>> /\ s.seen # n => Changes(t)
           /\ s.notes # <<>> /\ s.notes[Len(s.notes)] # n => Changes(t)
<1> DEFINE m == s.notes
<1>1. m \in Seq({"in", "out"}) /\ t.notes = Append(m, n)
    BY DEF PsRecord
<1>2. /\ Len(t.notes) = Len(m) + 1 /\ DOMAIN t.notes = 1..(Len(m) + 1) /\ DOMAIN m = 1..Len(m)
      /\ Len(m) \in Nat
      /\ \A i \in 1..Len(m) : t.notes[i] = m[i]
      /\ t.notes[Len(m) + 1] = n
      /\ m = <<>> => Len(m) = 0
      /\ m # <<>> => Len(m) > 0
    BY <1>1
<1>3. Changes(s) => Changes(t)
    <2>1. SUFFICES ASSUME NEW i \in DOMAIN m, m[i] # (IF i = 1 THEN s.seen ELSE m[i - 1])
                   PROVE  \E j \in DOMAIN t.notes : t.notes[j] # (IF j = 1 THEN t.seen ELSE t.notes[j - 1])
        BY DEF Changes
    <2>2. i \in DOMAIN t.notes /\ t.notes[i] = m[i] /\ (i # 1 => t.notes[i - 1] = m[i - 1])
        BY <1>2
    <2> QED
        BY <2>1, <2>2
<1>4. CASE m = <<>>
    <2>1. 1 \in DOMAIN t.notes /\ t.notes[1] = n
        BY <1>2, <1>4
    <2>2. s.seen # n => Changes(t)
        BY <2>1 DEF Changes
    <2> QED
        BY <1>2, <1>3, <1>4, <2>2
<1>5. CASE m # <<>>
    <2>1. /\ Len(m) + 1 \in DOMAIN t.notes /\ Len(m) + 1 # 1 /\ (Len(m) + 1) - 1 = Len(m)
          /\ t.notes[Len(m)] = m[Len(m)]
        BY <1>2, <1>5
    <2>2. m[Len(m)] # n => Changes(t)
        BY <1>2, <2>1 DEF Changes
    <2> QED
        BY <1>2, <1>3, <1>5, <2>2
<1> QED
    BY <1>4, <1>5

LEMMA PsInsertGood ==
    ASSUME PsGood(ps), NEW c \in DOMAIN PsCard, PsInsert(c)
    PROVE  PsGood(ps')
<1> DEFINE nt == IF ps.model = "1038" THEN Append(ps.notes, "in") ELSE ps.notes
           k == ps.cards + 1
<1>1. nt \in Seq({"in", "out"}) /\ k \in Nat /\ c \in DOMAIN PsCard \cup {"none"}
    BY DEF PsGood, PsCore, PsRecord
<1>2. ps' = [ps EXCEPT !.card = c, !.cards = k, !.power = FALSE, !.notes = nt]
    BY DEF PsInsert
<1>3. c # "none"
    BY DEF PsCard
<1> HIDE DEF nt, k
<1>4. /\ ps' \in PsRecord /\ ps'.if_state = ps.if_state /\ ps'.apdu = ps.apdu /\ ps'.ret = ps.ret
      /\ ps'.locked = ps.locked /\ ps'.owed = ps.owed /\ ps'.got = ps.got
      /\ ps'.model = ps.model /\ ps'.cur = ps.cur /\ ps'.slot = ps.slot /\ ps'.card = c
      /\ ps'.power = FALSE /\ ps'.swapped = ps.swapped /\ ps'.eaten = ps.eaten /\ ps'.seen = ps.seen
      /\ ps'.notes = nt /\ ps'.fresh = ps.fresh
    BY <1>1, <1>2 DEF PsGood, PsCore, PsRecord
<1>5. PsLine(ps') /\ PsSlots(ps') /\ PsOwn(ps')
    BY <1>4 DEF PsGood, PsCore, PsLine, PsSlots, PsOwn, Ready
<1>6. PsTold(ps')
    <2>1. CASE ps.model = "1038"
        <3>1. ps'.notes = Append(ps.notes, "in")
            BY <1>4, <2>1 DEF nt
        <3>2. ps'.notes[Len(ps'.notes)] = "in" /\ (Changes(ps) => Changes(ps'))
            BY <1>4, <3>1, PsOneMore DEF PsGood, PsCore
        <3> QED
            BY <1>3, <1>4, <3>2 DEF PsGood, PsCore, PsTold
    <2>2. CASE ps.model # "1038"
        BY <1>4, <2>2 DEF PsGood, PsCore, PsTold
    <2> QED
        BY <2>1, <2>2
<1> QED
    BY <1>4, <1>5, <1>6 DEF PsGood, PsCore

LEMMA PsRemoveGood ==
    ASSUME PsGood(ps), PsRemove
    PROVE  PsGood(ps')
<1> DEFINE nt == IF ps.model = "1038" THEN Append(ps.notes, "out") ELSE ps.notes
           sw == ps.swapped \/ (ps.power /\ ps.seen \in {"in", "on"})
<1>1. nt \in Seq({"in", "out"}) /\ sw \in BOOLEAN
    BY DEF PsGood, PsCore, PsRecord
<1>2. ps' = [ps EXCEPT !.card = "none", !.swapped = sw, !.power = FALSE, !.notes = nt]
    BY DEF PsRemove
<1>3. sw => ps.swapped \/ ps.seen \in {"in", "on"}
    OBVIOUS
<1>a. ps.model = "1030" /\ sw => ps.seen \in {"in", "on"}
    BY <1>3 DEF PsGood, PsCore, PsTold
<1> HIDE DEF nt, sw
<1>4. /\ ps' \in PsRecord /\ ps'.if_state = ps.if_state /\ ps'.apdu = ps.apdu /\ ps'.ret = ps.ret
      /\ ps'.locked = ps.locked /\ ps'.owed = ps.owed /\ ps'.got = ps.got
      /\ ps'.model = ps.model /\ ps'.cur = ps.cur /\ ps'.slot = ps.slot /\ ps'.card = "none"
      /\ ps'.power = FALSE /\ ps'.swapped = sw /\ ps'.eaten = ps.eaten /\ ps'.seen = ps.seen
      /\ ps'.notes = nt /\ ps'.fresh = ps.fresh
    BY <1>1, <1>2 DEF PsGood, PsCore, PsRecord
<1>5. PsLine(ps') /\ PsSlots(ps') /\ PsOwn(ps')
    BY <1>4 DEF PsGood, PsCore, PsLine, PsSlots, PsOwn, Ready
<1>6. PsTold(ps')
    <2>1. CASE ps.model = "1038"
        <3>1. ps'.notes = Append(ps.notes, "out")
            BY <1>4, <2>1 DEF nt
        <3>2. /\ ps'.notes[Len(ps'.notes)] = "out"
              /\ ps.notes = <<>> /\ ps.seen # "out" => Changes(ps')
              /\ ps.notes # <<>> /\ ps.notes[Len(ps.notes)] # "out" => Changes(ps')
              /\ Changes(ps) => Changes(ps')
            BY <1>4, <3>1, PsOneMore DEF PsGood, PsCore
        <3>3. ps.notes # <<>> => ps.notes[Len(ps.notes)] = "in"
            BY <2>1 DEF PsGood, PsCore, PsTold, PsRemove
        <3>4. sw /\ ~ps.eaten => Changes(ps')
            BY <1>3, <2>1, <3>2, <3>3 DEF PsGood, PsCore, PsTold
        <3>5. sw => ps.seen # "unknown"
            BY <1>3 DEF PsGood, PsCore, PsTold
        <3> QED
            BY <1>4, <2>1, <3>2, <3>4, <3>5 DEF PsTold
    <2>2. CASE ps.model # "1038"
        <3>1. sw => ps.seen # "unknown"
            BY <1>3 DEF PsGood, PsCore, PsTold
        <3> QED
            BY <1>4, <1>a, <2>2, <3>1 DEF PsTold
    <2> QED
        BY <2>1, <2>2
<1> QED
    BY <1>4, <1>5, <1>6 DEF PsGood, PsCore

LEMMA PsNextGood ==
    ASSUME PsGood(ps), PsNext
    PROVE  PsGood(ps')
<1>1. \A want \in {"default", "T0", "T1"} : ps_set_protocol(want) => PsGood(ps')
    BY PsSetProtocolGood DEF PsWants
<1> QED
    BY <1>1, PsStatusGood, PsResetGood, PsDeactivateGood, PsApduSendGood, PsApduRecvGood, PsInsertGood,
       PsRemoveGood DEF PsNext

LEMMA PsGoodSuffices ==
    ASSUME PsGood(ps)
    PROVE  PsAnswerIsOwn /\ PsAgree /\ PsChangeKept /\ PsUnlocks
<1>1. PsAnswerIsOwn /\ PsAgree /\ PsUnlocks
    BY DEF PsGood, PsCore, PsOwn, PsChosen, PsSlots, PsLine, Ready, PsAnswerIsOwn, PsAgree, PsUnlocks
<1>2. ps.model = "1030" /\ ps.swapped /\ ps.card = "none" => CStat(ps) # ps.seen
    BY DEF PsGood, PsCore, PsTold, CStat
<1>3. ps.model \in {"1030", "1038"}
    BY DEF PsGood, PsCore, PsRecord
<1>4. PsChangeKept
    BY <1>2, <1>3 DEF PsGood, PsCore, PsTold, PsChangeKept
<1> QED
    BY <1>1, <1>4

-----------------------------------------------------------------------------
(* The CCID driver: CcGood *)

CcRecord ==
    [dev : CcDevices, st : {"closed", "failed", "open"}, intf : Nat, intr : BOOLEAN,
     rtype : {"CHAR", "TPDU", "APDU"}, seq : Nat, owed : Seq([slot : Nat, seq : Nat]), fails : Nat,
     stale : BOOLEAN, icc_present : [0 .. 1 -> {"unknown", "in", "out"}],
     notes : Seq([0 .. 1 -> [stat : {"in", "out"}, ch : BOOLEAN]]),
     swapped : BOOLEAN, eaten : BOOLEAN, card : [0 .. 1 -> DOMAIN CcCard \cup {"none"}],
     cards : Nat, power : BOOLEAN, proto : {"none", "trans", "T0", "T1"}, icc : {"none", "T0", "T1"},
     rpar : {"T0", "T1"}, cpar : {"T0", "T1"}, chosen : BOOLEAN, dirty : BOOLEAN,
     esc : {"none", "ESCAPE"}, sbuf : {"none", "new"}, twice : BOOLEAN]

(* The number a was given to one of the last f commands before that of number q. *)
CcAgo(a, f, q) ==
    /\ a \in Nat /\ a < CcSeqMod
    /\ \E d \in 1 .. f : a + d = q \/ a + d = q + CcSeqMod

CcOwes(o, f, q) == \A i \in DOMAIN o : CcAgo(o[i].seq, f, q)

(* The answers still owed are those of commands that failed in a row, too few
   for a number to come round again. *)
CcLine(s) ==
    /\ s.seq < CcSeqMod /\ s.fails <= CcFails /\ ~s.stale /\ ~s.twice
    /\ CcOwes(s.owed, s.fails, s.seq)

(* The interface in use, and what an unopened reader has not got. *)
CcEnds(s) ==
    /\ s.st = "open" => /\ Bulk \subseteq s.dev.intfs[s.intf].ends
                        /\ s.intr <=> "intr" \in s.dev.intfs[s.intf].ends
    /\ s.st # "open" => s.notes = <<>> /\ s.icc_present[0] = "unknown" /\ s.power = FALSE
                       /\ s.swapped = FALSE

(* The last message of the pipe is about the card as it is; a change not told
   yet is in the pipe, or read away; a cache that is wrong is a change not told. *)
CcTell(s) ==
    s.intr =>
        /\ s.notes # <<>> => s.notes[Len(s.notes)][0].stat = InOut(s.card[0])
        /\ s.swapped => s.eaten \/ \E i \in DOMAIN s.notes : s.notes[i][0].ch
        /\ s.icc_present[0] # "unknown" /\ s.icc_present[0] # InOut(s.card[0]) => s.swapped
        /\ s.dev.slots = 1 /\ s.icc_present[0] # "unknown" /\ s.notes = <<>>
              => s.icc_present[0] = InOut(s.card[0])

CcObj(s, proto) == IF s.rtype = "APDU" \/ (proto = "T0" /\ s.rtype # "CHAR") THEN "trans" ELSE proto
CcDef(s) == CcCard[s.card[0]].def
CcNew(s) == IF "parse" \in s.dev.features THEN CcDef(s) ELSE "T0"

(* What a reset leaves, and what the selection after it makes of that. *)
CcPars(s) ==
    /\ s.power => s.card[0] # "none"
    /\ s.proto # "none" => s.chosen
    /\ s.power /\ ~s.dirty /\ ~s.chosen => s.rpar = CcNew(s) /\ s.cpar = CcDef(s)
    /\ s.proto # "none" /\ s.power /\ ~s.dirty /\ s.rtype # "APDU" /\ "auto" \notin s.dev.features
          /\ s.icc \in CcCard[s.card[0]].supp
       => s.proto = CcObj(s, s.icc) /\ s.rpar = s.icc /\ s.cpar = s.icc

CcGood(s) == s \in CcRecord /\ CcLine(s) /\ CcEnds(s) /\ CcTell(s) /\ CcPars(s)

(* What a command leaves alone *)
CcRest(s, t) ==
    /\ t.dev = s.dev /\ t.st = s.st /\ t.intf = s.intf /\ t.intr = s.intr /\ t.rtype = s.rtype
    /\ t.icc_present = s.icc_present /\ t.notes = s.notes /\ t.swapped = s.swapped
    /\ t.eaten = s.eaten /\ t.card = s.card /\ t.cards = s.cards /\ t.esc = s.esc /\ t.sbuf = s.sbuf
CcParams(s, t) ==
    /\ t.power = s.power /\ t.proto = s.proto /\ t.icc = s.icc /\ t.rpar = s.rpar /\ t.cpar = s.cpar
    /\ t.chosen = s.chosen /\ t.dirty = s.dirty

LEMMA CcNextNumber ==
    ASSUME NEW q \in Nat, q < CcSeqMod
    PROVE  /\ q + 1 < CcSeqMod => (q + 1) % CcSeqMod = q + 1
           /\ q + 1 = CcSeqMod => (q + 1) % CcSeqMod = 0
<1>1. CcSeqMod \in Nat /\ CcSeqMod > 0
    BY CcAssumption
<1>2. CASE q + 1 < CcSeqMod
    BY <1>1, <1>2
<1>3. CASE q + 1 = CcSeqMod
    <2>1. CcSeqMod % CcSeqMod = 0
        BY <1>1
    <2> QED
        BY <1>1, <1>3, <2>1
<1> QED
    BY <1>2, <1>3

LEMMA CcKept ==
    ASSUME NEW s, CcGood(s), NEW t \in CcRecord, CcLine(t), CcRest(s, t), CcParams(s, t)
    PROVE  CcGood(t)
<1>1. CcEnds(t)
    BY DEF CcGood, CcEnds, CcRest, CcParams
<1>2. CcTell(t)
    BY DEF CcGood, CcTell, CcRest
<1>3. CcPars(t)
    BY DEF CcGood, CcPars, CcRest, CcParams, CcNew, CcDef, CcObj
<1> QED
    BY <1>1, <1>2, <1>3 DEF CcGood

CcResults == [s : CcRecord, rc : {"ok", "nocard", "error", "changed", "same"}, done : BOOLEAN]

(* An outcome of a command *)
CcOut(s, r) ==
    /\ r \in CcResults /\ CcLine(r.s) /\ CcRest(s, r.s) /\ CcParams(s, r.s)
    /\ r.rc \in {"ok", "nocard", "error"} /\ (r.rc = "ok" => r.done)

LEMMA CcOutcome ==
    ASSUME NEW s \in CcRecord, CcLine(s), NEW f \in Nat, NEW o \in Seq([slot : Nat, seq : Nat]), NEW q \in Nat,
           NEW rc \in {"ok", "nocard", "error"}, NEW done \in BOOLEAN, rc = "ok" => done,
           q < CcSeqMod, f <= CcFails, CcOwes(o, f, q)
    PROVE  CcOut(s, CcRes([s EXCEPT !.fails = f, !.owed = o, !.seq = q, !.stale = FALSE], rc, done))
<1> DEFINE t == [s EXCEPT !.fails = f, !.owed = o, !.seq = q, !.stale = FALSE]
<1>1. t \in CcRecord /\ t.fails = f /\ t.owed = o /\ t.seq = q /\ t.stale = FALSE /\ t.twice = s.twice
    BY DEF CcRecord
<1>2. CcRest(s, t) /\ CcParams(s, t)
    BY DEF CcRecord, CcRest, CcParams
<1> HIDE DEF t
<1>3. CcLine(t)
    BY <1>1 DEF CcLine
<1> QED
    BY <1>1, <1>2, <1>3 DEF CcOut, CcRes, CcResults, t

(* A number grows older by one command with every failure. *)
LEMMA CcOlder ==
    ASSUME NEW f \in Nat, NEW x \in Nat, NEW q \in Nat, x < CcSeqMod, f < CcSeqMod,
           q = x + 1 \/ (q = 0 /\ x + 1 = CcSeqMod)
    PROVE  /\ CcAgo(x, f + 1, q)
           /\ \A a : CcAgo(a, f, x) => CcAgo(a, f + 1, q)
<1>0. CcSeqMod \in Nat
    BY CcAssumption
<1>1. CcAgo(x, f + 1, q)
    <2>1. 1 \in 1 .. (f + 1) /\ (x + 1 = q \/ x + 1 = q + CcSeqMod)
        BY <1>0
    <2> QED
        BY <2>1 DEF CcAgo
<1>2. ASSUME NEW a, CcAgo(a, f, x)
      PROVE  CcAgo(a, f + 1, q)
    <2>1. PICK d \in 1 .. f : a + d = x \/ a + d = x + CcSeqMod
        BY <1>2 DEF CcAgo
    <2>2. a \in Nat /\ a < CcSeqMod
        BY <1>2 DEF CcAgo
    <2> DEFINE e == d + 1
    <2>3. e \in 1 .. (f + 1)
        OBVIOUS
    <2>4. a + e = q \/ a + e = q + CcSeqMod
        BY <1>0, <2>1, <2>2
    <2> HIDE DEF e
    <2> QED
        BY <2>2, <2>3, <2>4 DEF CcAgo
<1> QED
    BY <1>1, <1>2

(* A suffix of what is owed, and the answer to the command given up on *)
CcStill(s, k, own) == SubSeq(s.owed, k, Len(s.owed)) \o <<own>>

LEMMA CcStillOwed ==
    ASSUME NEW s \in CcRecord, NEW own \in [slot : Nat, seq : Nat], NEW k \in 1 .. Len(s.owed) + 1
    PROVE  /\ CcStill(s, k, own) \in Seq([slot : Nat, seq : Nat])
           /\ \A i \in DOMAIN CcStill(s, k, own) :
                 CcStill(s, k, own)[i] = own \/ \E j \in DOMAIN s.owed : CcStill(s, k, own)[i] = s.owed[j]
<1> DEFINE R == [slot : Nat, seq : Nat]
           n == Len(s.owed)
           t == SubSeq(s.owed, k, n)
           w == <<own>>
<1>1. s.owed \in Seq(R) /\ own \in R
    BY DEF CcRecord
<1> HIDE DEF R
<1>2. n \in Nat /\ DOMAIN s.owed = 1 .. n /\ \A i \in 1 .. n : s.owed[i] \in R
    BY <1>1
<1>3. k \in Nat /\ k >= 1 /\ k \in Int /\ n \in Int /\ \A i \in k .. n : s.owed[i] \in R
    BY <1>2
<1>4. /\ t \in Seq(R)
      /\ Len(t) = IF k <= n THEN n - k + 1 ELSE 0
      /\ \A i \in 1 .. n - k + 1 : t[i] = s.owed[k + i - 1]
    BY <1>3, SubSeqProperties
<1>5. w \in Seq(R) /\ Len(w) = 1 /\ w[1] = own
    BY <1>1
<1> HIDE DEF n, t, w
<1>6. /\ t \o w \in Seq(R) /\ Len(t \o w) = Len(t) + Len(w)
      /\ \A i \in 1 .. Len(t) + Len(w) : (t \o w)[i] = IF i <= Len(t) THEN t[i] ELSE w[i - Len(t)]
    BY <1>4, <1>5, ConcatProperties
<1>7. ASSUME NEW i \in DOMAIN (t \o w)
      PROVE  (t \o w)[i] = own \/ \E j \in DOMAIN s.owed : (t \o w)[i] = s.owed[j]
    <2>1. Len(t) \in Nat /\ DOMAIN (t \o w) = 1 .. (Len(t) + 1)
        BY <1>4, <1>5, <1>6
    <2>2. i \in Nat /\ i >= 1 /\ i <= Len(t) + 1
        BY <2>1
    <2>3. CASE i <= Len(t)
        <3>1. k <= n /\ i \in 1 .. n - k + 1
            BY <1>2, <1>3, <1>4, <2>1, <2>2, <2>3
        <3>2. (t \o w)[i] = s.owed[k + i - 1]
            BY <1>4, <1>5, <1>6, <2>1, <2>2, <2>3, <3>1
        <3>3. k + i - 1 \in 1 .. n
            BY <1>2, <1>3, <3>1
        <3> QED
            BY <1>2, <3>2, <3>3
    <2>4. CASE i = Len(t) + 1
        <3>1. (t \o w)[i] = w[i - Len(t)] /\ i - Len(t) = 1
            BY <1>5, <1>6, <2>1, <2>2, <2>4
        <3> QED
            BY <1>5, <3>1
    <2> QED
        BY <2>1, <2>2, <2>3, <2>4
<1> QED
    BY <1>6, <1>7 DEF CcStill, R, n, t, w

LEMMA CcCommands ==
    ASSUME NEW s \in CcRecord, CcLine(s), NEW slot \in Nat, NEW r \in CcCommand(s, slot)
    PROVE  CcOut(s, r)
<1> DEFINE q == (s.seq + 1) % CcSeqMod
           f == s.fails + 1
           Gone(g, o) == [s EXCEPT !.fails = g, !.owed = o, !.seq = q, !.stale = FALSE]
           own == [slot |-> slot, seq |-> s.seq]
           hit == {i \in DOMAIN s.owed : CcMatch(s, slot, s.owed[i])}
<1>1. /\ s.seq \in Nat /\ s.fails \in Nat /\ s.seq < CcSeqMod /\ s.fails <= CcFails
      /\ s.owed \in Seq([slot : Nat, seq : Nat]) /\ own \in [slot : Nat, seq : Nat]
      /\ CcSeqMod \in Nat /\ CcFails \in Nat /\ CcFails < CcSeqMod
    BY CcAssumption DEF CcRecord, CcLine
<1>2. q \in Nat /\ q < CcSeqMod /\ (q = s.seq + 1 \/ (q = 0 /\ s.seq + 1 = CcSeqMod))
    <2>1. CASE s.seq + 1 < CcSeqMod
        BY <1>1, <2>1, CcNextNumber
    <2>2. CASE s.seq + 1 = CcSeqMod
        BY <1>1, <2>2, CcNextNumber
    <2>3. s.seq \in Nat /\ CcSeqMod \in Nat /\ s.seq < CcSeqMod
        BY <1>1
    <2> HIDE DEF q, f, own, hit
    <2> QED
        BY ONLY <2>1, <2>2, <2>3, SMTT(60)
<1>3. hit = {}
    <2>1. SUFFICES ASSUME NEW i \in DOMAIN s.owed, CcMatch(s, slot, s.owed[i])
                   PROVE  FALSE
        OBVIOUS
    <2>2. CcAgo(s.owed[i].seq, s.fails, s.seq) /\ s.owed[i].seq = s.seq
        BY <2>1 DEF CcLine, CcOwes, CcMatch
    <2>3. PICK d \in 1 .. s.fails : s.seq + d = s.seq \/ s.seq + d = s.seq + CcSeqMod
        BY <2>2 DEF CcAgo
    <2> HIDE DEF q
    <2> QED
        BY <1>1, <2>3
<1>4. \/ r \in {CcRes(Gone(0, <<>>), "ok", TRUE), CcRes(Gone(0, <<>>), "nocard", FALSE),
                CcRes(Gone(0, <<>>), "error", FALSE)}
      \/ /\ s.fails < CcFails
         /\ \/ r = CcRes(Gone(f, s.owed), "error", FALSE)
            \/ \E k \in 1 .. Len(s.owed) + 1 : r = CcRes(Gone(f, CcStill(s, k, own)), "error", TRUE)
    <2> DEFINE next == [s EXCEPT !.seq = q, !.stale = FALSE]
               sent == [next EXCEPT !.fails = 0, !.owed = <<>>]
               lost == [next EXCEPT !.fails = @ + 1]
               late == {CcStill(s, k, own) : k \in 1 .. Len(s.owed) + 1}
    <2>1. sent = Gone(0, <<>>) /\ lost = Gone(f, s.owed) /\ \A o : [lost EXCEPT !.owed = o] = Gone(f, o)
        <3> HIDE DEF q
        <3> QED
            BY DEF CcRecord
    <2>2. r \in {x \in {CcRes(lost, "error", FALSE)} \cup {CcRes([lost EXCEPT !.owed = o], "error", TRUE) : o \in late}
                   : s.fails < CcFails}
              \cup {CcRes(sent, "ok", TRUE), CcRes(sent, "nocard", FALSE), CcRes(sent, "error", FALSE)}
        <3> HIDE DEF q
        <3> QED
            BY <1>3, Zenon DEF CcCommand, CcStill, q
    <2> HIDE DEF sent, lost, Gone
    <2>3. CASE r \in {CcRes(sent, "ok", TRUE), CcRes(sent, "nocard", FALSE), CcRes(sent, "error", FALSE)}
        BY <2>1, <2>3
    <2>4. CASE s.fails < CcFails /\ r \in {CcRes(lost, "error", FALSE)} \cup {CcRes([lost EXCEPT !.owed = o], "error", TRUE) : o \in late}
        <3>1. CASE r = CcRes(lost, "error", FALSE)
            BY <2>1, <2>4, <3>1
        <3>2. CASE r # CcRes(lost, "error", FALSE)
            <4>1. PICK o \in late : r = CcRes([lost EXCEPT !.owed = o], "error", TRUE)
                BY <2>4, <3>2
            <4>2. PICK k \in 1 .. Len(s.owed) + 1 : o = CcStill(s, k, own)
                OBVIOUS
            <4> QED
                BY <2>1, <2>4, <4>1, <4>2
        <3> QED
            BY <3>1, <3>2
    <2> HIDE DEF late
    <2> QED
        BY <2>2, <2>3, <2>4
<1> HIDE DEF q, hit
<1>5. CASE r \in {CcRes(Gone(0, <<>>), "ok", TRUE), CcRes(Gone(0, <<>>), "nocard", FALSE),
                  CcRes(Gone(0, <<>>), "error", FALSE)}
    <2>1. <<>> \in Seq([slot : Nat, seq : Nat]) /\ 0 \in Nat /\ 0 <= CcFails /\ CcOwes(<<>>, 0, q)
        BY <1>1 DEF CcOwes
    <2>2. CcOut(s, CcRes(Gone(0, <<>>), "ok", TRUE))
        BY <1>2, <2>1, CcOutcome
    <2>3. CcOut(s, CcRes(Gone(0, <<>>), "nocard", FALSE))
        BY <1>2, <2>1, CcOutcome
    <2>4. CcOut(s, CcRes(Gone(0, <<>>), "error", FALSE))
        BY <1>2, <2>1, CcOutcome
    <2> QED
        BY <1>5, <2>2, <2>3, <2>4
<1>6. ASSUME s.fails < CcFails
      PROVE  /\ f \in Nat /\ f <= CcFails /\ CcAgo(own.seq, f, q)
             /\ \A i \in DOMAIN s.owed : CcAgo(s.owed[i].seq, f, q)
    <2>1. own.seq = s.seq /\ f \in Nat /\ f <= CcFails
        BY <1>1, <1>6
    <2>2. CcAgo(s.seq, f, q) /\ \A a : CcAgo(a, s.fails, s.seq) => CcAgo(a, f, q)
        <3> DEFINE g == s.fails
                   z == s.seq
        <3>1. /\ g \in Nat /\ z \in Nat /\ q \in Nat /\ z < CcSeqMod /\ g < CcSeqMod
              /\ q = z + 1 \/ (q = 0 /\ z + 1 = CcSeqMod)
            BY <1>1, <1>2
        <3> HIDE DEF g, z
        <3>2. CcAgo(z, g + 1, q) /\ \A a : CcAgo(a, g, z) => CcAgo(a, g + 1, q)
            BY ONLY <3>1, CcOlder
        <3> QED
            BY <3>2 DEF g, z
    <2> HIDE DEF f, own
    <2> QED
        BY <2>1, <2>2 DEF CcLine, CcOwes
<1> HIDE DEF f, own
<1>7. CASE s.fails < CcFails /\ r = CcRes(Gone(f, s.owed), "error", FALSE)
    <2>1. CcOwes(s.owed, f, q)
        BY <1>6, <1>7 DEF CcOwes
    <2> QED
        BY <1>1, <1>2, <1>6, <1>7, <2>1, CcOutcome
<1>8. ASSUME s.fails < CcFails, NEW k \in 1 .. Len(s.owed) + 1,
             r = CcRes(Gone(f, CcStill(s, k, own)), "error", TRUE)
      PROVE  CcOut(s, r)
    <2> DEFINE o == CcStill(s, k, own)
    <2>1. /\ o \in Seq([slot : Nat, seq : Nat])
          /\ \A i \in DOMAIN o : o[i] = own \/ \E j \in DOMAIN s.owed : o[i] = s.owed[j]
        BY <1>1, CcStillOwed
    <2> HIDE DEF o
    <2>2. CcOwes(o, f, q)
        BY <1>6, <1>8, <2>1 DEF CcOwes
    <2>3. CcOut(s, CcRes(Gone(f, o), "error", TRUE))
        BY <1>2, <1>6, <1>8, <2>1, <2>2, CcOutcome
    <2> QED
        BY <1>8, <2>3 DEF o
<1> QED
    BY <1>4, <1>5, <1>7, <1>8

LEMMA CcDeviceFacts ==
    ASSUME NEW d \in CcDevices
    PROVE  /\ d.slots \in {1, 2} /\ d.esc \in BOOLEAN /\ (d.esc => d.slots = 1)
           /\ DOMAIN d.intfs \subseteq {1, 2}
<1>1. \A i, f, n, e : /\ CcDevice(i, f, n, e).slots = n /\ CcDevice(i, f, n, e).esc = e
                      /\ CcDevice(i, f, n, e).intfs = i
    BY DEF CcDevice
<1>2. \A a, b : DOMAIN <<a, b>> = {1, 2} /\ DOMAIN <<a>> = {1}
    OBVIOUS
<1>3. \E i, f, n, e : /\ d = CcDevice(i, f, n, e) /\ n \in {1, 2} /\ e \in BOOLEAN /\ (e => n = 1)
                      /\ DOMAIN i \subseteq {1, 2}
    <2>1. \E f, n, e : \E a, b : /\ d = CcDevice(<<a, b>>, f, n, e) \/ d = CcDevice(<<a>>, f, n, e)
                                 /\ n \in {1, 2} /\ e \in BOOLEAN /\ (e => n = 1)
        BY DEF CcDevices
    <2> QED
        BY <1>2, <2>1
<1> QED
    BY <1>1, <1>3

LEMMA CcSlotFacts ==
    ASSUME cc.dev \in CcDevices, NEW slot \in 0 .. 1
    PROVE  /\ ~IsEscape(0) /\ NSlots \in Nat /\ NSlots - 1 \in Nat
           /\ slot < NSlots /\ cc.dev.slots = 1 => slot = 0 \/ IsEscape(slot)
<1> DEFINE n == cc.dev.slots
           e == cc.dev.esc
<1>1. n \in {1, 2} /\ e \in BOOLEAN /\ (e => n = 1)
    BY CcDeviceFacts
<1>2. NSlots = IF e THEN n + 1 ELSE n
    BY <1>1 DEF NSlots
<1>3. (IsEscape(0) <=> (e /\ 0 = NSlots - 1)) /\ (IsEscape(slot) <=> (e /\ slot = NSlots - 1))
    BY DEF IsEscape
<1> HIDE DEF n, e
<1>4. (e => NSlots = n + 1) /\ (~e => NSlots = n)
    BY <1>2
<1>5. n = 1 /\ slot < NSlots => slot = 0 \/ IsEscape(slot)
    BY <1>1, <1>3, <1>4
<1>6. NSlots \in Nat /\ NSlots - 1 \in Nat /\ (e => NSlots - 1 = n)
    BY <1>1, <1>4
<1>7. ~IsEscape(0)
    BY <1>1, <1>3, <1>6
<1> QED
    BY <1>5, <1>6, <1>7 DEF n

(* As CcTell within a status call: whether it tells the change, or reads it away. *)
CcTellBut(s, told, away) ==
    s.intr =>
        /\ s.notes # <<>> => s.notes[Len(s.notes)][0].stat = InOut(s.card[0])
        /\ s.swapped => s.eaten \/ told \/ away \/ \E i \in DOMAIN s.notes : s.notes[i][0].ch
        /\ s.icc_present[0] # "unknown" /\ s.icc_present[0] # InOut(s.card[0]) => s.swapped /\ ~told
        /\ s.dev.slots = 1 /\ s.icc_present[0] # "unknown" /\ s.notes = <<>>
              => s.icc_present[0] = InOut(s.card[0])

(* What a status call leaves alone *)
CcAsk(s, t) ==
    /\ t \in CcRecord /\ CcLine(t) /\ CcEnds(t) /\ CcPars(t) /\ CcParams(s, t)
    /\ t.dev = s.dev /\ t.st = s.st /\ t.intf = s.intf /\ t.intr = s.intr /\ t.rtype = s.rtype
    /\ t.swapped = s.swapped /\ t.eaten = s.eaten /\ t.card = s.card /\ t.cards = s.cards
    /\ t.esc = s.esc /\ t.sbuf = s.sbuf

CcAsked(s, slot, r) ==
    /\ r \in CcResults /\ CcAsk(s, r.s)
    /\ CcTellBut(r.s, slot = 0 /\ r.rc = "changed", slot # 0 /\ r.s.notes # s.notes)

(* The cached state of a slot is set, and the messages read away or not. *)
CcCached(s, slot, stat, n) == [s EXCEPT !.notes = n, !.icc_present = [s.icc_present EXCEPT ![slot] = stat]]

LEMMA CcCaches ==
    ASSUME NEW s \in CcRecord, CcLine(s), CcEnds(s), CcPars(s), s.st = "open", NEW slot \in 0 .. 1,
           NEW stat \in {"in", "out"}, NEW n \in {s.notes, <<>>}
    PROVE  /\ CcAsk(s, CcCached(s, slot, stat, n))
           /\ CcCached(s, slot, stat, n).notes = n
           /\ CcCached(s, slot, stat, n).icc_present[slot] = stat
           /\ slot # 0 => CcCached(s, slot, stat, n).icc_present[0] = s.icc_present[0]
<1> DEFINE ip == [s.icc_present EXCEPT ![slot] = stat]
           t == [s EXCEPT !.notes = n, !.icc_present = ip]
<1>1. /\ ip \in [0 .. 1 -> {"unknown", "in", "out"}] /\ ip[slot] = stat
      /\ slot # 0 => ip[0] = s.icc_present[0]
    BY DEF CcRecord
<1>2. n \in Seq([0 .. 1 -> [stat : {"in", "out"}, ch : BOOLEAN]])
    <2>1. s.notes \in Seq([0 .. 1 -> [stat : {"in", "out"}, ch : BOOLEAN]])
        BY DEF CcRecord
    <2>2. <<>> \in Seq([0 .. 1 -> [stat : {"in", "out"}, ch : BOOLEAN]])
        OBVIOUS
    <2> QED
        BY <2>1, <2>2
<1> HIDE DEF ip
<1>3. /\ t \in CcRecord /\ t.notes = n /\ t.icc_present = ip /\ CcParams(s, t)
      /\ t.dev = s.dev /\ t.st = s.st /\ t.intf = s.intf /\ t.intr = s.intr /\ t.rtype = s.rtype
      /\ t.swapped = s.swapped /\ t.eaten = s.eaten /\ t.card = s.card /\ t.cards = s.cards
      /\ t.esc = s.esc /\ t.sbuf = s.sbuf
      /\ t.seq = s.seq /\ t.owed = s.owed /\ t.fails = s.fails /\ t.stale = s.stale /\ t.twice = s.twice
    BY <1>1, <1>2 DEF CcRecord, CcParams
<1> HIDE DEF t
<1>4. CcLine(t)
    BY <1>3 DEF CcLine
<1>5. CcEnds(t)
    BY <1>3 DEF CcEnds
<1>6. CcPars(t)
    BY <1>3 DEF CcPars, CcParams, CcNew, CcDef, CcObj
<1>7. CcAsk(s, t) /\ t.notes = n /\ t.icc_present[slot] = stat /\ (slot # 0 => t.icc_present[0] = s.icc_present[0])
    BY <1>1, <1>3, <1>4, <1>5, <1>6 DEF CcAsk
<1> QED
    BY <1>7 DEF CcCached, t, ip

LEMMA CcToldIs ==
    ASSUME NEW s \in CcRecord, NEW slot \in 0 .. 1, NEW stat, NEW ch \in BOOLEAN
    PROVE  /\ CcTold(s, slot, stat, ch).s = CcCached(s, slot, stat, s.notes)
           /\ CcTold(s, slot, stat, ch).rc = IF ch THEN "changed" ELSE "same"
           /\ CcTold(s, slot, stat, ch) = CcRes(CcCached(s, slot, stat, s.notes), IF ch THEN "changed" ELSE "same", TRUE)
<1>1. [s EXCEPT !.icc_present[slot] = stat] = CcCached(s, slot, stat, s.notes)
    BY DEF CcCached, CcRecord
<1> QED
    BY <1>1 DEF CcTold, CcRes

LEMMA CcResIn ==
    ASSUME NEW s \in CcRecord
    PROVE  /\ CcRes(s, "same", TRUE) \in CcResults /\ CcRes(s, "same", TRUE).s = s
           /\ CcRes(s, "error", FALSE) \in CcResults /\ CcRes(s, "error", FALSE).s = s
           /\ CcRes(s, "ok", TRUE) \in CcResults /\ CcRes(s, "ok", TRUE).s = s
<1>1. ASSUME NEW rc \in {"ok", "error", "same"}, NEW done \in BOOLEAN
      PROVE  CcRes(s, rc, done) \in CcResults /\ CcRes(s, rc, done).s = s
    BY DEF CcRes, CcResults
<1> QED
    BY <1>1, Zenon

LEMMA CcStatuses ==
    ASSUME NEW s, CcGood(s), s.dev = cc.dev, s.st = "open", NEW slot \in 0 .. 1, slot < NSlots,
           NEW r \in CcStatus(s, slot)
    PROVE  CcAsked(s, slot, r)
<1>0. s \in CcRecord /\ CcLine(s) /\ CcEnds(s) /\ CcPars(s) /\ CcTell(s) /\ cc.dev \in CcDevices
    BY DEF CcGood, CcRecord
<1>1. CASE r \in {CcRes(s, "same", TRUE), CcRes(s, "error", FALSE)}
    <2>1. r \in CcResults /\ r.s = s
        BY <1>0, <1>1, CcResIn, Zenon
    <2>2. CcAsk(s, s)
        BY <1>0 DEF CcAsk, CcParams
    <2>3. r.rc # "changed"
        BY <1>1 DEF CcRes
    <2> QED
        BY <1>0, <2>1, <2>2, <2>3 DEF CcAsked, CcTell, CcTellBut
<1>2. CASE s.intr /\ ~IsEscape(slot) /\ s.notes # <<>> /\ r = CcPolled(s, slot)
    <2> DEFINE e == s.notes[Len(s.notes)]
               stat == e[slot].stat
               ch == \E i \in DOMAIN s.notes : s.notes[i][slot].ch
               u == [s EXCEPT !.notes = <<>>]
    <2>1. e \in [0 .. 1 -> [stat : {"in", "out"}, ch : BOOLEAN]] /\ 1 \in DOMAIN s.notes
        <3> DEFINE N == [0 .. 1 -> [stat : {"in", "out"}, ch : BOOLEAN]]
        <3>1. s.notes \in Seq(N)
            BY <1>0 DEF CcRecord
        <3> HIDE DEF N
        <3>2. s.notes[Len(s.notes)] \in N /\ 1 \in DOMAIN s.notes
            BY <1>2, <3>1
        <3> QED
            BY <3>2 DEF N
    <2>2. stat \in {"in", "out"} /\ ch \in BOOLEAN
        BY <2>1
    <2>3. /\ s.dev.slots = 1 => slot = 0
          /\ slot = 0 /\ s.swapped => s.eaten \/ ch
        BY <1>0, <1>2, CcSlotFacts DEF CcTell
    <2>4. slot = 0 => stat = InOut(s.card[0])
        BY <1>0, <1>2 DEF CcTell
    <2>5. r = CcTold(u, slot, stat, ch)
        BY <1>2 DEF CcPolled
    <2> HIDE DEF stat, ch
    <2>6. u \in CcRecord /\ u.notes = <<>>
        <3>1. <<>> \in Seq([0 .. 1 -> [stat : {"in", "out"}, ch : BOOLEAN]])
            OBVIOUS
        <3> QED
            BY <1>0, <3>1 DEF CcRecord
    <2>7. CcCached(u, slot, stat, u.notes) = CcCached(s, slot, stat, <<>>)
        BY <1>0, <2>6 DEF CcCached, CcRecord
    <2> HIDE DEF u
    <2> DEFINE t == CcCached(s, slot, stat, <<>>)
    <2>8. /\ CcAsk(s, t) /\ t.notes = <<>> /\ t.icc_present[slot] = stat
          /\ slot # 0 => t.icc_present[0] = s.icc_present[0]
        BY <1>0, <2>2, CcCaches
    <2>9. r = CcRes(t, IF ch THEN "changed" ELSE "same", TRUE)
        BY <2>2, <2>5, <2>6, <2>7, CcToldIs
    <2> HIDE DEF t
    <2>10. r \in CcResults /\ r.s = t /\ (ch => r.rc = "changed")
        BY <2>8, <2>9 DEF CcRes, CcResults, CcAsk
    <2>11. CcTellBut(t, slot = 0 /\ r.rc = "changed", slot # 0 /\ t.notes # s.notes)
        <3>1. t.notes = <<>> /\ t.notes # s.notes /\ t.card = s.card /\ t.dev = s.dev
              /\ t.swapped = s.swapped /\ t.eaten = s.eaten
            BY <1>2, <2>8 DEF CcAsk
        <3>2. CASE slot = 0
            <4>1. t.icc_present[0] = InOut(t.card[0])
                BY <2>4, <2>8, <3>1, <3>2
            <4>2. t.swapped => t.eaten \/ r.rc = "changed"
                BY <2>3, <2>10, <3>1, <3>2
            <4> QED
                BY <3>1, <3>2, <4>1, <4>2 DEF CcTellBut
        <3>3. CASE slot # 0
            <4>1. t.icc_present[0] = s.icc_present[0] /\ s.dev.slots # 1
                BY <2>3, <2>8, <3>3
            <4>2. s.icc_present[0] # "unknown" /\ s.icc_present[0] # InOut(s.card[0]) => s.swapped
                BY <1>0, <1>2 DEF CcTell
            <4> QED
                BY <3>1, <3>3, <4>1, <4>2 DEF CcTellBut
        <3> QED
            BY <3>2, <3>3
    <2> QED
        BY <2>8, <2>10, <2>11, Zenon DEF CcAsked
<1>3. CASE /\ s.intr => ~IsEscape(slot) /\ s.notes = <<>> /\ s.icc_present[slot] = "unknown"
           /\ \E q \in CcCommand(s, 0) :
                 r = IF q.rc = "error" THEN q
                     ELSE CcTold(q.s, slot, InOut(s.card[0]), s.icc_present[slot] # InOut(s.card[0]))
    <2> DEFINE stat == InOut(s.card[0])
               ch == s.icc_present[slot] # stat
    <2>1. PICK q \in CcCommand(s, 0) : r = IF q.rc = "error" THEN q ELSE CcTold(q.s, slot, stat, ch)
        BY <1>3
    <2>2. CcOut(s, q)
        BY <1>0, CcCommands
    <2>3. CcGood(q.s) /\ q.s \in CcRecord
        BY <2>2, CcKept DEF CcOut, CcResults
    <2>4. stat \in {"in", "out"} /\ ch \in BOOLEAN /\ stat # "unknown"
        BY DEF InOut
    <2>5. CASE q.rc = "error"
        <3>1. r = q
            BY <2>1, <2>5
        <3>2. CcAsk(s, r.s)
            BY <2>2, <2>3, <3>1 DEF CcAsk, CcGood, CcOut, CcRest, CcParams
        <3>3. CcTellBut(r.s, slot = 0 /\ r.rc = "changed", slot # 0 /\ r.s.notes # s.notes)
            BY <2>2, <2>3, <2>5, <3>1 DEF CcGood, CcTell, CcTellBut, CcOut
        <3> QED
            BY <2>2, <3>1, <3>2, <3>3 DEF CcAsked, CcOut
    <2>6. CASE q.rc # "error"
        <3> DEFINE t == CcCached(q.s, slot, stat, q.s.notes)
        <3> HIDE DEF stat, ch
        <3>1. r = CcTold(q.s, slot, stat, ch)
            BY <2>1, <2>6
        <3>2. r = CcRes(t, IF ch THEN "changed" ELSE "same", TRUE)
            BY <2>3, <2>4, <3>1, CcToldIs
        <3>3. q.s.st = "open" /\ q.s.notes \in {q.s.notes, <<>>}
            BY <2>2 DEF CcOut, CcRest
        <3>4. /\ CcAsk(q.s, t) /\ t.notes = q.s.notes /\ t.icc_present[slot] = stat
              /\ slot # 0 => t.icc_present[0] = q.s.icc_present[0]
            BY <2>3, <2>4, <3>3, CcCaches DEF CcGood
        <3> HIDE DEF t
        <3>5. CcAsk(s, t) /\ t.notes = s.notes
            BY <2>2, <3>4 DEF CcAsk, CcOut, CcRest, CcParams
        <3>6. r \in CcResults /\ r.s = t /\ (ch => r.rc = "changed")
            BY <2>4, <3>2, <3>5 DEF CcRes, CcResults, CcAsk
        <3>7. CcTellBut(t, slot = 0 /\ r.rc = "changed", slot # 0 /\ t.notes # s.notes)
            <4>1. CASE t.intr
                <5>1. s.intr /\ s.notes = <<>> /\ s.icc_present[slot] = "unknown" /\ ~IsEscape(slot)
                    BY <1>3, <3>5, <4>1 DEF CcAsk
                <5>2. s.dev.slots = 1 => slot = 0
                    BY <1>0, <5>1, CcSlotFacts
                <5>3. ch
                    BY <2>4, <5>1 DEF ch
                <5>4. /\ t.notes = <<>> /\ DOMAIN t.notes = {} /\ t.card = s.card /\ t.dev = s.dev
                      /\ t.swapped = s.swapped /\ t.eaten = s.eaten
                    BY <3>5, <5>1 DEF CcAsk
                <5>5. CASE slot = 0
                    <6>1. t.icc_present[0] = InOut(t.card[0]) /\ r.rc = "changed"
                        BY <3>4, <3>6, <5>3, <5>4, <5>5 DEF stat
                    <6> QED
                        BY <5>4, <5>5, <6>1 DEF CcTellBut
                <5>6. CASE slot # 0
                    <6>1. t.icc_present[0] = s.icc_present[0] /\ s.dev.slots # 1
                        BY <2>2, <3>4, <5>2, <5>6 DEF CcOut, CcRest
                    <6>2. /\ s.swapped => s.eaten
                          /\ s.icc_present[0] # "unknown" /\ s.icc_present[0] # InOut(s.card[0]) => s.swapped
                        BY <1>0, <5>1 DEF CcTell
                    <6> QED
                        BY <5>4, <5>6, <6>1, <6>2 DEF CcTellBut
                <5> QED
                    BY <5>5, <5>6
            <4> QED
                BY <4>1 DEF CcTellBut
        <3> QED
            BY <3>5, <3>6, <3>7, Zenon DEF CcAsked
    <2> QED
        BY <2>5, <2>6
<1>4. \/ r \in {CcRes(s, "same", TRUE), CcRes(s, "error", FALSE)}
      \/ s.intr /\ ~IsEscape(slot) /\ s.notes # <<>> /\ r = CcPolled(s, slot)
      \/ /\ s.intr => ~IsEscape(slot) /\ s.notes = <<>> /\ s.icc_present[slot] = "unknown"
         /\ \E q \in CcCommand(s, 0) :
                 r = IF q.rc = "error" THEN q
                     ELSE CcTold(q.s, slot, InOut(s.card[0]), s.icc_present[slot] # InOut(s.card[0]))
    <2> DEFINE stat == InOut(s.card[0])
               Ask == {IF q.rc = "error" THEN q ELSE CcTold(q.s, slot, stat, s.icc_present[slot] # stat)
                         : q \in {x \in CcCommand(s, 0) : x.rc = "nocard" => stat = "out"}}
    <2>1. CcStatus(s, slot) =
            CASE s.intr /\ IsEscape(slot) -> {CcRes(s, "same", TRUE)}
              [] s.intr /\ ~IsEscape(slot) /\ s.notes # <<>> -> {CcPolled(s, slot), CcRes(s, "error", FALSE)}
              [] s.intr /\ ~IsEscape(slot) /\ s.notes = <<>> /\ s.icc_present[slot] # "unknown"
                    -> {CcRes(s, "same", TRUE)}
              [] OTHER -> Ask
        BY DEF CcStatus
    <2>2. r \in Ask => \E q \in CcCommand(s, 0) :
                 r = IF q.rc = "error" THEN q
                     ELSE CcTold(q.s, slot, stat, s.icc_present[slot] # stat)
        OBVIOUS
    <2> HIDE DEF Ask, stat
    <2>3. CASE s.intr /\ IsEscape(slot)
        BY <2>1, <2>3
    <2>4. CASE s.intr /\ ~IsEscape(slot) /\ s.notes # <<>>
        BY <2>1, <2>4
    <2>5. CASE s.intr /\ ~IsEscape(slot) /\ s.notes = <<>> /\ s.icc_present[slot] # "unknown"
        BY <2>1, <2>5
    <2>6. CASE ~s.intr \/ (~IsEscape(slot) /\ s.notes = <<>> /\ s.icc_present[slot] = "unknown")
        <3>1. r \in Ask
            BY <2>1, <2>6
        <3> QED
            BY <2>2, <2>6, <3>1 DEF stat
    <2> QED
        BY <2>3, <2>4, <2>5, <2>6
<1> QED
    BY <1>1, <1>2, <1>3, <1>4

-----------------------------------------------------------------------------
(* Selection of a protocol *)

CcFlags(s, t) ==
    /\ t.power = s.power /\ t.proto = s.proto /\ t.icc = s.icc /\ t.chosen = s.chosen /\ t.dirty = s.dirty

(* A selection that began in s is at r; rq and cq are the parameters of
   reader and card if all went well. *)
CcAt(s, r, rq, cq) ==
    /\ r \in CcResults /\ CcLine(r.s) /\ CcRest(s, r.s) /\ CcFlags(s, r.s)
    /\ r.rc = "ok" => r.s.rpar = rq /\ r.s.cpar = cq

LEMMA CcAtCommand ==
    ASSUME NEW s, NEW r, NEW rq, NEW cq, CcAt(s, r, rq, cq), r.rc = "ok",
           NEW q \in CcCommand(r.s, 0)
    PROVE  /\ q \in CcResults /\ q.s \in CcRecord /\ CcLine(q.s) /\ CcRest(s, q.s) /\ CcFlags(s, q.s)
           /\ q.s.rpar = rq /\ q.s.cpar = cq /\ (q.rc = "ok" => q.done)
<1>1. r.s \in CcRecord /\ CcLine(r.s)
    BY DEF CcAt, CcResults
<1>2. CcOut(r.s, q)
    BY <1>1, CcCommands
<1>3. q \in CcResults /\ q.s \in CcRecord
    BY <1>2 DEF CcOut, CcResults
<1>4. CcRest(s, q.s)
    BY <1>2 DEF CcOut, CcAt, CcRest
<1> QED
    BY <1>2, <1>3, <1>4 DEF CcOut, CcAt, CcParams, CcFlags

CcEffected(q, x) == [q EXCEPT !.s = IF q.done THEN x ELSE q.s]

LEMMA CcAtEffect ==
    ASSUME NEW s, NEW r, NEW rq, NEW cq, CcAt(s, r, rq, cq), r.rc = "ok",
           NEW q \in CcCommand(r.s, 0), NEW rp2 \in {"T0", "T1"}, NEW cp2 \in {"T0", "T1"},
           NEW x, x = [q.s EXCEPT !.rpar = rp2, !.cpar = cp2]
    PROVE  CcAt(s, CcEffected(q, x), rp2, cp2)
<1>1. /\ q \in CcResults /\ q.s \in CcRecord /\ CcLine(q.s) /\ CcRest(s, q.s) /\ CcFlags(s, q.s)
      /\ q.s.rpar = rq /\ q.s.cpar = cq /\ (q.rc = "ok" => q.done)
    BY CcAtCommand
<1>2. /\ x \in CcRecord /\ x.rpar = rp2 /\ x.cpar = cp2 /\ CcRest(q.s, x) /\ CcFlags(q.s, x)
      /\ x.seq = q.s.seq /\ x.owed = q.s.owed /\ x.fails = q.s.fails /\ x.stale = q.s.stale /\ x.twice = q.s.twice
    BY <1>1 DEF CcRecord, CcRest, CcFlags
<1>3. CcLine(x) /\ CcRest(s, x) /\ CcFlags(s, x)
    BY <1>1, <1>2 DEF CcLine, CcRest, CcFlags
<1> DEFINE y == IF q.done THEN x ELSE q.s
<1>4. y \in CcRecord /\ CcLine(y) /\ CcRest(s, y) /\ CcFlags(s, y) /\ (q.done => y.rpar = rp2 /\ y.cpar = cp2)
    BY <1>1, <1>2, <1>3
<1> HIDE DEF y
<1>5. [q EXCEPT !.s = y] \in CcResults /\ [q EXCEPT !.s = y].s = y /\ [q EXCEPT !.s = y].rc = q.rc
    BY <1>1, <1>4 DEF CcResults
<1>6. CcAt(s, [q EXCEPT !.s = y], rp2, cp2)
    BY <1>1, <1>4, <1>5 DEF CcAt
<1> QED
    BY <1>6 DEF y, CcEffected

LEMMA CcAtSame ==
    ASSUME NEW s, NEW r, NEW rq \in {"T0", "T1"}, NEW cq \in {"T0", "T1"}, CcAt(s, r, rq, cq), r.rc = "ok",
           NEW q \in CcCommand(r.s, 0)
    PROVE  CcAt(s, [q EXCEPT !.s = IF q.done THEN q.s ELSE q.s], rq, cq)
<1>1. /\ q \in CcResults /\ q.s \in CcRecord /\ CcLine(q.s) /\ CcRest(s, q.s) /\ CcFlags(s, q.s)
      /\ q.s.rpar = rq /\ q.s.cpar = cq /\ (q.rc = "ok" => q.done)
    BY CcAtCommand
<1>2. [q EXCEPT !.s = IF q.done THEN q.s ELSE q.s] = q
    BY <1>1 DEF CcResults
<1> QED
    BY <1>1, <1>2 DEF CcAt

LEMMA CcAtFailed ==
    ASSUME NEW s, NEW r, NEW rq, NEW cq, NEW rp2, NEW cp2, CcAt(s, r, rq, cq), r.rc # "ok"
    PROVE  CcAt(s, r, rp2, cp2)
BY DEF CcAt

(* The further commands of ccid_set_protocol(), and what they come from *)
CcMoreSame(rs, need) ==
    IF ~need THEN rs
    ELSE {r \in rs : r.rc # "ok"}
         \cup UNION {{[q EXCEPT !.s = IF q.done THEN q.s ELSE q.s] : q \in CcCommand(r.s, 0)}
                     : r \in {x \in rs : x.rc = "ok"}}
CcPts(x, proto) == [x EXCEPT !.cpar = proto]
CcMorePts(rs, need, c, proto) ==
    IF need /\ proto \notin c.supp THEN {[r EXCEPT !.rc = "error"] : r \in rs}
    ELSE IF ~need THEN rs
    ELSE {r \in rs : r.rc # "ok"}
         \cup UNION {{CcEffected(q, CcPts(q.s, proto)) : q \in CcCommand(r.s, 0)}
                     : r \in {x \in rs : x.rc = "ok"}}
CcSetPar(x, c, proto) ==
    [x EXCEPT !.rpar = proto, !.cpar = IF "pps" \in cc.dev.features /\ proto \in c.supp THEN proto ELSE @]
CcMorePar(rs, need, c, proto) ==
    IF ~need THEN rs
    ELSE {r \in rs : r.rc # "ok"}
         \cup UNION {{CcEffected(q, CcSetPar(q.s, c, proto)) : q \in CcCommand(r.s, 0)}
                     : r \in {x \in rs : x.rc = "ok"}}

CcPtsTo(need, proto, cq) == IF need THEN proto ELSE cq
CcParTo(need, proto, c, cq) ==
    IF need /\ "pps" \in cc.dev.features /\ proto \in c.supp THEN proto ELSE cq

LEMMA CcStageSame ==
    ASSUME NEW s, NEW rs, NEW rq \in {"T0", "T1"}, NEW cq \in {"T0", "T1"},
           \A r \in rs : CcAt(s, r, rq, cq), NEW need \in BOOLEAN, NEW z \in CcMoreSame(rs, need)
    PROVE  CcAt(s, z, rq, cq)
<1>1. CASE z \in rs
    BY <1>1
<1>2. CASE z \notin rs
    <2>1. PICK r \in rs : r.rc = "ok" /\ \E q \in CcCommand(r.s, 0) :
                            z = [q EXCEPT !.s = IF q.done THEN q.s ELSE q.s]
        BY <1>2 DEF CcMoreSame
    <2> QED
        BY <2>1, CcAtSame
<1> QED
    BY <1>1, <1>2

LEMMA CcStagePts ==
    ASSUME NEW s, NEW rs, NEW rq \in {"T0", "T1"}, NEW cq \in {"T0", "T1"}, NEW c, NEW proto \in {"T0", "T1"},
           \A r \in rs : CcAt(s, r, rq, cq), NEW need \in BOOLEAN, NEW z \in CcMorePts(rs, need, c, proto)
    PROVE  CcAt(s, z, rq, CcPtsTo(need, proto, cq))
<1>1. CASE ~need
    BY <1>1 DEF CcMorePts, CcPtsTo
<1>2. CASE need /\ proto \notin c.supp
    <2>1. PICK r \in rs : z = [r EXCEPT !.rc = "error"]
        BY <1>2 DEF CcMorePts
    <2>2. z \in CcResults /\ z.s = r.s /\ z.rc = "error"
        BY <2>1 DEF CcAt, CcResults
    <2> QED
        BY <2>1, <2>2 DEF CcAt
<1>3. CASE need /\ proto \in c.supp
    <2> SUFFICES CcAt(s, z, rq, proto)
        BY <1>3 DEF CcPtsTo
    <2>1. CASE z \in rs /\ z.rc # "ok"
        BY <2>1, CcAtFailed
    <2>2. CASE ~(z \in rs /\ z.rc # "ok")
        <3>1. PICK r \in rs : r.rc = "ok" /\ \E q \in CcCommand(r.s, 0) :
                                z = CcEffected(q, CcPts(q.s, proto))
            BY <1>3, <2>2 DEF CcMorePts
        <3>2. PICK q \in CcCommand(r.s, 0) : z = CcEffected(q, CcPts(q.s, proto))
            BY <3>1
        <3>3. q.s \in CcRecord /\ q.s.rpar = rq /\ q.s.cpar = cq
            BY <3>1, CcAtCommand
        <3>5. CcPts(q.s, proto) = [q.s EXCEPT !.rpar = rq, !.cpar = proto]
            BY <3>3, ZenonT(60) DEF CcRecord, CcPts
        <3> DEFINE x == CcPts(q.s, proto)
        <3>6. x = [q.s EXCEPT !.rpar = rq, !.cpar = proto] /\ CcAt(s, r, rq, cq) /\ r.rc = "ok"
            BY <3>1, <3>5
        <3> HIDE DEF x
        <3>7. CcAt(s, CcEffected(q, x), rq, proto)
            BY <3>6, CcAtEffect, ZenonT(60)
        <3> QED
            BY <3>2, <3>7 DEF x
    <2> QED
        BY <2>1, <2>2
<1> QED
    BY <1>1, <1>2, <1>3

LEMMA CcStagePar ==
    ASSUME NEW s, NEW rs, NEW rq \in {"T0", "T1"}, NEW cq \in {"T0", "T1"}, NEW c, NEW proto \in {"T0", "T1"},
           \A r \in rs : CcAt(s, r, rq, cq), NEW need \in BOOLEAN, NEW z \in CcMorePar(rs, need, c, proto)
    PROVE  CcAt(s, z, IF need THEN proto ELSE rq, CcParTo(need, proto, c, cq))
<1> DEFINE cp2 == IF "pps" \in cc.dev.features /\ proto \in c.supp THEN proto ELSE cq
<1>0. cp2 \in {"T0", "T1"}
    OBVIOUS
<1>1. CASE ~need
    BY <1>1 DEF CcMorePar, CcParTo
<1>2. CASE need
    <2> SUFFICES CcAt(s, z, proto, cp2)
        BY <1>2 DEF CcParTo
    <2>1. CASE z \in rs /\ z.rc # "ok"
        BY <2>1, CcAtFailed
    <2>2. CASE ~(z \in rs /\ z.rc # "ok")
        <3>1. PICK r \in rs : r.rc = "ok" /\ \E q \in CcCommand(r.s, 0) :
                                z = CcEffected(q, CcSetPar(q.s, c, proto))
            BY <1>2, <2>2 DEF CcMorePar
        <3>2. PICK q \in CcCommand(r.s, 0) : z = CcEffected(q, CcSetPar(q.s, c, proto))
            BY <3>1
        <3>3. q.s \in CcRecord /\ q.s.rpar = rq /\ q.s.cpar = cq
            BY <3>1, CcAtCommand
        <3>4. CcSetPar(q.s, c, proto) = [q.s EXCEPT !.rpar = proto, !.cpar = cp2]
            BY <3>3 DEF CcSetPar
        <3> HIDE DEF cp2
        <3> DEFINE x == CcSetPar(q.s, c, proto)
        <3>6. x = [q.s EXCEPT !.rpar = proto, !.cpar = cp2] /\ CcAt(s, r, rq, cq) /\ r.rc = "ok"
            BY <3>1, <3>4
        <3> HIDE DEF x
        <3>7. CcAt(s, CcEffected(q, x), proto, cp2)
            <4>1. /\ CcAt(s, r, rq, cq) /\ r.rc = "ok" /\ q \in CcCommand(r.s, 0) /\ proto \in {"T0", "T1"}
                  /\ cp2 \in {"T0", "T1"} /\ x = [q.s EXCEPT !.rpar = proto, !.cpar = cp2]
                BY <1>0, <3>6
            <4> QED
                BY ONLY <4>1, CcAtEffect
        <3> QED
            BY <3>2, <3>7 DEF x
    <2> QED
        BY <2>1, <2>2
<1> QED
    BY <1>1, <1>2

LEMMA CcCardFacts ==
    ASSUME NEW k \in DOMAIN CcCard
    PROVE  /\ k # "none" /\ CcCard[k].def \in {"T0", "T1"}
           /\ "T0" \in CcCard[k].supp => CcCard[k].def = "T0"
<1>1. k \in {"t0", "t1", "both"}
    BY DEF CcCard
<1>2. /\ CcCard["t0"] = [supp |-> {"T0"}, def |-> "T0", ta1 |-> TRUE, tc1 |-> FALSE]
      /\ CcCard["t1"] = [supp |-> {"T1"}, def |-> "T1", ta1 |-> FALSE, tc1 |-> TRUE]
      /\ CcCard["both"] = [supp |-> {"T0", "T1"}, def |-> "T0", ta1 |-> FALSE, tc1 |-> FALSE]
    BY DEF CcCard
<1>3. CASE k = "t0"
    BY <1>2, <1>3
<1>4. CASE k = "t1"
    BY <1>2, <1>4
<1>5. CASE k = "both"
    BY <1>2, <1>5
<1> QED
    BY <1>1, <1>3, <1>4, <1>5

CcBegun(s) == [s EXCEPT !.dirty = s.dirty \/ s.chosen, !.chosen = TRUE]

LEMMA CcBegins ==
    ASSUME NEW s, CcGood(s)
    PROVE  LET t == CcBegun(s)
           IN  /\ t \in CcRecord /\ CcLine(t) /\ CcRest(s, t) /\ t.chosen = TRUE
               /\ (t.dirty <=> (s.dirty \/ s.chosen))
               /\ t.power = s.power /\ t.proto = s.proto /\ t.icc = s.icc /\ t.rpar = s.rpar /\ t.cpar = s.cpar
<1> DEFINE d == s.dirty \/ s.chosen
           t == [s EXCEPT !.dirty = d, !.chosen = TRUE]
<1>1. d \in BOOLEAN /\ s \in CcRecord /\ CcLine(s)
    BY DEF CcGood, CcRecord
<1>2. d <=> (s.dirty \/ s.chosen)
    OBVIOUS
<1> HIDE DEF d
<1>3. /\ t \in CcRecord /\ CcRest(s, t) /\ t.chosen = TRUE /\ t.dirty = d
      /\ t.power = s.power /\ t.proto = s.proto /\ t.icc = s.icc /\ t.rpar = s.rpar /\ t.cpar = s.cpar
      /\ t.seq = s.seq /\ t.owed = s.owed /\ t.fails = s.fails /\ t.stale = s.stale /\ t.twice = s.twice
    BY <1>1 DEF CcRecord, CcRest
<1>4. CcBegun(s) = t
    BY DEF CcBegun, d
<1> HIDE DEF t
<1>5. CcLine(t)
    BY <1>1, <1>3 DEF CcLine
<1> QED
    BY <1>2, <1>3, <1>4, <1>5

(* The last step of a selection *)
CcEnd(r, proto) == IF r.rc = "ok" THEN [r.s EXCEPT !.proto = CcObject(proto), !.icc = proto]
                                  ELSE [r.s EXCEPT !.dirty = TRUE]

LEMMA CcEnding ==
    ASSUME NEW s, CcGood(s), s.rtype = cc.rtype, s.power, NEW proto \in {"T0", "T1"}, NEW rq, NEW cq, NEW r,
           CcAt(CcBegun(s), r, rq, cq),
           /\ ~s.dirty /\ ~s.chosen /\ s.rtype # "APDU" /\ "auto" \notin s.dev.features
           /\ proto \in CcCard[s.card[0]].supp
           => rq = proto /\ cq = proto
    PROVE  CcGood(CcEnd(r, proto))
<1> DEFINE b == CcBegun(s)
           ob == CcObject(proto)
<1>1. /\ b \in CcRecord /\ CcLine(b) /\ CcRest(s, b) /\ b.chosen = TRUE
      /\ (b.dirty <=> (s.dirty \/ s.chosen))
      /\ b.power = s.power /\ b.proto = s.proto /\ b.icc = s.icc
    BY CcBegins
<1>2. CcAt(b, r, rq, cq)
    OBVIOUS
<1> HIDE DEF b
<1>3. /\ r.s \in CcRecord /\ CcLine(r.s) /\ CcRest(s, r.s) /\ r.s.chosen = TRUE
      /\ (r.s.dirty <=> (s.dirty \/ s.chosen)) /\ r.s.power = s.power /\ r.s.proto = s.proto /\ r.s.icc = s.icc
      /\ r.rc = "ok" => r.s.rpar = rq /\ r.s.cpar = cq
    BY <1>1, <1>2 DEF CcAt, CcResults, CcRest, CcFlags
<1>4. ob \in {"trans", "T0", "T1"} /\ ob = CcObj(s, proto)
    BY DEF CcObject, CcObj
<1> HIDE DEF ob
<1>5. s.card[0] # "none"
    BY DEF CcGood, CcPars
<1> DEFINE t == CcEnd(r, proto)
           u == r.s
<1>6. CASE r.rc = "ok"
    <2>1. t = [r.s EXCEPT !.proto = ob, !.icc = proto]
        BY <1>6 DEF CcEnd, ob
    <2>2. /\ t \in CcRecord /\ CcRest(r.s, t) /\ t.proto = ob /\ t.icc = proto
          /\ t.power = r.s.power /\ t.rpar = r.s.rpar /\ t.cpar = r.s.cpar /\ t.chosen = r.s.chosen
          /\ t.dirty = r.s.dirty
          /\ t.seq = r.s.seq /\ t.owed = r.s.owed /\ t.fails = r.s.fails /\ t.stale = r.s.stale /\ t.twice = r.s.twice
        <3>1. t = [u EXCEPT !.proto = ob, !.icc = proto] /\ u \in CcRecord
            BY <1>3, <2>1
        <3>0. ob \in {"none", "trans", "T0", "T1"} /\ proto \in {"none", "T0", "T1"}
            BY <1>4
        <3> HIDE DEF t, u
        <3>2. /\ t \in CcRecord /\ CcRest(u, t) /\ t.proto = ob /\ t.icc = proto
              /\ t.power = u.power /\ t.rpar = u.rpar /\ t.cpar = u.cpar /\ t.chosen = u.chosen
              /\ t.dirty = u.dirty
              /\ t.seq = u.seq /\ t.owed = u.owed /\ t.fails = u.fails /\ t.stale = u.stale /\ t.twice = u.twice
            BY <3>0, <3>1, ZenonT(60) DEF CcRecord, CcRest
        <3> QED
            BY <3>2 DEF u
    <2> HIDE DEF t
    <2>3. CcRest(s, t) /\ CcLine(t)
        BY <1>3, <2>2 DEF CcRest, CcLine
    <2>4. CcEnds(t) /\ CcTell(t)
        BY <1>3, <2>2, <2>3 DEF CcGood, CcEnds, CcTell, CcRest
    <2>5. CcPars(t)
        <3>1. t.chosen = TRUE /\ t.card = s.card /\ t.rtype = s.rtype /\ t.dev = s.dev
            BY <1>3, <2>2, <2>3 DEF CcRest
        <3>2. CcObj(t, t.icc) = ob
            BY <1>4, <2>2, <3>1 DEF CcObj
        <3> QED
            BY <1>3, <1>5, <1>6, <2>2, <3>1, <3>2 DEF CcPars
    <2> QED
        BY <2>2, <2>3, <2>4, <2>5 DEF CcGood, t
<1>7. CASE r.rc # "ok"
    <2>1. t = [r.s EXCEPT !.dirty = TRUE]
        BY <1>7 DEF CcEnd
    <2>2. /\ t \in CcRecord /\ CcRest(r.s, t) /\ t.dirty = TRUE /\ t.chosen = r.s.chosen /\ t.power = r.s.power
          /\ t.seq = r.s.seq /\ t.owed = r.s.owed /\ t.fails = r.s.fails /\ t.stale = r.s.stale /\ t.twice = r.s.twice
        <3>1. t = [u EXCEPT !.dirty = TRUE] /\ u \in CcRecord
            BY <1>3, <2>1
        <3> HIDE DEF t, u
        <3>2. /\ t \in CcRecord /\ CcRest(u, t) /\ t.dirty = TRUE /\ t.chosen = u.chosen /\ t.power = u.power
              /\ t.seq = u.seq /\ t.owed = u.owed /\ t.fails = u.fails /\ t.stale = u.stale /\ t.twice = u.twice
            BY <3>1 DEF CcRecord, CcRest
        <3> QED
            BY <3>2 DEF u
    <2> HIDE DEF t
    <2>3. CcRest(s, t) /\ CcLine(t)
        BY <1>3, <2>2 DEF CcRest, CcLine
    <2>4. CcEnds(t) /\ CcTell(t)
        BY <1>3, <2>2, <2>3 DEF CcGood, CcEnds, CcTell, CcRest
    <2>5. CcPars(t)
        BY <1>3, <1>5, <2>2, <2>3 DEF CcPars, CcRest
    <2> QED
        BY <2>2, <2>3, <2>4, <2>5 DEF CcGood, t
<1> QED
    BY <1>6, <1>7

LEMMA CcSelects ==
    ASSUME NEW s, CcGood(s), s.dev = cc.dev, s.rtype = cc.rtype, s.power, NEW proto \in {"T0", "T1"},
           NEW t \in CcSetProtocol(s, proto)
    PROVE  CcGood(t)
<1> DEFINE c == CcCard[s.card[0]]
           n1 == ~NoSetparam
           n2 == ~NoSetparam /\ ~NoPts /\ ~AutoParse /\ c.tc1
           n3 == ~NoPts /\ (proto = "T1" \/ c.ta1)
           n4 == CcNeedsParams(proto)
           b == CcBegun(s)
           r0 == {CcRes(b, "ok", TRUE)}
           r1 == CcMoreSame(r0, n1)
           r2 == CcMoreSame(r1, n2)
           r3 == CcMorePts(r2, n3, c, proto)
           r4 == CcMorePar(r3, n4, c, proto)
           all == IF cc.rtype = "APDU" THEN r0 ELSE r4
           rq == b.rpar
           cq == b.cpar
           cp3 == CcPtsTo(n3, proto, cq)
           rp4 == IF n4 THEN proto ELSE rq
           cp4 == CcParTo(n4, proto, c, cp3)
<1>1. PICK r \in all : t = CcEnd(r, proto)
    <2>1. CcSetProtocol(s, proto) = {CcEnd(r, proto) : r \in all}
        BY Zenon DEF CcSetProtocol, CcThen, CcMoreSame, CcMorePts, CcMorePar, CcBegun, CcEnd, CcPts, CcSetPar,
                     CcEffected
    <2> HIDE DEF all
    <2> QED
        BY <2>1
<1>2. /\ b \in CcRecord /\ CcLine(b) /\ b.rpar = s.rpar /\ b.cpar = s.cpar
      /\ rq \in {"T0", "T1"} /\ cq \in {"T0", "T1"}
    BY CcBegins DEF CcRecord
<1>3. s.card[0] \in DOMAIN CcCard
    BY DEF CcGood, CcPars, CcRecord
<1>4. n1 \in BOOLEAN /\ n2 \in BOOLEAN /\ n3 \in BOOLEAN /\ n4 \in BOOLEAN
    BY DEF CcNeedsParams
<1>5. CcRes(b, "ok", TRUE) \in CcResults /\ CcRes(b, "ok", TRUE).s = b
    BY <1>2, CcResIn
<1> HIDE DEF b
<1>6. \A x \in r0 : CcAt(b, x, rq, cq)
    BY <1>2, <1>5 DEF CcAt, CcRest, CcFlags
<1>7. cp3 \in {"T0", "T1"}
    BY <1>2 DEF CcPtsTo
<1> HIDE DEF n1, n2, n3, n4, c, r0, rq, cq
<1>8. \A x \in r1 : CcAt(b, x, rq, cq)
    BY <1>2, <1>4, <1>6, CcStageSame
<1> HIDE DEF r1
<1>9. \A x \in r2 : CcAt(b, x, rq, cq)
    BY <1>2, <1>4, <1>8, CcStageSame
<1> HIDE DEF r2
<1>10. \A x \in r3 : CcAt(b, x, rq, cp3)
    BY <1>2, <1>4, <1>9, CcStagePts
<1> HIDE DEF r3, cp3
<1>11. \A x \in r4 : CcAt(b, x, rp4, cp4)
    BY <1>2, <1>4, <1>7, <1>10, CcStagePar
<1> HIDE DEF r4
<1>12. CASE cc.rtype = "APDU"
    <2>1. CcAt(CcBegun(s), r, rq, cq)
        BY <1>1, <1>6, <1>12 DEF b
    <2> QED
        BY <1>1, <1>12, <2>1, CcEnding
<1>13. CASE cc.rtype # "APDU"
    <2>1. CcAt(CcBegun(s), r, rp4, cp4)
        BY <1>1, <1>11, <1>13 DEF b
    <2>2. ASSUME ~s.dirty, ~s.chosen, "auto" \notin s.dev.features, proto \in CcCard[s.card[0]].supp
          PROVE  rp4 = proto /\ cp4 = proto
        <3> DEFINE pps == "pps" \in cc.dev.features
                   parse == "parse" \in cc.dev.features
        <3>1. rq = (IF parse THEN CcCard[s.card[0]].def ELSE "T0") /\ cq = CcCard[s.card[0]].def
            BY <1>2, <2>2 DEF CcGood, CcPars, CcNew, CcDef, rq, cq
        <3>2. n3 <=> (~pps /\ (proto = "T1" \/ c.ta1))
            BY <2>2 DEF n3, NoPts
        <3>3. n4 <=> (~parse \/ proto # "T0")
            BY <2>2 DEF n4, CcNeedsParams, NoSetparam, AutoParse
        <3>4. pps \in BOOLEAN /\ parse \in BOOLEAN
            OBVIOUS
        <3> HIDE DEF pps, parse
        <3>5. c = CcCard[s.card[0]]
            BY DEF c
        <3>6. c.def \in {"T0", "T1"} /\ ("T0" \in c.supp => c.def = "T0") /\ proto \in c.supp
            BY <1>3, <2>2, <3>5, CcCardFacts
        <3>7. rp4 = proto
            BY <2>2, <3>1, <3>3, <3>5, <3>6
        <3>8. n4 /\ pps => cp4 = proto
            BY <3>6 DEF pps, CcParTo
        <3>9. ~(n4 /\ pps) => cp4 = cp3
            BY <3>6 DEF pps, CcParTo
        <3>10. ~(n4 /\ pps) => cp3 = proto
            BY <3>1, <3>2, <3>3, <3>5, <3>6 DEF cp3, CcPtsTo
        <3> QED
            BY <3>7, <3>8, <3>9, <3>10
    <2> HIDE DEF rp4, cp4
    <2> QED
        BY <1>1, <1>13, <2>1, <2>2, CcEnding
<1> QED
    BY <1>12, <1>13

-----------------------------------------------------------------------------
(* The actions *)

CcOnOf(x) == [x EXCEPT !.power = TRUE, !.chosen = FALSE, !.dirty = FALSE,
                       !.rpar = IF AutoParse THEN CcCard[x.card[0]].def ELSE "T0",
                       !.cpar = CcCard[x.card[0]].def]
CcUp(s) == {CcEffected(q, CcOnOf(q.s)) : q \in CcCommand(s, 0)}
CcOnce(s) ==
    IF ~TRUE THEN {CcRes(s, "ok", TRUE)}
    ELSE {r \in {CcRes(s, "ok", TRUE)} : r.rc # "ok"}
         \cup UNION {{CcEffected(q, CcOnOf(q.s)) : q \in CcCommand(r.s, 0)}
                     : r \in {x \in {CcRes(s, "ok", TRUE)} : x.rc = "ok"}}

LEMMA CcOnceIs ==
    ASSUME NEW s, NEW z \in CcOnce(s)
    PROVE  z \in CcUp(s)
<1>1. CcRes(s, "ok", TRUE).s = s /\ CcRes(s, "ok", TRUE).rc = "ok"
    BY DEF CcRes
<1>2. z \in UNION {{CcEffected(q, CcOnOf(q.s)) : q \in CcCommand(r.s, 0)}
                     : r \in {x \in {CcRes(s, "ok", TRUE)} : x.rc = "ok"}}
    BY <1>1 DEF CcOnce
<1> DEFINE U(r) == {CcEffected(q, CcOnOf(q.s)) : q \in CcCommand(r.s, 0)}
<1>3. U(CcRes(s, "ok", TRUE)) = CcUp(s)
    BY <1>1 DEF CcUp
<1>4. z \in UNION {U(r) : r \in {x \in {CcRes(s, "ok", TRUE)} : x.rc = "ok"}}
    BY <1>2
<1> HIDE DEF U
<1> QED
    BY <1>3, <1>4

(* A reset that goes on *)
CcReady(s) ==
    /\ CcGood(s) /\ s.dev = cc.dev /\ s.rtype = cc.rtype /\ s.st = "open" /\ s.proto = "none"
    /\ s.card[0] # "none"

LEMMA CcUps ==
    ASSUME NEW s, CcReady(s), NEW z \in CcUp(s)
    PROVE  CcReady(z.s) /\ (z.rc = "ok" => z.s.power)
<1>1. PICK q \in CcCommand(s, 0) : z = CcEffected(q, CcOnOf(q.s))
    BY DEF CcUp
<1>2. CcOut(s, q)
    BY CcCommands DEF CcReady, CcGood
<1> DEFINE u == q.s
           x == CcOnOf(u)
           pr == IF AutoParse THEN CcCard[u.card[0]].def ELSE "T0"
           pc == CcCard[u.card[0]].def
<1>3. CcGood(u)
    BY <1>2, CcKept DEF CcReady, CcOut, CcResults
<1>4. u \in CcRecord /\ CcLine(u) /\ CcRest(s, u) /\ CcParams(s, u)
    BY <1>2 DEF CcOut, CcResults
<1>5. CcReady(u)
    BY <1>3, <1>4 DEF CcReady, CcRest, CcParams
<1>6. pr \in {"T0", "T1"} /\ pc \in {"T0", "T1"} /\ pr = CcNew(u) /\ pc = CcDef(u)
    <2>1. u.card[0] \in DOMAIN CcCard
        BY <1>5 DEF CcReady, CcGood, CcRecord
    <2> QED
        BY <1>5, <2>1, CcCardFacts DEF CcReady, CcNew, CcDef, AutoParse
<1>7. x = [u EXCEPT !.power = TRUE, !.chosen = FALSE, !.dirty = FALSE, !.rpar = pr, !.cpar = pc]
    BY DEF CcOnOf
<1> HIDE DEF u, x, pr, pc
<1>8. /\ x \in CcRecord /\ CcRest(u, x) /\ x.power = TRUE /\ x.chosen = FALSE /\ x.dirty = FALSE
      /\ x.rpar = pr /\ x.cpar = pc /\ x.proto = u.proto
      /\ x.seq = u.seq /\ x.owed = u.owed /\ x.fails = u.fails /\ x.stale = u.stale /\ x.twice = u.twice
    <2>1. u \in CcRecord /\ pr \in {"T0", "T1"} /\ pc \in {"T0", "T1"}
        BY <1>4, <1>6
    <2>2. x \in CcRecord
        BY <1>7, <2>1, ZenonT(60) DEF CcRecord
    <2>3. /\ x.power = TRUE /\ x.chosen = FALSE /\ x.dirty = FALSE
          /\ x.rpar = pr /\ x.cpar = pc /\ x.proto = u.proto
          /\ x.seq = u.seq /\ x.owed = u.owed /\ x.fails = u.fails /\ x.stale = u.stale /\ x.twice = u.twice
        BY <1>7, <2>1 DEF CcRecord
    <2>4. CcRest(u, x)
        BY <1>7, <2>1 DEF CcRecord, CcRest
    <2> QED
        BY <2>2, <2>3, <2>4
<1>9. CcLine(x)
    BY <1>4, <1>8 DEF CcLine
<1>10. CcEnds(x) /\ CcTell(x)
    BY <1>3, <1>5, <1>8 DEF CcReady, CcGood, CcEnds, CcTell, CcRest
<1>11. CcPars(x)
    <2>1. CcNew(x) = CcNew(u) /\ CcDef(x) = CcDef(u) /\ x.card = u.card
        BY <1>8 DEF CcRest, CcNew, CcDef
    <2> QED
        BY <1>5, <1>6, <1>8, <2>1 DEF CcReady, CcPars
<1>12. CcReady(x)
    BY <1>5, <1>8, <1>9, <1>10, <1>11 DEF CcReady, CcGood, CcRest
<1>13. z.s = (IF q.done THEN x ELSE u) /\ z.rc = q.rc
    BY <1>1, <1>2 DEF CcEffected, CcOut, CcResults, x, u
<1> QED
    BY <1>2, <1>5, <1>8, <1>12, <1>13 DEF CcOut

LEMMA CcPowersUp ==
    ASSUME NEW s, CcReady(s), NEW z \in CcPowerUp(s)
    PROVE  CcReady(z.s) /\ (z.rc = "ok" => z.s.power)
<1>1. z \in CcOnce(s) \/ \E r \in CcOnce(s) : z \in CcOnce(r.s)
    <2> DEFINE once == CcOnce(s)
               again == IF "volt" \in cc.dev.features THEN {} ELSE UNION {CcOnce(r.s) : r \in {x \in once : x.rc # "ok"}}
    <2>1. CcPowerUp(s) = again \cup {r \in once : r.rc = "ok" \/ "volt" \in cc.dev.features}
        BY Zenon DEF CcPowerUp, CcThen, CcOnce, CcOnOf, CcEffected
    <2> HIDE DEF once
    <2>2. z \in once \/ \E r \in once : z \in CcOnce(r.s)
        BY <2>1
    <2> QED
        BY <2>2 DEF once
<1> QED
    BY <1>1, CcOnceIs, CcUps

LEMMA CcInitGood ==
    ASSUME CcInit
    PROVE  CcGood(cc)
<1> DEFINE ip == [s \in 0 .. 1 |-> "unknown"]
           cd == [s \in 0 .. 1 |-> "none"]
<1>1. /\ ip \in [0 .. 1 -> {"unknown", "in", "out"}] /\ ip[0] = "unknown"
      /\ cd \in [0 .. 1 -> DOMAIN CcCard \cup {"none"}]
    OBVIOUS
<1>2. <<>> \in Seq([slot : Nat, seq : Nat]) /\ <<>> \in Seq([0 .. 1 -> [stat : {"in", "out"}, ch : BOOLEAN]])
    OBVIOUS
<1>3. PICK d \in CcDevices :
        cc = [dev |-> d, st |-> "closed", intf |-> 0, intr |-> FALSE, rtype |-> "CHAR",
              seq |-> 0, owed |-> <<>>, fails |-> 0, stale |-> FALSE,
              icc_present |-> ip, notes |-> <<>>,
              swapped |-> FALSE, eaten |-> FALSE,
              card |-> cd, cards |-> 0, power |-> FALSE,
              proto |-> "none", icc |-> "none", rpar |-> "T0", cpar |-> "T0", chosen |-> FALSE, dirty |-> FALSE,
              esc |-> "none", sbuf |-> "none", twice |-> FALSE]
    BY Zenon DEF CcInit
<1> HIDE DEF ip, cd
<1>4. /\ cc \in CcRecord /\ cc.st = "closed" /\ cc.intr = FALSE /\ cc.seq = 0 /\ cc.owed = <<>> /\ cc.fails = 0
      /\ cc.stale = FALSE /\ cc.twice = FALSE /\ cc.icc_present = ip /\ cc.notes = <<>> /\ cc.power = FALSE
      /\ cc.proto = "none" /\ cc.swapped = FALSE
    BY <1>1, <1>2, <1>3 DEF CcRecord
<1>5. CcLine(cc)
    BY <1>4, CcAssumption DEF CcLine, CcOwes
<1>6. CcEnds(cc) /\ CcTell(cc) /\ CcPars(cc)
    BY <1>1, <1>4 DEF CcEnds, CcTell, CcPars
<1> QED
    BY <1>4, <1>5, <1>6 DEF CcGood

LEMMA CcOpenGood ==
    ASSUME CcGood(cc), ccid_open_usb
    PROVE  CcGood(cc')
<1> DEFINE d == cc.dev
           ok == {k \in DOMAIN d.intfs : CcUsable(d.intfs[k])}
           k == CHOOSE x \in ok : \A y \in ok : x <= y
           ir == "intr" \in d.intfs[k].ends
           rt == IF "tpdu" \in d.features THEN "TPDU" ELSE IF "apdu" \in d.features THEN "APDU" ELSE "CHAR"
<1>1. cc \in CcRecord /\ CcLine(cc) /\ CcEnds(cc) /\ CcTell(cc) /\ CcPars(cc) /\ cc.st = "closed"
    BY DEF CcGood, ccid_open_usb
<1>2. \/ cc' = [cc EXCEPT !.st = "failed"]
      \/ ok # {} /\ cc' = [cc EXCEPT !.st = "open", !.intf = k, !.intr = ir, !.rtype = rt]
    BY Zenon DEF ccid_open_usb
<1>3. CASE cc' = [cc EXCEPT !.st = "failed"]
    <2>1. /\ cc' \in CcRecord /\ cc'.st = "failed" /\ CcParams(cc, cc')
          /\ cc'.dev = cc.dev /\ cc'.intr = cc.intr /\ cc'.rtype = cc.rtype /\ cc'.icc_present = cc.icc_present
          /\ cc'.notes = cc.notes /\ cc'.swapped = cc.swapped /\ cc'.eaten = cc.eaten /\ cc'.card = cc.card
          /\ cc'.seq = cc.seq /\ cc'.owed = cc.owed /\ cc'.fails = cc.fails /\ cc'.stale = cc.stale /\ cc'.twice = cc.twice
        BY <1>1, <1>3 DEF CcRecord, CcParams
    <2>2. CcLine(cc')
        BY <1>1, <2>1 DEF CcLine
    <2>3. CcEnds(cc')
        BY <1>1, <2>1 DEF CcEnds, CcParams
    <2>4. CcTell(cc')
        BY <1>1, <2>1 DEF CcTell
    <2>5. CcPars(cc')
        BY <1>1, <2>1 DEF CcPars, CcParams, CcNew, CcDef, CcObj
    <2> QED
        BY <2>1, <2>2, <2>3, <2>4, <2>5 DEF CcGood
<1>4. CASE ok # {} /\ cc' = [cc EXCEPT !.st = "open", !.intf = k, !.intr = ir, !.rtype = rt]
    <2>1. ok \subseteq {1, 2}
        BY <1>1, CcDeviceFacts DEF CcRecord
    <2>2. \E x \in ok : \A y \in ok : x <= y
        <3> HIDE DEF ok
        <3>1. CASE 1 \in ok
            BY <2>1, <3>1
        <3>2. CASE 1 \notin ok
            BY <1>4, <2>1, <3>2
        <3> QED
            BY <3>1, <3>2
    <2>3. k \in ok
        <3> HIDE DEF ok
        <3> QED
            BY <2>2
    <2>4. k \in Nat /\ Bulk \subseteq d.intfs[k].ends
        <3>1. k \in Nat
            <4> HIDE DEF ok, k
            <4> QED
                BY <2>1, <2>3
        <3>2. CcUsable(d.intfs[k])
            <4> HIDE DEF k
            <4> QED
                BY <2>3
        <3> HIDE DEF k
        <3> QED
            BY <3>1, <3>2 DEF CcUsable
    <2>5. ir \in BOOLEAN /\ (ir <=> "intr" \in d.intfs[k].ends) /\ rt \in {"CHAR", "TPDU", "APDU"}
        OBVIOUS
    <2> HIDE DEF ok, k, ir, rt
    <2>6. /\ cc' \in CcRecord /\ cc'.st = "open" /\ CcParams(cc, cc') /\ cc'.intf = k /\ cc'.intr = ir
          /\ cc'.dev = cc.dev /\ cc'.icc_present = cc.icc_present
          /\ cc'.notes = cc.notes /\ cc'.swapped = cc.swapped /\ cc'.eaten = cc.eaten /\ cc'.card = cc.card
          /\ cc'.seq = cc.seq /\ cc'.owed = cc.owed /\ cc'.fails = cc.fails /\ cc'.stale = cc.stale /\ cc'.twice = cc.twice
        BY <1>1, <1>4, <2>4, <2>5, ZenonT(60) DEF CcRecord, CcParams
    <2>7. CcLine(cc')
        BY <1>1, <2>6 DEF CcLine
    <2>8. CcEnds(cc')
        BY <2>4, <2>5, <2>6 DEF CcEnds
    <2>9. cc.notes = <<>> /\ cc.icc_present[0] = "unknown" /\ cc.power = FALSE /\ cc.swapped = FALSE
        BY <1>1 DEF CcEnds
    <2>10. CcTell(cc')
        BY <2>6, <2>9 DEF CcTell
    <2>11. CcPars(cc')
        BY <1>1, <2>6, <2>9 DEF CcPars, CcParams
    <2> QED
        BY <2>6, <2>7, <2>8, <2>10, <2>11 DEF CcGood
<1> QED
    BY <1>2, <1>3, <1>4

LEMMA CcStatusGood ==
    ASSUME CcGood(cc), NEW slot \in 0 .. 1, ccid_card_status(slot)
    PROVE  CcGood(cc')
<1>1. PICK r \in CcStatus(cc, slot) :
        cc' = [r.s EXCEPT !.swapped = @ /\ ~(slot = 0 /\ r.rc = "changed"),
                          !.eaten = r.s.swapped /\ (@ \/ (slot # 0 /\ r.s.notes # cc.notes))]
    BY DEF ccid_card_status
<1>2. CcAsked(cc, slot, r)
    BY CcStatuses DEF ccid_card_status
<1> DEFINE u == r.s
           x == slot = 0 /\ r.rc = "changed"
           sw == u.swapped /\ ~x
           y == slot # 0 /\ u.notes # cc.notes
           et == u.swapped /\ (u.eaten \/ y)
<1>3. u \in CcRecord /\ CcLine(u) /\ CcEnds(u) /\ CcPars(u) /\ CcTellBut(u, x, y)
    BY <1>2 DEF CcAsked, CcAsk
<1>4. sw \in BOOLEAN /\ et \in BOOLEAN /\ x \in BOOLEAN /\ y \in BOOLEAN
    BY <1>3 DEF CcRecord
<1>5. (sw <=> (u.swapped /\ ~x)) /\ (et <=> (u.swapped /\ (u.eaten \/ y))) /\ ~(x /\ y)
    OBVIOUS
<1>6. cc' = [u EXCEPT !.swapped = sw, !.eaten = et]
    BY <1>1
<1> HIDE DEF u, x, y, sw, et
<1>7. /\ cc' \in CcRecord /\ cc'.swapped = sw /\ cc'.eaten = et /\ CcParams(u, cc')
      /\ cc'.dev = u.dev /\ cc'.st = u.st /\ cc'.intf = u.intf /\ cc'.intr = u.intr /\ cc'.rtype = u.rtype
      /\ cc'.icc_present = u.icc_present /\ cc'.notes = u.notes /\ cc'.card = u.card
      /\ cc'.seq = u.seq /\ cc'.owed = u.owed /\ cc'.fails = u.fails /\ cc'.stale = u.stale /\ cc'.twice = u.twice
    BY <1>3, <1>4, <1>6, ZenonT(60) DEF CcRecord, CcParams
<1>8. CcLine(cc')
    BY <1>3, <1>7 DEF CcLine
<1>9. CcEnds(cc')
    BY <1>3, <1>5, <1>7 DEF CcEnds, CcParams
<1>10. CcPars(cc')
    BY <1>3, <1>7 DEF CcPars, CcParams, CcNew, CcDef, CcObj
<1>11. CcTell(cc')
    BY <1>3, <1>5, <1>7 DEF CcTell, CcTellBut
<1> QED
    BY <1>7, <1>8, <1>9, <1>10, <1>11 DEF CcGood

(* The status call within a reset *)
CcEaten(r) == [r EXCEPT !.s.eaten = @ \/ (r.rc = "changed" /\ r.s.swapped)]

LEMMA CcEats ==
    ASSUME NEW s, CcGood(s), s.dev = cc.dev, s.st = "open", NEW r \in CcStatus(s, 0)
    PROVE  /\ CcGood(CcEaten(r).s) /\ CcEaten(r).s.dev = s.dev /\ CcEaten(r).s.st = s.st
           /\ CcEaten(r).s.rtype = s.rtype /\ CcEaten(r).s.proto = s.proto
<1>0. 0 \in 0 .. 1 /\ 0 < NSlots
    BY CcSlotFacts, CcDeviceFacts DEF CcGood, CcRecord, NSlots
<1>1. CcAsked(s, 0, r)
    BY <1>0, CcStatuses
<1> DEFINE u == r.s
           x == 0 = 0 /\ r.rc = "changed"
           et == u.eaten \/ (r.rc = "changed" /\ u.swapped)
           t == [u EXCEPT !.eaten = et]
<1>2. u \in CcRecord /\ CcLine(u) /\ CcEnds(u) /\ CcPars(u) /\ CcTellBut(u, x, 0 # 0 /\ u.notes # s.notes) /\ CcAsk(s, u) /\ r \in CcResults
    BY <1>1 DEF CcAsked, CcAsk
<1>3. et \in BOOLEAN /\ (et <=> (u.eaten \/ (x /\ u.swapped)))
    BY <1>2 DEF CcRecord
<1>4. CcEaten(r).s = t
    BY <1>2 DEF CcEaten, CcResults
<1> HIDE DEF u, x, et
<1>5. /\ t \in CcRecord /\ t.swapped = u.swapped /\ t.eaten = et /\ CcParams(u, t)
      /\ t.dev = u.dev /\ t.st = u.st /\ t.intf = u.intf /\ t.intr = u.intr /\ t.rtype = u.rtype
      /\ t.icc_present = u.icc_present /\ t.notes = u.notes /\ t.card = u.card
      /\ t.seq = u.seq /\ t.owed = u.owed /\ t.fails = u.fails /\ t.stale = u.stale /\ t.twice = u.twice
    BY <1>2, <1>3 DEF CcRecord, CcParams
<1> HIDE DEF t
<1>6. CcLine(t)
    BY <1>2, <1>5 DEF CcLine
<1>7. CcEnds(t)
    BY <1>2, <1>5 DEF CcEnds, CcParams
<1>8. CcPars(t)
    BY <1>2, <1>5 DEF CcPars, CcParams, CcNew, CcDef, CcObj
<1>9. CcTell(t)
    BY <1>2, <1>3, <1>5 DEF CcTell, CcTellBut
<1> QED
    BY <1>2, <1>4, <1>5, <1>6, <1>7, <1>8, <1>9 DEF CcGood, CcAsk, CcParams

LEMMA CcResetGood ==
    ASSUME CcGood(cc), ccid_card_reset
    PROVE  CcGood(cc')
<1> DEFINE s == [cc EXCEPT !.proto = "none"]
           asked == {CcEaten(r) : r \in CcStatus(s, 0)}
<1>1. \/ \E a \in asked : cc' = a.s
      \/ \E a \in asked : a.s.card[0] # "none" /\ \E r \in CcPowerUp(a.s) :
            \/ cc' = r.s
            \/ r.rc = "ok" /\ cc' \in CcSetProtocol(r.s, CcCard[r.s.card[0]].def)
    <2> DEFINE on == {r \in asked : r.rc # "error" /\ r.s.icc_present[0] = "in" /\ r.s.card[0] # "none"}
    <2>1. \/ \E a \in asked \ on : cc' = a.s
          \/ \E a \in on : \E r \in CcPowerUp(a.s) :
                IF r.rc # "ok" THEN cc' = r.s ELSE cc' \in CcSetProtocol(r.s, CcCard[r.s.card[0]].def)
        BY Zenon DEF ccid_card_reset, CcEaten
    <2> HIDE DEF asked
    <2> QED
        BY <2>1
<1>2. cc.st = "open"
    BY DEF ccid_card_reset
<1>3. /\ s \in CcRecord /\ CcRest(cc, s) /\ s.proto = "none" /\ s.power = cc.power /\ s.rpar = cc.rpar
      /\ s.cpar = cc.cpar /\ s.chosen = cc.chosen /\ s.dirty = cc.dirty
      /\ s.seq = cc.seq /\ s.owed = cc.owed /\ s.fails = cc.fails /\ s.stale = cc.stale /\ s.twice = cc.twice
    BY DEF CcGood, CcRecord, CcRest
<1> HIDE DEF s
<1>4. CcLine(s)
    BY <1>3 DEF CcGood, CcLine
<1>5. CcEnds(s) /\ CcTell(s)
    BY <1>2, <1>3 DEF CcGood, CcEnds, CcTell, CcRest
<1>6. CcPars(s)
    BY <1>3 DEF CcGood, CcPars, CcNew, CcDef, CcRest
<1>7. CcGood(s) /\ s.dev = cc.dev /\ s.st = "open" /\ s.rtype = cc.rtype
    BY <1>2, <1>3, <1>4, <1>5, <1>6 DEF CcGood, CcRest
<1>8. ASSUME NEW a \in asked
      PROVE  CcGood(a.s) /\ (a.s.card[0] # "none" => CcReady(a.s))
    <2>1. PICK r \in CcStatus(s, 0) : a = CcEaten(r)
        OBVIOUS
    <2> QED
        BY <1>3, <1>7, <2>1, CcEats DEF CcReady
<1> HIDE DEF asked
<1>9. ASSUME NEW a \in asked, a.s.card[0] # "none", NEW r \in CcPowerUp(a.s),
             cc' = r.s \/ (r.rc = "ok" /\ cc' \in CcSetProtocol(r.s, CcCard[r.s.card[0]].def))
      PROVE  CcGood(cc')
    <2>1. CcReady(r.s) /\ (r.rc = "ok" => r.s.power)
        BY <1>8, <1>9, CcPowersUp
    <2>2. CcCard[r.s.card[0]].def \in {"T0", "T1"}
        <3>1. r.s.card[0] \in DOMAIN CcCard
            BY <2>1 DEF CcReady, CcGood, CcRecord
        <3> QED
            BY <3>1, CcCardFacts
    <2> QED
        BY <1>9, <2>1, <2>2, CcSelects DEF CcReady
<1> QED
    BY <1>1, <1>8, <1>9

LEMMA CcSetProtocolGood ==
    ASSUME CcGood(cc), NEW proto \in {"T0", "T1"}, ccid_set_protocol(proto)
    PROVE  CcGood(cc')
BY CcSelects DEF ccid_set_protocol

LEMMA CcResetEscapeGood ==
    ASSUME CcGood(cc), CcResetEscape
    PROVE  CcGood(cc')
<1>1. cc' = [cc EXCEPT !.esc = "ESCAPE"]
    BY DEF CcResetEscape
<1>2. /\ cc' \in CcRecord /\ CcParams(cc, cc')
      /\ cc'.dev = cc.dev /\ cc'.st = cc.st /\ cc'.intf = cc.intf /\ cc'.intr = cc.intr /\ cc'.rtype = cc.rtype
      /\ cc'.icc_present = cc.icc_present /\ cc'.notes = cc.notes /\ cc'.card = cc.card
      /\ cc'.swapped = cc.swapped /\ cc'.eaten = cc.eaten
      /\ cc'.seq = cc.seq /\ cc'.owed = cc.owed /\ cc'.fails = cc.fails /\ cc'.stale = cc.stale /\ cc'.twice = cc.twice
    BY <1>1, ZenonT(60) DEF CcGood, CcRecord, CcParams
<1>3. CcLine(cc')
    BY <1>2 DEF CcGood, CcLine
<1>4. CcEnds(cc') /\ CcTell(cc')
    BY <1>2 DEF CcGood, CcEnds, CcTell, CcParams
<1>5. CcPars(cc')
    BY <1>2 DEF CcGood, CcPars, CcParams, CcNew, CcDef, CcObj
<1> QED
    BY <1>2, <1>3, <1>4, <1>5 DEF CcGood

LEMMA CcExchangeGood ==
    ASSUME CcGood(cc), NEW slot \in Nat, NEW r \in CcCommand(cc, slot)
    PROVE  CcGood(r.s)
<1>1. CcOut(cc, r)
    BY CcCommands DEF CcGood
<1> QED
    BY <1>1, CcKept DEF CcOut, CcResults

(* A block is kept, or sent. *)
LEMMA CcBufferGood ==
    ASSUME NEW s, CcGood(s), NEW b \in {"none", "new"}
    PROVE  /\ CcGood([s EXCEPT !.sbuf = b]) /\ CcGood([s EXCEPT !.twice = FALSE, !.sbuf = b])
<1> DEFINE t == [s EXCEPT !.sbuf = b]
<1>1. [s EXCEPT !.twice = FALSE, !.sbuf = b] = t
    BY DEF CcGood, CcRecord, CcLine
<1>2. /\ t \in CcRecord /\ CcParams(s, t)
      /\ t.dev = s.dev /\ t.st = s.st /\ t.intf = s.intf /\ t.intr = s.intr /\ t.rtype = s.rtype
      /\ t.icc_present = s.icc_present /\ t.notes = s.notes /\ t.card = s.card
      /\ t.swapped = s.swapped /\ t.eaten = s.eaten
      /\ t.seq = s.seq /\ t.owed = s.owed /\ t.fails = s.fails /\ t.stale = s.stale /\ t.twice = s.twice
    BY ZenonT(60) DEF CcGood, CcRecord, CcParams
<1> HIDE DEF t
<1>3. CcLine(t)
    BY <1>2 DEF CcGood, CcLine
<1>4. CcEnds(t) /\ CcTell(t)
    BY <1>2 DEF CcGood, CcEnds, CcTell, CcParams
<1>5. CcPars(t)
    BY <1>2 DEF CcGood, CcPars, CcParams, CcNew, CcDef, CcObj
<1>6. CcGood(t)
    BY <1>2, <1>3, <1>4, <1>5 DEF CcGood
<1> QED
    BY <1>1, <1>6 DEF t

LEMMA CcBlocksGood ==
    ASSUME CcGood(cc), ccid_transparent \/ ccid_escape \/ ccid_send \/ ccid_recv
    PROVE  CcGood(cc')
<1>1. CASE ccid_transparent
    BY <1>1, CcExchangeGood DEF ccid_transparent
<1>2. CASE ccid_escape
    <2>1. NSlots - 1 \in Nat
        BY CcSlotFacts DEF CcGood, CcRecord
    <2> QED
        BY <1>2, <2>1, CcExchangeGood DEF ccid_escape
<1>3. CASE ccid_send
    BY <1>3, CcBufferGood DEF ccid_send
<1>4. CASE ccid_recv
    <2>1. PICK r \in CcCommand(cc, 0) : cc' = [r.s EXCEPT !.twice = (cc.sbuf = "sent"), !.sbuf = "none"]
        BY <1>4 DEF ccid_recv
    <2>2. (cc.sbuf = "sent") = FALSE
        BY DEF CcGood, CcRecord
    <2>3. cc' = [r.s EXCEPT !.twice = FALSE, !.sbuf = "none"]
        BY <2>1, <2>2
    <2>4. CcGood(r.s)
        BY CcExchangeGood
    <2> QED
        BY <2>3, <2>4, CcBufferGood
<1> QED
    BY <1>1, <1>2, <1>3, <1>4

LEMMA CcMoveGood ==
    ASSUME CcGood(cc), NEW slot \in 0 .. 1, CcMove(slot)
    PROVE  CcGood(cc')
<1>0. cc \in CcRecord /\ CcLine(cc) /\ CcEnds(cc) /\ CcTell(cc) /\ CcPars(cc) /\ cc.st = "open" /\ slot < cc.dev.slots
    BY DEF CcGood, CcMove
<1>1. PICK c \in DOMAIN CcCard \cup {"none"} :
        cc' = [cc EXCEPT !.card[slot] = c, !.cards = IF c = "none" THEN @ ELSE @ + 1,
                              !.power = @ /\ slot # 0, !.notes = CcNote(slot, c),
                              !.swapped = @ \/ slot = 0, !.eaten = @ /\ slot # 0]
    BY DEF CcMove
<1> DEFINE cd == [cc.card EXCEPT ![slot] = c]
           n == IF c = "none" THEN cc.cards ELSE cc.cards + 1
           pw == cc.power /\ slot # 0
           e == [s \in 0 .. 1 |-> [stat |-> IF s = slot THEN InOut(c) ELSE InOut(cc.card[s]), ch |-> s = slot]]
           nt == CcNote(slot, c)
           sw == cc.swapped \/ slot = 0
           et == cc.eaten /\ slot # 0
<1>2. /\ cd \in [0 .. 1 -> DOMAIN CcCard \cup {"none"}] /\ cd[slot] = c /\ (slot # 0 => cd[0] = cc.card[0])
      /\ n \in Nat
    BY <1>0 DEF CcRecord
<1>3. pw \in BOOLEAN /\ sw \in BOOLEAN /\ et \in BOOLEAN /\ (pw => cc.power /\ slot # 0)
    BY <1>0 DEF CcRecord
<1>4. /\ e \in [0 .. 1 -> [stat : {"in", "out"}, ch : BOOLEAN]]
      /\ e[0].stat = InOut(cd[0]) /\ (slot = 0 => e[0].ch)
    <2>1. \A s \in 0 .. 1 : e[s] \in [stat : {"in", "out"}, ch : BOOLEAN]
        <3> SUFFICES ASSUME NEW s \in 0 .. 1
                     PROVE  e[s] \in [stat : {"in", "out"}, ch : BOOLEAN]
            OBVIOUS
        <3> DEFINE a == IF s = slot THEN InOut(c) ELSE InOut(cc.card[s])
                   b == s = slot
        <3>1. a \in {"in", "out"} /\ b \in BOOLEAN
            BY DEF InOut
        <3>2. e[s] = [stat |-> a, ch |-> b]
            OBVIOUS
        <3> HIDE DEF a, b
        <3> QED
            BY <3>1, <3>2
    <2>2. e[0].stat = InOut(cd[0])
        <3>1. e[0].stat = IF 0 = slot THEN InOut(c) ELSE InOut(cc.card[0])
            OBVIOUS
        <3> HIDE DEF e, cd
        <3>2. CASE slot = 0
            <4>1. cd[0] = c
                BY <1>2, <3>2
            <4> QED
                BY <3>1, <3>2, <4>1
        <3>3. CASE slot # 0
            <4>1. cd[0] = cc.card[0]
                BY <1>2, <3>3
            <4> QED
                BY <3>1, <3>3, <4>1
        <3> QED
            BY <3>2, <3>3
    <2>3. slot = 0 => e[0].ch
        OBVIOUS
    <2>4. DOMAIN e = 0 .. 1 /\ e = [s \in 0 .. 1 |-> e[s]]
        OBVIOUS
    <2> HIDE DEF e
    <2> QED
        BY <2>1, <2>2, <2>3, <2>4
<1>5. nt = IF ~cc.intr THEN cc.notes ELSE Append(cc.notes, e)
    BY DEF CcNote
<1>6. cc' = [cc EXCEPT !.card = cd, !.cards = n, !.power = pw, !.notes = nt, !.swapped = sw, !.eaten = et]
    BY <1>1
<1> HIDE DEF cd, n, pw, e, nt, sw, et
<1> DEFINE N == [0 .. 1 -> [stat : {"in", "out"}, ch : BOOLEAN]]
<1>7. cc.notes \in Seq(N) /\ e \in N
    BY <1>0, <1>4 DEF CcRecord
<1>8. nt \in Seq(N)
    <2> HIDE DEF N
    <2> QED
        BY <1>5, <1>7
<1>9. /\ cc' \in CcRecord
      /\ cc'.dev = cc.dev /\ cc'.st = cc.st /\ cc'.intf = cc.intf /\ cc'.intr = cc.intr /\ cc'.rtype = cc.rtype
      /\ cc'.icc_present = cc.icc_present /\ cc'.notes = nt /\ cc'.card = cd /\ cc'.power = pw
      /\ cc'.swapped = sw /\ cc'.eaten = et
      /\ cc'.proto = cc.proto /\ cc'.icc = cc.icc /\ cc'.rpar = cc.rpar /\ cc'.cpar = cc.cpar
      /\ cc'.chosen = cc.chosen /\ cc'.dirty = cc.dirty
      /\ cc'.seq = cc.seq /\ cc'.owed = cc.owed /\ cc'.fails = cc.fails /\ cc'.stale = cc.stale /\ cc'.twice = cc.twice
    <2>1. /\ cc \in CcRecord /\ cd \in [0 .. 1 -> DOMAIN CcCard \cup {"none"}] /\ n \in Nat /\ pw \in BOOLEAN
          /\ sw \in BOOLEAN /\ et \in BOOLEAN
        BY <1>0, <1>2, <1>3
    <2>2. nt \in Seq([0 .. 1 -> [stat : {"in", "out"}, ch : BOOLEAN]])
        BY <1>8
    <2> HIDE DEF N
    <2>3. cc' \in CcRecord
        <3> DEFINE c1 == [cc EXCEPT !.card = cd]
                   c2 == [c1 EXCEPT !.notes = nt]
        <3>1. c1 \in CcRecord
            BY <2>1 DEF CcRecord
        <3> HIDE DEF c1
        <3>2. c2 \in CcRecord
            BY <2>2, <3>1 DEF CcRecord
        <3> HIDE DEF c2
        <3>3. [c2 EXCEPT !.cards = n, !.power = pw, !.swapped = sw, !.eaten = et] \in CcRecord
            BY <2>1, <3>2 DEF CcRecord
        <3>4. cc' = [c2 EXCEPT !.cards = n, !.power = pw, !.swapped = sw, !.eaten = et]
            BY <1>6, <2>1 DEF c1, c2, CcRecord
        <3> QED
            BY <3>3, <3>4
    <2> QED
        BY <1>6, <2>1, <2>3 DEF CcRecord
<1>10. CcLine(cc') /\ CcEnds(cc')
    BY <1>0, <1>9 DEF CcLine, CcEnds
<1>11. CcPars(cc')
    <2>1. CASE pw
        <3>1. cd[0] = cc.card[0] /\ cc.power
            BY <1>2, <1>3, <2>1
        <3>2. CcNew(cc') = CcNew(cc) /\ CcDef(cc') = CcDef(cc) /\ \A p : CcObj(cc', p) = CcObj(cc, p)
            BY <1>9, <3>1 DEF CcNew, CcDef, CcObj
        <3> QED
            BY <1>0, <1>9, <3>1, <3>2 DEF CcPars
    <2>2. CASE ~pw
        BY <1>0, <1>9, <2>2 DEF CcPars
    <2> QED
        BY <2>1, <2>2
<1>12. CcTell(cc')
    <2>1. CASE cc.intr
        <3>1. nt = Append(cc.notes, e)
            BY <1>5, <2>1
        <3>2. /\ nt # <<>> /\ nt[Len(nt)] = e /\ DOMAIN nt = 1 .. (Len(cc.notes) + 1) /\ Len(cc.notes) \in Nat
              /\ \A i \in 1 .. Len(cc.notes) : nt[i] = cc.notes[i]
              /\ nt[Len(cc.notes) + 1] = e /\ DOMAIN cc.notes = 1 .. Len(cc.notes)
            <4> HIDE DEF N
            <4> QED
                BY <1>7, <3>1
        <3>3. nt[Len(nt)][0].stat = InOut(cd[0])
            BY <1>4, <3>2
        <3>4. CASE slot = 0
            <4>1. nt[Len(cc.notes) + 1][0].ch /\ Len(cc.notes) + 1 \in DOMAIN nt
                BY <1>4, <3>2, <3>4
            <4>2. cc'.swapped = sw /\ sw
                BY <1>9, <3>4 DEF sw
            <4> QED
                BY <1>9, <3>2, <3>3, <4>1, <4>2 DEF CcTell
        <3>5. CASE slot # 0
            <4>1. cc'.swapped = cc.swapped /\ cc'.eaten = cc.eaten /\ cd[0] = cc.card[0]
                BY <1>0, <1>2, <1>9, <3>5 DEF sw, et, CcRecord
            <4>2. /\ cc.swapped => cc.eaten \/ \E i \in DOMAIN cc.notes : cc.notes[i][0].ch
                  /\ cc.icc_present[0] # "unknown" /\ cc.icc_present[0] # InOut(cc.card[0]) => cc.swapped
                BY <1>0, <2>1 DEF CcTell
            <4>3. cc.swapped => cc.eaten \/ \E i \in DOMAIN nt : nt[i][0].ch
                <5>1. \A i \in DOMAIN cc.notes : i \in DOMAIN nt /\ nt[i] = cc.notes[i]
                    BY <3>2
                <5> QED
                    BY <4>2, <5>1
            <4> QED
                BY <1>9, <3>2, <3>3, <4>1, <4>2, <4>3 DEF CcTell
        <3> QED
            BY <3>4, <3>5
    <2>2. CASE ~cc.intr
        BY <1>9, <2>2 DEF CcTell
    <2> QED
        BY <2>1, <2>2
<1> QED
    BY <1>9, <1>10, <1>11, <1>12 DEF CcGood

LEMMA CcNextGood ==
    ASSUME CcGood(cc), CcNext
    PROVE  CcGood(cc')
BY CcOpenGood, CcResetGood, CcResetEscapeGood, CcBlocksGood, CcStatusGood, CcMoveGood, CcSetProtocolGood DEF CcNext

LEMMA CcGoodSuffices ==
    ASSUME CcGood(cc)
    PROVE  CcAnswerIsOwn /\ CcAgree /\ CcOpened /\ CcStatusTrue
<1>1. CcAnswerIsOwn
    BY DEF CcGood, CcLine, CcAnswerIsOwn
<1>2. CcAgree
    BY DEF CcGood, CcPars, CcAgree, CcObj, CcObject, NoSetparam
<1>3. CcOpened
    BY DEF CcGood, CcEnds, CcOpened
<1>4. CcStatusTrue
    <2>1. cc.notes = <<>> => DOMAIN cc.notes = {}
        OBVIOUS
    <2>2. cc.dev.slots \in {1, 2}
        BY CcDeviceFacts DEF CcGood, CcRecord
    <2> QED
        BY <2>1, <2>2 DEF CcGood, CcTell, CcStatusTrue
<1> QED
    BY <1>1, <1>2, <1>3, <1>4

-----------------------------------------------------------------------------
(* GBP: GbpGood *)

GbpBlocks == [k : {"I", "R", "S", "bad"}, seq : {0, 1}, of : {0, 1}]

GbpRecord ==
    [state : {"ALIVE", "RESYNCH", "DEAD"}, ns : {0, 1}, sseq : {0, 1}, retries : Nat, resyncs : Int,
     pc : {"idle", "xcv", "rsy"}, room : BOOLEAN, call : {0, 1}, ans : {0, 1},
     ret : {"none", "ok", "error"}, out : Seq(GbpBlocks), in : Seq(GbpBlocks), exp : {0, 1},
     last : GbpBlocks, late : BOOLEAN, faults : Nat]

(* The number the reader expects follows from the last block it sent. *)
GbpSaid(s) ==
    /\ s.last.k # "bad"
    /\ s.last.k = "I" => s.exp = 1 - s.last.seq
    /\ s.last.k = "R" => s.exp = s.last.seq
    /\ s.last.k = "S" => s.exp = 0

(* The last I block of the reader, if that was the last block, answers this
   call. *)
GbpKnown(s) == s.last.k = "I" => s.last.of = s.call /\ s.last.seq = s.ns

(* Nothing is on the line. *)
GbpQuiet(s) == s.in = <<>> /\ s.out = <<>>

(* One block is on the line, the last of the reader unless it is damaged. *)
GbpOne(s) ==
    /\ s.in # <<>> => s.out = <<>> /\ Len(s.in) = 1 /\ (s.in[1].k = "bad" \/ s.in[1] = s.last)
    /\ s.out # <<>> => s.in = <<>> /\ Len(s.out) = 1

(* Without a late answer: between calls, in a resync, and in an exchange. *)
GbpCalm(s) ==
    /\ GbpOne(s)
    /\ s.pc = "idle" => GbpQuiet(s) /\ (s.state # "DEAD" => s.ns = s.exp)
    /\ s.pc = "rsy" => s.ns = 0
    /\ s.pc = "xcv" =>
          /\ s.out # <<>> => s.out[1].k \in {"S", "bad"} \/ s.out[1] \in {IBlock(s), RBlock(s)}
          /\ \/ GbpKnown(s)
             \/ /\ s.in = <<>>
                /\ s.out # <<>> => s.out[1].k \in {"S", "bad"} \/ (s.out[1] = IBlock(s) /\ s.ns = s.exp)
    /\ s.ret = "ok" => s.ans = s.call

GbpGood(s) ==
    s \in GbpRecord /\ GbpSaid(s) /\ (s.pc # "idle" => s.ret = "none") /\ (~s.late => GbpCalm(s))

(* In an exchange, with nothing on the line: what the loop of gbp_transceive()
   starts from. *)
GbpXcv(s) ==
    s \in GbpRecord /\ GbpSaid(s) /\ s.pc = "xcv" /\ s.ret = "none" /\ (~s.late => GbpQuiet(s))

(* A block that may be sent: a resync request, a block of the call whose
   answer the reader would repeat, or the I block with the number expected. *)
GbpMaySend(s, b) ==
    b.k = "S" \/ (b \in {IBlock(s), RBlock(s)} /\ GbpKnown(s)) \/ (b = IBlock(s) /\ s.ns = s.exp)

LEMMA GbpWrappedNat == ASSUME NEW n \in Nat PROVE Wrapped(n) \in Nat
<1>1. n + GbpRetryMod - 1 \in Int
  BY GbpAssumption
<1>2. \A a \in Int, m \in Nat \ {0} : a % m \in Nat
  BY Z3
<1> QED
  BY <1>1, <1>2, GbpAssumption DEF Wrapped

LEMMA GbpBlocksSent ==
  ASSUME NEW s \in GbpRecord
  PROVE  IBlock(s) \in GbpBlocks /\ RBlock(s) \in GbpBlocks /\ Resync \in GbpBlocks
BY DEF GbpRecord, GbpBlocks, IBlock, RBlock, Resync, Blk

LEMMA GbpSendGood ==
  ASSUME NEW s, GbpXcv(s), NEW b \in GbpBlocks, ~s.late => GbpMaySend(s, b)
  PROVE  GbpGood(GbpSend(s, b))
<1> DEFINE o == Append(s.out, b)
           t == [s EXCEPT !.out = o]
<1>1. o \in Seq(GbpBlocks)
  BY DEF GbpXcv, GbpRecord
<1>0. <<>> \in Seq(GbpBlocks) /\ Len(<<>>) = 0
  OBVIOUS
<1>2. ~s.late => o = <<b>> /\ Len(o) = 1 /\ o[1] = b /\ o # <<>>
  <2>1. SUFFICES ASSUME s.out = <<>> PROVE o = <<b>> /\ Len(o) = 1 /\ o[1] = b /\ o # <<>>
    BY DEF GbpXcv, GbpQuiet
  <2>2. o = Append(<<>>, b)
    BY <2>1
  <2> HIDE DEF o
  <2>3. Append(<<>>, b) = <<b>>
    OBVIOUS
  <2>4. Len(<<b>>) = 1 /\ <<b>>[1] = b
    OBVIOUS
  <2>5. <<b>> # <<>>
    BY <1>0, <2>4
  <2> QED
    BY <2>2, <2>3, <2>4, <2>5
<1> HIDE DEF o
<1>3. /\ t \in GbpRecord /\ t.out = o /\ t.in = s.in /\ t.pc = s.pc /\ t.ret = s.ret
      /\ t.late = s.late /\ t.last = s.last /\ t.exp = s.exp /\ t.ns = s.ns /\ t.call = s.call
  BY <1>1 DEF GbpXcv, GbpRecord
<1>4. GbpSend(s, b) = t
  BY DEF GbpSend, o
<1> HIDE DEF t
<1>5. GbpSaid(t) /\ t.pc = "xcv" /\ t.ret = "none"
  BY <1>3 DEF GbpXcv, GbpSaid
<1>6. IBlock(t) = IBlock(s) /\ RBlock(t) = RBlock(s) /\ (GbpKnown(s) => GbpKnown(t))
  BY <1>3 DEF IBlock, RBlock, GbpKnown
<1>7. ASSUME ~s.late PROVE GbpCalm(t)
  <2>1. t.in = <<>> /\ t.out = <<b>> /\ Len(t.out) = 1 /\ t.out[1] = b /\ t.out # <<>>
    BY <1>2, <1>3, <1>7 DEF GbpXcv, GbpQuiet
  <2>2. GbpOne(t)
    BY <2>1 DEF GbpOne
  <2>3. b.k \in {"S", "bad"} \/ b \in {IBlock(t), RBlock(t)}
    BY <1>6, <1>7 DEF GbpMaySend
  <2>4. \/ GbpKnown(t)
        \/ b.k \in {"S", "bad"} \/ (b = IBlock(t) /\ t.ns = t.exp)
    BY <1>3, <1>6, <1>7 DEF GbpMaySend
  <2> QED
    BY <2>1, <2>2, <2>3, <2>4, <1>5 DEF GbpCalm
<1> QED
  BY <1>3, <1>4, <1>5, <1>7 DEF GbpGood

LEMMA GbpErrorGood ==
  ASSUME NEW s \in GbpRecord, GbpSaid(s), ~s.late => GbpQuiet(s)
  PROVE  GbpGood(GbpError(s))
<1> DEFINE t == GbpError(s)
<1>1. /\ t \in GbpRecord /\ t.out = s.out /\ t.in = s.in /\ t.pc = "idle" /\ t.ret = "error"
      /\ t.state = "DEAD" /\ t.late = s.late /\ t.last = s.last /\ t.exp = s.exp
  BY DEF GbpRecord, GbpError
<1> HIDE DEF t
<1>2. GbpSaid(t)
  BY <1>1 DEF GbpSaid
<1>3. ~t.late => GbpCalm(t)
  BY <1>1 DEF GbpCalm, GbpQuiet, GbpOne
<1>4. GbpGood(t)
  BY <1>1, <1>2, <1>3 DEF GbpGood
<1> QED
  BY <1>4 DEF t

LEMMA GbpToResyncGood ==
  ASSUME NEW s, GbpXcv(s)
  PROVE  GbpXcv(GbpToResync(s))
<1> DEFINE t == [s EXCEPT !.ns = 0, !.state = "RESYNCH"]
<1>1. /\ t \in GbpRecord /\ t.out = s.out /\ t.in = s.in /\ t.pc = s.pc /\ t.ret = s.ret
      /\ t.late = s.late /\ t.last = s.last /\ t.exp = s.exp
  BY DEF GbpRecord, GbpXcv
<1> HIDE DEF t
<1>2. GbpXcv(t)
  BY <1>1 DEF GbpXcv, GbpSaid, GbpQuiet
<1> QED
  BY <1>2 DEF GbpToResync, t

LEMMA GbpXcvRetries ==
  ASSUME NEW s, GbpXcv(s), NEW n \in Nat
  PROVE  /\ GbpXcv([s EXCEPT !.retries = n])
         /\ \A b : GbpMaySend(s, b) => GbpMaySend([s EXCEPT !.retries = n], b)
         /\ [s EXCEPT !.retries = n].late = s.late
<1> DEFINE t == [s EXCEPT !.retries = n]
<1>1. /\ t \in GbpRecord /\ t.out = s.out /\ t.in = s.in /\ t.pc = s.pc /\ t.ret = s.ret
      /\ t.late = s.late /\ t.last = s.last /\ t.exp = s.exp /\ t.ns = s.ns /\ t.call = s.call
  BY DEF GbpRecord, GbpXcv
<1> HIDE DEF t
<1>2. GbpXcv(t)
  BY <1>1 DEF GbpXcv, GbpSaid, GbpQuiet
<1>3. \A b : GbpMaySend(s, b) => GbpMaySend(t, b)
  BY <1>1 DEF GbpMaySend, IBlock, RBlock, GbpKnown
<1> QED
  BY <1>1, <1>2, <1>3 DEF t

LEMMA GbpXcvResyncs ==
  ASSUME NEW s, GbpXcv(s), NEW n \in Int
  PROVE  GbpXcv([s EXCEPT !.resyncs = n])
<1> DEFINE t == [s EXCEPT !.resyncs = n]
<1>1. /\ t \in GbpRecord /\ t.out = s.out /\ t.in = s.in /\ t.pc = s.pc /\ t.ret = s.ret
      /\ t.late = s.late /\ t.last = s.last /\ t.exp = s.exp
  BY DEF GbpRecord, GbpXcv
<1> HIDE DEF t
<1>2. GbpXcv(t)
  BY <1>1 DEF GbpXcv, GbpSaid, GbpQuiet
<1> QED
  BY <1>2 DEF t

LEMMA GbpResyncMaySend == Resync \in GbpBlocks /\ \A s : GbpMaySend(s, Resync)
BY DEF GbpMaySend, Resync, Blk, GbpBlocks

LEMMA GbpLoopGood ==
  ASSUME NEW s, GbpXcv(s), NEW b \in GbpBlocks, ~s.late => GbpMaySend(s, b)
  PROVE  GbpGood(GbpLoop(s, b))
<1>1. CASE s.retries = 0 /\ s.resyncs = 0
  BY <1>1, GbpErrorGood DEF GbpLoop, GbpXcv
<1>2. CASE s.retries = 0 /\ s.resyncs # 0
  <2> DEFINE n == s.resyncs - 1
             w == Wrapped(Wrapped(0))
             t == [s EXCEPT !.resyncs = n]
             u == [t EXCEPT !.retries = w]
  <2>1. w \in Nat
    BY GbpWrappedNat
  <2>2. n \in Int
    BY DEF GbpXcv, GbpRecord
  <2>3. GbpXcv(t)
    BY <2>2, GbpXcvResyncs
  <2>4. u = [s EXCEPT !.resyncs = @ - 1, !.retries = Wrapped(Wrapped(0))]
    OBVIOUS
  <2> HIDE DEF t, w
  <2>5. GbpXcv(u)
    BY <2>1, <2>3, GbpXcvRetries
  <2>6. GbpLoop(s, b) = GbpSend(GbpToResync(u), Resync)
    BY <1>2, <2>4 DEF GbpLoop
  <2> HIDE DEF u
  <2>7. GbpXcv(GbpToResync(u))
    BY <2>5, GbpToResyncGood
  <2> QED
    BY <2>6, <2>7, GbpResyncMaySend, GbpSendGood
<1>3. CASE s.retries # 0
  <2> DEFINE w == Wrapped(s.retries)
             t == [s EXCEPT !.retries = w]
  <2>1. w \in Nat
    BY GbpWrappedNat DEF GbpXcv, GbpRecord
  <2>2. GbpXcv(t) /\ (GbpMaySend(s, b) => GbpMaySend(t, b)) /\ t.late = s.late
    BY <2>1, GbpXcvRetries
  <2>3. GbpLoop(s, b) = GbpSend(t, b)
    BY <1>3 DEF GbpLoop
  <2> HIDE DEF t, w
  <2> QED
    BY <2>2, <2>3, GbpSendGood
<1> QED
  BY <1>1, <1>2, <1>3

LEMMA GbpResyncGood ==
  ASSUME NEW s, GbpXcv(s)
  PROVE  GbpGood(GbpResync(s))
<1>1. CASE s.resyncs = 0
  BY <1>1, GbpErrorGood DEF GbpResync, GbpXcv
<1>2. CASE s.resyncs # 0
  <2> DEFINE n == s.resyncs - 1
             t == [s EXCEPT !.resyncs = n]
  <2>1. n \in Int
    BY DEF GbpXcv, GbpRecord
  <2>2. GbpXcv(t)
    BY <2>1, GbpXcvResyncs
  <2>3. GbpResync(s) = GbpLoop(GbpToResync(t), Resync)
    BY <1>2 DEF GbpResync
  <2> HIDE DEF t
  <2>4. GbpXcv(GbpToResync(t))
    BY <2>2, GbpToResyncGood
  <2> QED
    BY <2>3, <2>4, GbpResyncMaySend, GbpLoopGood
<1> QED
  BY <1>1, <1>2

LEMMA GbpTransceiveGood ==
  ASSUME GbpGood(gbp), NEW room \in BOOLEAN, gbp_transceive(room)
  PROVE  GbpGood(gbp')
<1> DEFINE c == 1 - gbp.call
           l == ~GbpClear
           s == [gbp EXCEPT !.pc = "xcv", !.retries = GbpRetries, !.resyncs = GbpResyncs,
                            !.sseq = gbp.ns, !.call = c, !.room = room, !.ret = "none", !.late = l]
<1>0. gbp \in GbpRecord /\ gbp.pc = "idle" /\ GbpSaid(gbp)
  BY DEF GbpGood, gbp_transceive
<1>1. c \in {0, 1} /\ GbpRetries \in Nat /\ GbpResyncs \in Int /\ l \in BOOLEAN
  BY <1>0, GbpAssumption DEF GbpRecord
<1>2. gbp' = IF s.state = "DEAD" THEN GbpLoop(GbpToResync(s), Resync)
                                 ELSE GbpLoop(s, IBlock(s))
  BY DEF gbp_transceive
<1>a. ~l => gbp.in = <<>> /\ gbp.out = <<>> /\ (gbp.state # "DEAD" => gbp.ns = gbp.exp)
  BY DEF GbpClear
<1> HIDE DEF c, l
<1>3. /\ s \in GbpRecord /\ s.out = gbp.out /\ s.in = gbp.in /\ s.pc = "xcv" /\ s.ret = "none"
      /\ s.late = l /\ s.last = gbp.last /\ s.exp = gbp.exp /\ s.ns = gbp.ns
      /\ s.state = gbp.state
  BY <1>0, <1>1 DEF GbpRecord
<1> HIDE DEF s
<1>4. GbpXcv(s)
  BY <1>0, <1>a, <1>3 DEF GbpXcv, GbpSaid, GbpQuiet
<1>5. CASE s.state = "DEAD"
  <2>1. GbpXcv(GbpToResync(s))
    BY <1>4, GbpToResyncGood
  <2> QED
    BY <1>2, <1>5, <2>1, GbpResyncMaySend, GbpLoopGood
<1>6. CASE s.state # "DEAD"
  <2>1. ~s.late => GbpMaySend(s, IBlock(s))
    BY <1>a, <1>3, <1>6 DEF GbpMaySend
  <2>2. IBlock(s) \in GbpBlocks
    BY <1>3, GbpBlocksSent
  <2> QED
    BY <1>2, <1>4, <1>6, <2>1, <2>2, GbpLoopGood
<1> QED
  BY <1>5, <1>6

LEMMA GbpInvalidGood == ASSUME GbpGood(gbp), GbpInvalid PROVE GbpGood(gbp')
<1> DEFINE t == [gbp EXCEPT !.ret = "error"]
<1>1. /\ t \in GbpRecord /\ t.out = gbp.out /\ t.in = gbp.in /\ t.pc = "idle" /\ t.ret = "error"
      /\ t.state = gbp.state /\ t.late = gbp.late /\ t.last = gbp.last /\ t.exp = gbp.exp
      /\ t.ns = gbp.ns
  BY DEF GbpRecord, GbpGood, GbpInvalid
<1>2. gbp' = t /\ gbp.pc = "idle"
  BY DEF GbpInvalid
<1> HIDE DEF t
<1>3. GbpSaid(t)
  BY <1>1 DEF GbpSaid, GbpGood
<1>4. ~t.late => GbpCalm(t)
  BY <1>1, <1>2 DEF GbpCalm, GbpQuiet, GbpOne, GbpGood
<1> QED
  BY <1>1, <1>2, <1>3, <1>4 DEF GbpGood

LEMMA GbpTimeoutGood == ASSUME GbpGood(gbp), GbpTimeout PROVE GbpGood(gbp')
<1> DEFINE l == gbp.late \/ gbp.out # <<>>
           f == IF gbp.out = <<>> THEN gbp.faults ELSE gbp.faults + 1
           e == GbpError(gbp)
           t == [e EXCEPT !.late = l, !.faults = f]
<1>0. gbp \in GbpRecord /\ GbpSaid(gbp) /\ gbp.in = <<>>
  BY DEF GbpGood, GbpTimeout
<1>1. l \in BOOLEAN /\ f \in Nat
  BY <1>0 DEF GbpRecord
<1>2. e \in GbpRecord /\ e.late = gbp.late /\ e.faults = gbp.faults
  BY <1>0 DEF GbpRecord, GbpError
<1>3. gbp' = t
  BY <1>2 DEF GbpTimeout
<1>4. /\ e.out = gbp.out /\ e.in = <<>> /\ e.pc = "idle" /\ e.ret = "error" /\ e.state = "DEAD"
      /\ e.last = gbp.last /\ e.exp = gbp.exp
  BY <1>0 DEF GbpRecord, GbpError
<1>a. l <=> gbp.late \/ gbp.out # <<>>
  OBVIOUS
<1> HIDE DEF e, l, f
<1>5. /\ t \in GbpRecord /\ t.out = e.out /\ t.in = e.in /\ t.pc = e.pc /\ t.ret = e.ret
      /\ t.state = e.state /\ t.last = e.last /\ t.exp = e.exp /\ t.late = l
  BY <1>1, <1>2 DEF GbpRecord
<1> HIDE DEF t
<1>6. GbpSaid(t)
  BY <1>0, <1>4, <1>5 DEF GbpSaid
<1>7. ~t.late => GbpCalm(t)
  BY <1>4, <1>5, <1>a DEF GbpCalm, GbpQuiet, GbpOne
<1> QED
  BY <1>3, <1>4, <1>5, <1>6, <1>7 DEF GbpGood

LEMMA GbpLastOne ==
  ASSUME NEW q \in Seq(GbpBlocks), q # <<>>, Len(q) = 1
  PROVE  Tail(q) = <<>>
<1>1. Tail(q) \in Seq(GbpBlocks) /\ Len(Tail(q)) = 0
  OBVIOUS
<1>2. \A r \in Seq(GbpBlocks) : Len(r) = 0 => r = <<>>
  OBVIOUS
<1> QED
  BY <1>1, <1>2

(* The block on the line, once taken off it. *)
LEMMA GbpTaken ==
  ASSUME GbpGood(gbp), gbp.in # <<>>,
         NEW b, b = Head(gbp.in), NEW s, s = [gbp EXCEPT !.in = Tail(@)]
  PROVE  /\ s \in GbpRecord /\ b \in GbpBlocks /\ GbpSaid(s)
         /\ s.pc = gbp.pc /\ s.ret = gbp.ret /\ s.late = gbp.late /\ s.state = gbp.state
         /\ s.retries = gbp.retries /\ s.ns = gbp.ns
         /\ ~s.late => GbpQuiet(s) /\ (b.k = "bad" \/ b = s.last)
         /\ ~s.late /\ s.pc = "xcv" => GbpKnown(s)
<1> DEFINE q == gbp.in
           r == Tail(q)
<1>0. gbp \in GbpRecord /\ q \in Seq(GbpBlocks)
  BY DEF GbpGood, GbpRecord
<1>1. r \in Seq(GbpBlocks) /\ b \in GbpBlocks /\ b = q[1] /\ (Len(q) = 1 => r = <<>>)
  <2> HIDE DEF q
  <2>1. q # <<>>
    BY DEF q
  <2>2. r \in Seq(GbpBlocks) /\ Head(q) \in GbpBlocks /\ Head(q) = q[1]
    BY <1>0, <2>1
  <2>3. Len(q) = 1 => r = <<>>
    BY <1>0, <2>1, GbpLastOne
  <2> QED
    BY <2>2, <2>3 DEF q
<1>2. s = [gbp EXCEPT !.in = r]
  OBVIOUS
<1> HIDE DEF r, q
<1>3. /\ s \in GbpRecord /\ s.out = gbp.out /\ s.in = r /\ s.pc = gbp.pc /\ s.ret = gbp.ret
      /\ s.late = gbp.late /\ s.last = gbp.last /\ s.exp = gbp.exp /\ s.ns = gbp.ns
      /\ s.call = gbp.call /\ s.state = gbp.state /\ s.retries = gbp.retries
  BY <1>0, <1>1, <1>2 DEF GbpRecord
<1>4. GbpSaid(s)
  BY <1>3 DEF GbpSaid, GbpGood
<1>5. ~s.late => GbpQuiet(s) /\ (b.k = "bad" \/ b = s.last)
  BY <1>1, <1>3 DEF GbpGood, GbpCalm, GbpOne, GbpQuiet, q
<1>6. ~s.late /\ s.pc = "xcv" => GbpKnown(s)
  BY <1>3 DEF GbpGood, GbpCalm, GbpKnown
<1> QED
  BY <1>1, <1>3, <1>4, <1>5, <1>6

(* What the loop has when a block has come. *)
GbpCame(s, b) == /\ GbpXcv(s) /\ b \in GbpBlocks
                 /\ ~s.late => GbpKnown(s) /\ (b.k = "bad" \/ b = s.last)

LEMMA GbpAnyGood ==
  ASSUME NEW s, GbpXcv(s), ~s.late => GbpKnown(s)
  PROVE  GbpGood(GbpLoop(s, RBlock(s))) /\ GbpGood(GbpLoop(s, IBlock(s)))
<1>1. IBlock(s) \in GbpBlocks /\ RBlock(s) \in GbpBlocks
  BY GbpBlocksSent DEF GbpXcv
<1>2. ~s.late => GbpMaySend(s, IBlock(s)) /\ GbpMaySend(s, RBlock(s))
  BY DEF GbpMaySend
<1> QED
  BY <1>1, <1>2, GbpLoopGood

LEMMA GbpAnswerGood ==
  ASSUME NEW s, NEW b, GbpCame(s, b), b.k = "I"
  PROVE  GbpGood(GbpAnswer(s, b))
<1>1. CASE b.seq # s.sseq
  BY <1>1, GbpAnyGood DEF GbpAnswer, GbpCame
<1>2. CASE b.seq = s.sseq
  <2> DEFINE n == 1 - s.ns
             t == [s EXCEPT !.ns = n]
  <2>0. s \in GbpRecord /\ b \in GbpBlocks
    BY DEF GbpCame, GbpXcv
  <2>1. n \in {0, 1}
    BY <2>0 DEF GbpRecord
  <2>2. GbpAnswer(s, b) = IF s.room THEN [t EXCEPT !.pc = "idle", !.ret = "ok", !.ans = b.of]
                                    ELSE GbpError(t)
    BY <1>2 DEF GbpAnswer
  <2> HIDE DEF n
  <2>3. /\ t \in GbpRecord /\ t.out = s.out /\ t.in = s.in /\ t.pc = s.pc /\ t.ret = s.ret
        /\ t.late = s.late /\ t.last = s.last /\ t.exp = s.exp /\ t.ns = n /\ t.call = s.call
    BY <2>0, <2>1 DEF GbpRecord
  <2> HIDE DEF t
  <2>4. GbpSaid(t) /\ (~t.late => GbpQuiet(t))
    BY <2>3 DEF GbpSaid, GbpCame, GbpXcv, GbpQuiet
  <2>5. GbpGood(GbpError(t))
    BY <2>3, <2>4, GbpErrorGood
  <2>6. GbpGood([t EXCEPT !.pc = "idle", !.ret = "ok", !.ans = b.of])
    <3> DEFINE u == [t EXCEPT !.pc = "idle", !.ret = "ok", !.ans = b.of]
    <3>1. b.of \in {0, 1} /\ b.seq \in {0, 1}
      BY <2>0 DEF GbpBlocks
    <3>2. /\ u \in GbpRecord /\ u.out = t.out /\ u.in = t.in /\ u.pc = "idle" /\ u.ret = "ok"
          /\ u.late = t.late /\ u.last = t.last /\ u.exp = t.exp /\ u.ns = t.ns
          /\ u.call = t.call /\ u.ans = b.of
      BY <2>3, <3>1 DEF GbpRecord
    <3> HIDE DEF u
    <3>3. GbpSaid(u)
      BY <2>4, <3>2 DEF GbpSaid
    <3>4. ASSUME ~u.late PROVE GbpCalm(u)
      <4>1. b = s.last /\ GbpKnown(s) /\ GbpSaid(s) /\ GbpQuiet(u)
        BY <2>3, <2>4, <3>2, <3>4 DEF GbpCame, GbpXcv, GbpQuiet
      <4>2. b.of = s.call /\ b.seq = s.ns /\ s.exp = 1 - b.seq
        BY <4>1 DEF GbpKnown, GbpSaid
      <4>3. u.ns = u.exp /\ u.ans = u.call
        BY <2>3, <3>2, <4>2 DEF n
      <4> QED
        BY <3>2, <4>1, <4>3 DEF GbpCalm, GbpQuiet, GbpOne
    <3>5. GbpGood(u)
      BY <3>2, <3>3, <3>4 DEF GbpGood
    <3> QED
      BY <3>5 DEF u
  <2> QED
    BY <2>2, <2>5, <2>6
<1> QED
  BY <1>1, <1>2

LEMMA GbpRepeatGood ==
  ASSUME NEW s, NEW b, GbpCame(s, b)
  PROVE  GbpGood(GbpRepeat(s, b))
<1>1. CASE b.seq # s.ns
  BY <1>1, GbpAnyGood DEF GbpRepeat, GbpCame
<1>2. CASE b.seq = s.ns
  <2> DEFINE t == [s EXCEPT !.retries = GbpRetries]
  <2>1. GbpXcv(t) /\ t.late = s.late
    BY GbpXcvRetries, GbpAssumption DEF GbpCame
  <2>2. t.ns = s.ns /\ t.call = s.call /\ t.last = s.last
    BY DEF GbpCame, GbpXcv, GbpRecord
  <2>3. GbpRepeat(s, b) = GbpLoop(t, IBlock(s))
    BY <1>2 DEF GbpRepeat
  <2> HIDE DEF t
  <2>4. IBlock(s) = IBlock(t) /\ (~t.late => GbpKnown(t))
    BY <2>1, <2>2 DEF IBlock, GbpCame, GbpKnown
  <2> QED
    BY <2>1, <2>3, <2>4, GbpAnyGood
<1> QED
  BY <1>1, <1>2

LEMMA GbpSBlockGood ==
  ASSUME NEW s, NEW b, GbpCame(s, b)
  PROVE  GbpGood(GbpSBlock(s))
<1>1. CASE s.state # "RESYNCH"
  BY <1>1, GbpResyncGood DEF GbpSBlock, GbpCame
<1>2. CASE s.state = "RESYNCH"
  <2> DEFINE t == [s EXCEPT !.state = "ALIVE", !.retries = GbpRetries, !.resyncs = GbpResyncs]
  <2>1. GbpSBlock(s) = GbpLoop(t, IBlock(s))
    BY <1>2 DEF GbpSBlock
  <2>2. GbpRetries \in Nat /\ GbpResyncs \in Int
    BY GbpAssumption
  <2>3. /\ t \in GbpRecord /\ t.out = s.out /\ t.in = s.in /\ t.pc = s.pc /\ t.ret = s.ret
        /\ t.late = s.late /\ t.last = s.last /\ t.exp = s.exp /\ t.ns = s.ns /\ t.call = s.call
    BY <2>2 DEF GbpRecord, GbpCame, GbpXcv
  <2> HIDE DEF t
  <2>4. GbpXcv(t)
    BY <2>3 DEF GbpXcv, GbpCame, GbpSaid, GbpQuiet
  <2>5. IBlock(s) = IBlock(t) /\ (~t.late => GbpKnown(t))
    BY <2>3 DEF IBlock, GbpCame, GbpKnown
  <2> QED
    BY <2>1, <2>4, <2>5, GbpAnyGood
<1> QED
  BY <1>1, <1>2

LEMMA GbpReceiveGood == ASSUME GbpGood(gbp), GbpReceive PROVE GbpGood(gbp')
<1> DEFINE b == Head(gbp.in)
           s == [gbp EXCEPT !.in = Tail(@)]
<1>1. gbp.pc = "xcv" /\ gbp.in # <<>>
  BY DEF GbpReceive
<1>2. gbp' = CASE b.k = "bad" -> GbpLoop(s, RBlock(s))
                    [] b.k = "I" -> GbpAnswer(s, b)
                    [] b.k = "R" -> GbpRepeat(s, b)
                    [] b.k = "S" -> GbpSBlock(s)
  BY DEF GbpReceive
<1>3. /\ s \in GbpRecord /\ b \in GbpBlocks /\ GbpSaid(s)
      /\ s.pc = gbp.pc /\ s.ret = gbp.ret /\ s.late = gbp.late
      /\ ~s.late => GbpQuiet(s) /\ (b.k = "bad" \/ b = s.last)
      /\ ~s.late /\ s.pc = "xcv" => GbpKnown(s)
  BY <1>1, GbpTaken
<1> HIDE DEF b, s
<1>4. GbpCame(s, b)
  BY <1>1, <1>3 DEF GbpCame, GbpXcv, GbpGood
<1>5. b.k \in {"I", "R", "S", "bad"}
  BY <1>3 DEF GbpBlocks
<1>6. CASE b.k = "bad"
  BY <1>2, <1>4, <1>6, GbpAnyGood DEF GbpCame
<1>7. CASE b.k = "I"
  BY <1>2, <1>4, <1>7, GbpAnswerGood
<1>8. CASE b.k = "R"
  BY <1>2, <1>4, <1>8, GbpRepeatGood
<1>9. CASE b.k = "S"
  BY <1>2, <1>4, <1>9, GbpSBlockGood
<1> QED
  BY <1>5, <1>6, <1>7, <1>8, <1>9

LEMMA GbpFirstOne ==
  ASSUME NEW b \in GbpBlocks
  PROVE  /\ Append(<<>>, b) = <<b>> /\ <<b>> \in Seq(GbpBlocks)
         /\ Len(<<b>>) = 1 /\ <<b>>[1] = b /\ <<b>> # <<>>
<1>0. <<>> \in Seq(GbpBlocks) /\ Len(<<>>) = 0
  OBVIOUS
<1>1. Len(<<b>>) = 1 /\ <<b>>[1] = b
  OBVIOUS
<1>2. <<b>> # <<>>
  BY <1>0, <1>1
<1>3. Append(<<>>, b) = <<b>> /\ <<b>> \in Seq(GbpBlocks)
  OBVIOUS
<1> QED
  BY <1>1, <1>2, <1>3

LEMMA GbpResynchronizeGood == ASSUME GbpGood(gbp), gbp_resynchronize PROVE GbpGood(gbp')
<1> DEFINE o == Append(gbp.out, Resync)
           l == gbp.late /\ gbp.out # <<>>
           n == <<>>
           t == [gbp EXCEPT !.out = o, !.pc = "rsy", !.ns = 0, !.retries = 2, !.in = n,
                            !.late = l, !.ret = "none"]
<1>0. gbp \in GbpRecord /\ gbp.pc = "idle" /\ GbpSaid(gbp)
  BY DEF GbpGood, gbp_resynchronize
<1>1. Resync \in GbpBlocks
  BY DEF Resync, Blk, GbpBlocks
<1>2. o \in Seq(GbpBlocks) /\ l \in BOOLEAN /\ n \in Seq(GbpBlocks)
  BY <1>0, <1>1 DEF GbpRecord
<1>3. gbp' = t
  <2> DEFINE c == GbpSend(gbp, Resync)
  <2>1. c = [gbp EXCEPT !.out = o] /\ c.late = gbp.late
    BY <1>0 DEF GbpSend, GbpRecord
  <2>2. gbp' = [c EXCEPT !.pc = "rsy", !.ns = 0, !.retries = 2, !.in = n, !.late = l, !.ret = "none"]
    BY <2>1 DEF gbp_resynchronize
  <2> HIDE DEF c, o, l, n
  <2> QED
    BY <2>1, <2>2, <1>0 DEF GbpRecord
<1>4. ~l => o = <<Resync>> /\ Len(o) = 1 /\ o # <<>>
  <2>1. ~l => gbp.out = <<>>
    BY <1>0 DEF GbpGood, GbpCalm, GbpQuiet
  <2> QED
    BY <1>1, <2>1, GbpFirstOne
<1>5. n = <<>>
  OBVIOUS
<1> HIDE DEF o, l, n
<1>6. /\ t \in GbpRecord /\ t.out = o /\ t.in = n /\ t.pc = "rsy" /\ t.ret = "none"
      /\ t.late = l /\ t.last = gbp.last /\ t.exp = gbp.exp /\ t.ns = 0
  BY <1>0, <1>2 DEF GbpRecord
<1> HIDE DEF t
<1>7. GbpSaid(t)
  BY <1>0, <1>6 DEF GbpSaid
<1>8. ~t.late => GbpCalm(t)
  BY <1>4, <1>5, <1>6 DEF GbpCalm, GbpOne
<1> QED
  BY <1>3, <1>6, <1>7, <1>8 DEF GbpGood

LEMMA GbpResyncStepGood == ASSUME GbpGood(gbp), GbpResyncStep PROVE GbpGood(gbp')
<1> DEFINE b == Head(gbp.in)
           s == [gbp EXCEPT !.in = Tail(@)]
<1>1. gbp.pc = "rsy" /\ gbp.in # <<>>
  BY DEF GbpResyncStep
<1>2. gbp' = IF b.k = "S" THEN [s EXCEPT !.pc = "idle", !.state = "ALIVE"]
             ELSE IF gbp.retries = 0 \/ b.k = "I" THEN GbpError(s)
             ELSE GbpSend([s EXCEPT !.retries = @ - 1], Resync)
  BY DEF GbpResyncStep
<1>3. /\ s \in GbpRecord /\ b \in GbpBlocks /\ GbpSaid(s)
      /\ s.pc = "rsy" /\ s.ret = gbp.ret /\ s.late = gbp.late
      /\ s.retries = gbp.retries /\ s.ns = gbp.ns
      /\ ~s.late => GbpQuiet(s) /\ (b.k = "bad" \/ b = s.last)
  BY <1>1, GbpTaken
<1> HIDE DEF b, s
<1>4. s.ret = "none" /\ (~s.late => s.ns = 0)
  BY <1>1, <1>3 DEF GbpGood, GbpCalm
<1>5. CASE b.k = "S"
  <2> DEFINE t == [s EXCEPT !.pc = "idle", !.state = "ALIVE"]
  <2>1. /\ t \in GbpRecord /\ t.out = s.out /\ t.in = s.in /\ t.pc = "idle" /\ t.ret = s.ret
        /\ t.late = s.late /\ t.last = s.last /\ t.exp = s.exp /\ t.ns = s.ns
    BY <1>3 DEF GbpRecord
  <2>2. gbp' = t
    BY <1>2, <1>5
  <2> HIDE DEF t
  <2>3. GbpSaid(t)
    BY <1>3, <2>1 DEF GbpSaid
  <2>4. ~t.late => t.ns = t.exp
    BY <1>3, <1>4, <1>5, <2>1 DEF GbpSaid
  <2>5. ~t.late => GbpCalm(t)
    BY <1>3, <1>4, <2>1, <2>4 DEF GbpCalm, GbpQuiet, GbpOne
  <2> QED
    BY <2>1, <2>2, <2>3, <2>5 DEF GbpGood
<1>6. CASE b.k # "S" /\ (gbp.retries = 0 \/ b.k = "I")
  BY <1>2, <1>3, <1>6, GbpErrorGood
<1>7. CASE b.k # "S" /\ ~(gbp.retries = 0 \/ b.k = "I")
  <2> DEFINE o == Append(s.out, Resync)
             n == s.retries - 1
             t == [s EXCEPT !.retries = n, !.out = o]
  <2>1. Resync \in GbpBlocks
    BY DEF Resync, Blk, GbpBlocks
  <2>2. o \in Seq(GbpBlocks)
    BY <1>3, <2>1 DEF GbpRecord
  <2>3. n \in Nat
    BY <1>3, <1>7 DEF GbpRecord
  <2>4. gbp' = t
    BY <1>2, <1>3, <1>7 DEF GbpSend, GbpRecord
  <2>5. ~s.late => o = <<Resync>> /\ Len(o) = 1 /\ o # <<>>
    BY <1>3, <2>1, GbpFirstOne DEF GbpQuiet
  <2> HIDE DEF o, n
  <2>6. /\ t \in GbpRecord /\ t.out = o /\ t.in = s.in /\ t.pc = "rsy" /\ t.ret = s.ret
        /\ t.late = s.late /\ t.last = s.last /\ t.exp = s.exp /\ t.ns = s.ns
    BY <1>3, <2>2, <2>3 DEF GbpRecord
  <2> HIDE DEF t
  <2>7. GbpSaid(t)
    BY <1>3, <2>6 DEF GbpSaid
  <2>8. ~t.late => GbpCalm(t)
    BY <1>3, <1>4, <2>5, <2>6 DEF GbpCalm, GbpQuiet, GbpOne
  <2> QED
    BY <2>4, <2>6, <2>7, <2>8, <1>4 DEF GbpGood
<1> QED
  BY <1>5, <1>6, <1>7

(* What the reader says, and the number it then expects. *)
GbpSays(b, e) ==
    /\ b.k # "bad" /\ (b.k = "I" => e = 1 - b.seq) /\ (b.k = "R" => e = b.seq)
    /\ b.k = "S" => e = 0

LEMMA GbpSayGood ==
  ASSUME GbpGood(gbp), gbp.out # <<>>, NEW b \in GbpBlocks, NEW e \in {0, 1}, GbpSay(b, e),
         GbpSays(b, e),
         ~gbp.late /\ gbp.pc = "xcv" => (b.k = "I" => b.of = gbp.call /\ b.seq = gbp.ns)
  PROVE  GbpGood(gbp')
<1> DEFINE o == Tail(gbp.out)
           n == Append(gbp.in, b)
           t == [gbp EXCEPT !.out = o, !.last = b, !.in = n, !.exp = e]
<1>0. gbp \in GbpRecord /\ gbp.out \in Seq(GbpBlocks)
  BY DEF GbpGood, GbpRecord
<1>1. o \in Seq(GbpBlocks) /\ n \in Seq(GbpBlocks)
  BY <1>0 DEF GbpRecord
<1>2. gbp' = t
  BY DEF GbpSay
<1>3. ~gbp.late => o = <<>> /\ n = <<b>> /\ Len(n) = 1 /\ n[1] = b /\ n # <<>> /\ gbp.pc # "idle"
  <2>1. ~gbp.late => gbp.in = <<>> /\ Len(gbp.out) = 1 /\ gbp.pc # "idle"
    BY DEF GbpGood, GbpCalm, GbpOne, GbpQuiet
  <2> QED
    BY <1>0, <2>1, GbpFirstOne, GbpLastOne
<1> HIDE DEF o, n
<1>4. /\ t \in GbpRecord /\ t.out = o /\ t.in = n /\ t.pc = gbp.pc /\ t.ret = gbp.ret
      /\ t.late = gbp.late /\ t.last = b /\ t.exp = e /\ t.ns = gbp.ns /\ t.call = gbp.call
      /\ t.ans = gbp.ans
  BY <1>0, <1>1 DEF GbpRecord
<1> HIDE DEF t
<1>5. GbpSaid(t)
  BY <1>4 DEF GbpSaid, GbpSays
<1>6. ASSUME ~t.late PROVE GbpCalm(t)
  <2>1. GbpOne(t)
    BY <1>3, <1>4, <1>6 DEF GbpOne
  <2>2. t.pc = "xcv" => GbpKnown(t)
    BY <1>4, <1>6 DEF GbpKnown
  <2>3. t.pc = "rsy" => t.ns = 0
    BY <1>4, <1>6 DEF GbpGood, GbpCalm
  <2> QED
    BY <1>3, <1>4, <1>6, <2>1, <2>2, <2>3 DEF GbpCalm, GbpGood
<1> QED
  BY <1>2, <1>4, <1>5, <1>6 DEF GbpGood

LEMMA GbpReaderGood == ASSUME GbpGood(gbp), GbpReader PROVE GbpGood(gbp')
<1> DEFINE b == Head(gbp.out)
<1>0. /\ gbp \in GbpRecord /\ gbp.out \in Seq(GbpBlocks) /\ gbp.out # <<>> /\ GbpSaid(gbp)
      /\ gbp.exp \in {0, 1} /\ gbp.last \in GbpBlocks
  BY DEF GbpGood, GbpRecord, GbpReader
<1>1. b \in GbpBlocks /\ b = gbp.out[1]
  BY <1>0
<1>2. \/ b.k = "bad" /\ GbpSay(Blk("R", gbp.exp, 0), gbp.exp)
      \/ b.k = "R" /\ GbpSay(gbp.last, gbp.exp)
      \/ b.k = "I" /\ b.seq # gbp.exp /\ GbpSay(gbp.last, gbp.exp)
      \/ b.k = "I" /\ b.seq = gbp.exp /\ GbpSay(b, 1 - gbp.exp)
      \/ b.k = "S" /\ GbpSay(b, 0)
  BY DEF GbpReader
<1> HIDE DEF b
<1>3. b.seq \in {0, 1} /\ b.of \in {0, 1} /\ 1 - gbp.exp \in {0, 1} /\ 0 \in {0, 1}
  BY <1>0, <1>1 DEF GbpBlocks
<1>4. GbpSays(gbp.last, gbp.exp)
  BY <1>0 DEF GbpSaid, GbpSays
<1>5. ~gbp.late /\ gbp.pc = "xcv" =>
        /\ b.k = "R" => GbpKnown(gbp)
        /\ b.k = "I" => b = IBlock(gbp) /\ (GbpKnown(gbp) \/ b.seq = gbp.exp)
  <2>1. SUFFICES ASSUME ~gbp.late /\ gbp.pc = "xcv", b.k \in {"R", "I"}
                 PROVE  /\ b.k = "R" => GbpKnown(gbp)
                        /\ b.k = "I" => b = IBlock(gbp) /\ (GbpKnown(gbp) \/ b.seq = gbp.exp)
    OBVIOUS
  <2>2. /\ b \in {IBlock(gbp), RBlock(gbp)}
        /\ GbpKnown(gbp) \/ (b = IBlock(gbp) /\ gbp.ns = gbp.exp)
    BY <1>0, <1>1, <2>1 DEF GbpGood, GbpCalm
  <2>3. IBlock(gbp).k = "I" /\ RBlock(gbp).k = "R" /\ IBlock(gbp).seq = gbp.ns
    BY DEF IBlock, RBlock, Blk
  <2> QED
    BY <2>1, <2>2, <2>3
<1>6. CASE b.k = "bad" /\ GbpSay(Blk("R", gbp.exp, 0), gbp.exp)
  <2> DEFINE r == Blk("R", gbp.exp, 0)
  <2>1. r \in GbpBlocks /\ GbpSays(r, gbp.exp) /\ r.k = "R"
    BY <1>0 DEF Blk, GbpBlocks, GbpSays
  <2> HIDE DEF r
  <2>2. GbpSay(r, gbp.exp)
    BY <1>6 DEF r
  <2> QED
    BY <1>0, <2>1, <2>2, GbpSayGood
<1>7. CASE GbpSay(gbp.last, gbp.exp) /\ (b.k = "R" \/ (b.k = "I" /\ b.seq # gbp.exp))
  <2>1. ~gbp.late /\ gbp.pc = "xcv" => GbpKnown(gbp)
    BY <1>5, <1>7
  <2> QED
    BY <1>0, <1>4, <1>7, <2>1, GbpSayGood DEF GbpKnown
<1>8. CASE b.k = "I" /\ b.seq = gbp.exp /\ GbpSay(b, 1 - gbp.exp)
  <2>1. GbpSays(b, 1 - gbp.exp)
    BY <1>8 DEF GbpSays
  <2>2. ~gbp.late /\ gbp.pc = "xcv" => b.of = gbp.call /\ b.seq = gbp.ns
    BY <1>5, <1>8 DEF IBlock, Blk
  <2> QED
    BY <1>0, <1>1, <1>3, <1>8, <2>1, <2>2, GbpSayGood
<1>9. CASE b.k = "S" /\ GbpSay(b, 0)
  <2>1. GbpSays(b, 0)
    BY <1>9 DEF GbpSays
  <2> QED
    BY <1>0, <1>1, <1>3, <1>9, <2>1, GbpSayGood
<1> QED
  BY <1>2, <1>6, <1>7, <1>8, <1>9

(* Only the line has changed, and what it carries is damaged or lost. *)
GbpRest(s, t) ==
    /\ t \in GbpRecord /\ t.pc = s.pc /\ t.ret = s.ret /\ t.late = s.late /\ t.last = s.last
    /\ t.exp = s.exp /\ t.ns = s.ns /\ t.call = s.call /\ t.ans = s.ans /\ t.state = s.state

LEMMA GbpDamageGood == ASSUME GbpGood(gbp), GbpDamage PROVE GbpGood(gbp')
<1> DEFINE o == [gbp.out EXCEPT ![1].k = "bad"]
           n == [gbp.in EXCEPT ![1].k = "bad"]
           r == Tail(gbp.in)
           f == gbp.faults + 1
<1>0. gbp \in GbpRecord /\ gbp.out \in Seq(GbpBlocks) /\ gbp.in \in Seq(GbpBlocks) /\ f \in Nat
  BY DEF GbpGood, GbpRecord
<1>1. \A q \in Seq(GbpBlocks) : q # <<>> =>
        LET p == [q EXCEPT ![1].k = "bad"]
        IN  p \in Seq(GbpBlocks) /\ Len(p) = Len(q) /\ p[1].k = "bad" /\ p # <<>>
  <2>1. SUFFICES ASSUME NEW q \in Seq(GbpBlocks), q # <<>>
                 PROVE  LET p == [q EXCEPT ![1].k = "bad"]
                        IN  p \in Seq(GbpBlocks) /\ Len(p) = Len(q) /\ p[1].k = "bad" /\ p # <<>>
    OBVIOUS
  <2> DEFINE d == [q[1] EXCEPT !.k = "bad"]
             p == [q EXCEPT ![1] = d]
  <2>2. Len(q) \in Nat /\ Len(q) >= 1 /\ q[1] \in GbpBlocks
    BY <2>1
  <2>3. d \in GbpBlocks /\ d.k = "bad"
    BY <2>2 DEF GbpBlocks
  <2> HIDE DEF d
  <2>4. p \in Seq(GbpBlocks) /\ Len(p) = Len(q) /\ p[1] = d
    BY <2>2, <2>3
  <2>5. p # <<>>
    BY <2>2, <2>4
  <2>6. p = [q EXCEPT ![1].k = "bad"]
    BY DEF d
  <2> QED
    BY <2>3, <2>4, <2>5, <2>6
<1>2. CASE gbp.out # <<>> /\ gbp' = [gbp EXCEPT !.faults = f, !.out = o]
  <2> DEFINE t == [gbp EXCEPT !.faults = f, !.out = o]
  <2>1. o \in Seq(GbpBlocks) /\ Len(o) = Len(gbp.out) /\ o[1].k = "bad" /\ o # <<>>
    BY <1>0, <1>1, <1>2
  <2> HIDE DEF o, f
  <2>2. GbpRest(gbp, t) /\ t.out = o /\ t.in = gbp.in
    BY <1>0, <2>1 DEF GbpRecord, GbpRest
  <2> HIDE DEF t
  <2>3. gbp' = t
    BY <1>2 DEF t
  <2>4. GbpSaid(t)
    BY <2>2 DEF GbpSaid, GbpGood, GbpRest
  <2>5. ~t.late => GbpCalm(t)
    BY <1>2, <2>1, <2>2 DEF GbpCalm, GbpOne, GbpQuiet, GbpRest, GbpGood, GbpKnown
  <2> QED
    BY <2>2, <2>3, <2>4, <2>5 DEF GbpGood, GbpRest
<1>3. CASE gbp.in # <<>> /\ gbp' = [gbp EXCEPT !.faults = f, !.in = n]
  <2> DEFINE t == [gbp EXCEPT !.faults = f, !.in = n]
  <2>1. n \in Seq(GbpBlocks) /\ Len(n) = Len(gbp.in) /\ n[1].k = "bad" /\ n # <<>>
    BY <1>0, <1>1, <1>3
  <2> HIDE DEF n, f
  <2>2. GbpRest(gbp, t) /\ t.in = n /\ t.out = gbp.out
    BY <1>0, <2>1 DEF GbpRecord, GbpRest
  <2> HIDE DEF t
  <2>3. gbp' = t
    BY <1>3 DEF t
  <2>4. GbpSaid(t)
    BY <2>2 DEF GbpSaid, GbpGood, GbpRest
  <2>5. ~t.late => GbpCalm(t)
    BY <1>3, <2>1, <2>2 DEF GbpCalm, GbpOne, GbpQuiet, GbpRest, GbpGood, GbpKnown
  <2> QED
    BY <2>2, <2>3, <2>4, <2>5 DEF GbpGood, GbpRest
<1>4. CASE gbp.in # <<>> /\ gbp' = [gbp EXCEPT !.faults = f, !.in = r]
  <2> DEFINE t == [gbp EXCEPT !.faults = f, !.in = r]
  <2>1. r \in Seq(GbpBlocks) /\ (Len(gbp.in) = 1 => r = <<>>)
    BY <1>0, <1>4, GbpLastOne
  <2> HIDE DEF r, f
  <2>2. GbpRest(gbp, t) /\ t.in = r /\ t.out = gbp.out
    BY <1>0, <2>1 DEF GbpRecord, GbpRest
  <2> HIDE DEF t
  <2>3. gbp' = t
    BY <1>4 DEF t
  <2>4. GbpSaid(t)
    BY <2>2 DEF GbpSaid, GbpGood, GbpRest
  <2>5. ~t.late => GbpCalm(t)
    BY <1>4, <2>1, <2>2 DEF GbpCalm, GbpOne, GbpQuiet, GbpRest, GbpGood, GbpKnown
  <2> QED
    BY <2>2, <2>3, <2>4, <2>5 DEF GbpGood, GbpRest
<1> QED
  BY <1>2, <1>3, <1>4 DEF GbpDamage

LEMMA GbpInitGood == GbpInit => GbpGood(gbp)
<1> DEFINE n == <<>>
           t == [state |-> "ALIVE", ns |-> 0, sseq |-> 0, retries |-> 0, resyncs |-> 0, pc |-> "idle",
                 room |-> TRUE, call |-> 0, ans |-> 0, ret |-> "none", out |-> n, in |-> n,
                 exp |-> 0, last |-> Resync, late |-> FALSE, faults |-> 0]
<1>1. SUFFICES ASSUME GbpInit PROVE GbpGood(gbp)
  OBVIOUS
<1>2. gbp = t
  BY <1>1 DEF GbpInit
<1>3. n \in Seq(GbpBlocks) /\ n = <<>>
  OBVIOUS
<1>4. Resync \in GbpBlocks /\ Resync.k = "S"
  BY DEF Resync, Blk, GbpBlocks
<1> HIDE DEF n
<1>5. /\ t \in GbpRecord /\ t.out = n /\ t.in = n /\ t.pc = "idle" /\ t.ret = "none"
      /\ t.last = Resync /\ t.exp = 0 /\ t.ns = 0
  BY <1>3, <1>4 DEF GbpRecord
<1> HIDE DEF t
<1>6. GbpSaid(t)
  BY <1>4, <1>5 DEF GbpSaid
<1>7. GbpCalm(t)
  BY <1>3, <1>5 DEF GbpCalm, GbpQuiet, GbpOne
<1> QED
  BY <1>2, <1>5, <1>6, <1>7 DEF GbpGood

LEMMA GbpNextGood == GbpGood(gbp) /\ GbpNext => GbpGood(gbp')
<1>1. SUFFICES ASSUME GbpGood(gbp), GbpNext PROVE GbpGood(gbp')
  OBVIOUS
<1>2. ASSUME NEW room \in BOOLEAN, gbp_transceive(room) PROVE GbpGood(gbp')
  BY <1>1, <1>2, GbpTransceiveGood
<1>3. CASE GbpInvalid \/ gbp_resynchronize
  BY <1>1, <1>3, GbpInvalidGood, GbpResynchronizeGood
<1>4. CASE GbpStep
  BY <1>1, <1>4, GbpReceiveGood, GbpTimeoutGood, GbpResyncStepGood DEF GbpStep
<1>5. CASE GbpReader \/ GbpDamage
  BY <1>1, <1>5, GbpReaderGood, GbpDamageGood
<1> QED
  BY <1>1, <1>2, <1>3, <1>4, <1>5 DEF GbpNext

LEMMA GbpGoodSuffices == GbpGood(gbp) => GbpAnswerIsOwn /\ GbpSeqAgree
BY DEF GbpGood, GbpCalm, GbpAnswerIsOwn, GbpSeqAgree

-----------------------------------------------------------------------------
(* T=0: T0Good *)

T0Kinds == {"null", "ack", "nack", "data", "sw2", "sw61", "sw6x", "sw9x"}
T0Sws == {"sw61", "sw6x", "sw9x"}
T0Bytes == [is : T0Kinds, of : Nat, i : Nat]
T0Heads == [is : {"head"}, of : Nat, lc : 0 .. T0Lc, le : 0 .. T0Le]
T0Datas == [is : {"data"}, n : 0 .. T0Lc]
T0Sent == T0Heads \cup T0Datas
T0Crd == [busy : BOOLEAN, of : Nat, data : 0 .. T0Lc, owed : 0 .. T0Le, done : Nat,
          crossed : BOOLEAN]

T0Record ==
    [state : {"IDLE", "SENDING", "RECEIVING", "CONFUSED"}, block : BOOLEAN,
     pc : {"idle", "proc", "data", "sw2"}, cse : 1 .. 4, le : 0 .. T0Le, room : 2 .. T0Le + 3,
     rlen : 2 .. T0Le + 3, sbuf : 0 .. T0Lc, rbuf : Seq(T0Bytes), past : BOOLEAN, nulls : 0 .. MaxNulls, want : Nat,
     ret : {"none", "ok", "error"}, call : Nat, out : Seq(T0Sent), in : Seq(T0Bytes), late : Nat,
     slipped : BOOLEAN, dirty : BOOLEAN, crd : T0Crd]

(* The buffer has room for what is being received, and the card owes at
   least what it has sent. *)
T0Room(s) ==
    /\ s.pc # "idle" => s.state \in {"SENDING", "RECEIVING"}
    /\ Len(s.rbuf) <= s.rlen
    /\ s.pc = "proc" => Len(s.rbuf) < s.rlen
    /\ s.pc = "sw2" => Len(s.rbuf) >= 1
    /\ s.pc = "data" => Len(s.rbuf) + s.want <= s.rlen
    /\ s.crd.done <= s.crd.owed

(* The answer in the buffer: the data of this call, in order, and its status
   word. *)
T0Own(s) ==
    LET n == Len(s.rbuf)
    IN  /\ n >= 2 /\ s.rbuf[n].is = "sw2"
        /\ \A i \in 1 .. n : s.rbuf[i].of = s.call
        /\ \A i \in 1 .. n - 2 : s.rbuf[i] = T0Byte("data", s.call, i)

(* A refused object: at most what was sent last is on its way to the card, a
   header only to a card that waits for one. *)
T0Stuck(s) == Len(s.out) <= 1 /\ (Len(s.out) = 1 /\ s.out[1].is = "head" => ~s.crd.busy)

(* A command on its way: the header, or the data the card has asked for. *)
T0SendOut(s) ==
    Len(s.out) = 1 =>
        /\ s.in = <<>> /\ s.pc = "proc"
        /\ s.out[1].is = "head" =>
              ~s.crd.busy /\ s.out[1].of = s.call /\ s.out[1].lc = s.sbuf
        /\ s.out[1].is = "data" =>
              s.crd.busy /\ s.crd.of = s.call /\ s.crd.data = s.sbuf + s.out[1].n

T0SendIn(s) ==
    s.pc = "proc" /\ s.in # <<>> =>
        /\ s.in[1].is \in {"null", "ack", "nack"} \cup T0Sws
        /\ s.in[1].of = s.call
        /\ s.in[1].is = "null" => Len(s.in) = 1 /\ s.crd.busy
        /\ s.in[1].is \in {"ack", "nack"} => s.sbuf = 0 \/ (Len(s.in) = 1 /\ s.crd.busy)
        /\ s.in[1].is \in T0Sws =>
              ~s.crd.busy /\ Len(s.in) = 2 /\ s.in[2].is = "sw2" /\ s.in[2].of = s.call

(* The end of an exchange: the second byte of the status word is to come. *)
T0LastIn(s) == /\ ~s.crd.busy /\ Len(s.out) = 0
               /\ Len(s.in) = 1 /\ s.in[1].is = "sw2" /\ s.in[1].of = s.call

T0Sending(s) ==
    /\ s.pc \in {"proc", "sw2"} /\ Len(s.out) <= 1
    /\ s.pc = "proc" => s.rbuf = <<>>
    /\ s.pc = "sw2" => Len(s.rbuf) = 1 /\ s.rbuf[1].of = s.call /\ T0LastIn(s)
    /\ T0SendOut(s) /\ T0SendIn(s)
    /\ Len(s.out) = 0 /\ s.crd.busy => s.crd.of = s.call /\ s.crd.data = s.sbuf

(* The rest of the data and the status word, from the place p of the line. *)
T0Whole(s, p) ==
    LET m == Len(s.rbuf)
    IN  /\ ~s.crd.busy /\ m <= s.rlen - 2 /\ Len(s.in) = p + s.rlen - m
        /\ \A j \in 1 .. s.rlen - 2 - m : s.in[p + j] = T0Byte("data", s.call, m + j)
        /\ s.in[Len(s.in)].is = "sw2" /\ s.in[Len(s.in)].of = s.call
        /\ s.in[Len(s.in) - 1].of = s.call

T0Got(s, m) == \A i \in 1 .. m : s.rbuf[i] = T0Byte("data", s.call, i)

T0RecvIn(s) ==
    s.pc = "proc" /\ s.in # <<>> =>
        /\ s.in[1].is \in {"null", "ack", "nack"} \cup T0Sws
        /\ s.in[1].of = s.call
        /\ s.in[1].is = "null" => Len(s.in) = 1 /\ s.crd.busy /\ Len(s.rbuf) = s.crd.done
        /\ s.in[1].is = "nack" =>
              /\ Len(s.in) = 2 /\ s.crd.busy /\ Len(s.rbuf) + 1 = s.crd.done
              /\ s.in[2] = T0Byte("data", s.call, s.crd.done)
        /\ s.in[1].is = "ack" => T0Whole(s, 1)
        /\ s.in[1].is \in T0Sws =>
              /\ ~s.crd.busy /\ Len(s.rbuf) <= s.rlen - 2
              /\ Len(s.in) = 2 /\ s.in[2].is = "sw2" /\ s.in[2].of = s.call

T0RecvData(s) ==
    s.pc = "data" =>
        \/ /\ s.want = 1 /\ Len(s.in) = 1 /\ s.crd.busy /\ Len(s.rbuf) + 1 = s.crd.done
           /\ s.in[1] = T0Byte("data", s.call, s.crd.done)
        \/ s.want = s.rlen - Len(s.rbuf) /\ T0Whole(s, 0)

T0Receiving(s) ==
    /\ Len(s.out) <= 1
    /\ Len(s.out) = 1 => /\ s.in = <<>> /\ s.pc = "proc" /\ ~s.crd.busy /\ s.rbuf = <<>>
                         /\ s.out[1].is = "head" /\ s.out[1].of = s.call /\ s.out[1].lc = 0
                         /\ s.out[1].le = s.rlen - 2
    /\ s.crd.busy => s.crd.of = s.call /\ s.crd.data = 0 /\ s.crd.owed = s.rlen - 2
    /\ s.pc = "proc" => T0Got(s, Len(s.rbuf))
    /\ s.pc = "proc" /\ s.in = <<>> /\ s.crd.busy => Len(s.rbuf) = s.crd.done
    /\ s.pc = "data" => T0Got(s, Len(s.rbuf))
    /\ s.pc = "sw2" => /\ T0LastIn(s) /\ Len(s.rbuf) < s.rlen /\ T0Got(s, Len(s.rbuf) - 1)
                       /\ s.rbuf[Len(s.rbuf)].of = s.call
    /\ T0RecvIn(s) /\ T0RecvData(s)

T0Idle(s) ==
    /\ s.state = "IDLE" => s.in = <<>> /\ s.out = <<>> /\ ~s.crd.busy /\ (s.ret = "ok" => T0Own(s))
    /\ s.state # "IDLE" => s.ret # "ok" /\ T0Stuck(s)

(* Byte by byte, and no receive has failed under this object. *)
T0Calm(s) ==
    /\ ~s.crd.crossed
    /\ s.pc = "idle" => T0Idle(s)
    /\ s.pc # "idle" /\ s.state = "SENDING" => T0Sending(s)
    /\ s.pc # "idle" /\ s.state = "RECEIVING" => T0Receiving(s)

T0Good(s) ==
    /\ s \in T0Record /\ T0Room(s)
    /\ s.block => ~s.crd.busy /\ ~s.crd.crossed
    /\ ~s.block /\ ~s.dirty => T0Calm(s)

(* What every state of an exchange has, where the phase does not matter. *)
T0Base(s) ==
    /\ s \in T0Record /\ Len(s.rbuf) <= s.rlen /\ s.crd.done <= s.crd.owed
    /\ s.block => ~s.crd.busy /\ ~s.crd.crossed

T0Exact(s) == ~s.block /\ ~s.dirty

(* Nothing is on the line and the card waits for a header. *)
T0Clear(s) == s.in = <<>> /\ s.out = <<>> /\ ~s.crd.busy /\ ~s.crd.crossed

LEMMA T0GoodBase == ASSUME NEW s, T0Good(s) PROVE T0Base(s) /\ (T0Exact(s) => T0Calm(s))
BY DEF T0Good, T0Base, T0Room, T0Exact

LEMMA T0Empty ==
  /\ \A R : <<>> \in Seq(R) /\ Len(<<>>) = 0
  /\ \A R : \A q \in Seq(R) : Len(q) \in Nat /\ (Len(q) = 0 <=> q = <<>>)
<1>1. \A R : <<>> \in Seq(R) /\ Len(<<>>) = 0
  OBVIOUS
<1>2. \A R : \A q \in Seq(R) : Len(q) \in Nat /\ (Len(q) = 0 <=> q = <<>>)
  OBVIOUS
<1> QED
  BY <1>1, <1>2

(* done: after an error: the promise ends. *)
LEMMA T0DoneErrorGood ==
  ASSUME NEW s, T0Base(s)
  PROVE  T0Good(T0Done(s, "error"))
<1> DEFINE b == s.dirty \/ "error" = "error"
           c == s.slipped \/ "error" = "error"
           t == [s EXCEPT !.pc = "idle", !.state = "IDLE", !.ret = "error", !.slipped = c, !.dirty = b]
<1>1. b \in BOOLEAN /\ b /\ c \in BOOLEAN
  OBVIOUS
<1>2. T0Done(s, "error") = t
  BY DEF T0Done
<1> HIDE DEF b, c
<1>3. /\ t \in T0Record /\ t.dirty = b /\ t.pc = "idle" /\ t.rbuf = s.rbuf /\ t.rlen = s.rlen
      /\ t.crd = s.crd /\ t.block = s.block
  BY <1>1 DEF T0Base, T0Record
<1> HIDE DEF t
<1>4. T0Room(t)
  BY <1>3 DEF T0Base, T0Room
<1> QED
  BY <1>1, <1>2, <1>3, <1>4 DEF T0Good, T0Base

(* An early return leaves a state that refuses every further command. *)
LEMMA T0ReturnGood ==
  ASSUME NEW s, T0Base(s), NEW st \in {"SENDING", "RECEIVING", "CONFUSED"},
         T0Exact(s) => ~s.crd.crossed /\ T0Stuck(s)
  PROVE  T0Good(T0Return([s EXCEPT !.state = st], "error"))
<1> DEFINE t == [s EXCEPT !.state = st, !.pc = "idle", !.ret = "error"]
<1>0. st \in {"IDLE", "SENDING", "RECEIVING", "CONFUSED"}
  OBVIOUS
<1>2. T0Return([s EXCEPT !.state = st], "error") = t
  BY DEF T0Return, T0Base, T0Record
<1>3. /\ t \in T0Record /\ t.dirty = s.dirty /\ t.pc = "idle" /\ t.rbuf = s.rbuf
      /\ t.rlen = s.rlen /\ t.crd = s.crd /\ t.block = s.block /\ t.out = s.out /\ t.state = st
      /\ t.ret = "error"
  BY <1>0 DEF T0Base, T0Record
<1> HIDE DEF t
<1>4. T0Room(t)
  BY <1>3 DEF T0Base, T0Room
<1>5. T0Exact(t) => T0Calm(t)
  BY <1>3 DEF T0Exact, T0Calm, T0Idle, T0Stuck
<1> QED
  BY <1>2, <1>3, <1>4, <1>5 DEF T0Good, T0Base, T0Exact

LEMMA T0FailedGood ==
  ASSUME NEW s, T0Base(s), NEW st \in {"SENDING", "RECEIVING", "CONFUSED"},
         T0Exact(s) /\ s.state = "SENDING" => ~s.crd.crossed /\ T0Stuck(s)
  PROVE  T0Good(T0Failed(s, st))
<1>1. CASE s.state = "SENDING"
  <2>1. T0Good(T0Return([s EXCEPT !.state = st], "error"))
    BY <1>1, T0ReturnGood
  <2> QED
    BY <1>1, <2>1 DEF T0Failed
<1>2. CASE s.state # "SENDING"
  BY <1>2, T0DoneErrorGood DEF T0Failed
<1> QED
  BY <1>1, <1>2

LEMMA T0DoneOkGood ==
  ASSUME NEW s, T0Base(s), T0Exact(s) => T0Clear(s) /\ T0Own(s)
  PROVE  T0Good(T0Done(s, "ok"))
<1> DEFINE b == s.dirty \/ "ok" = "error"
           c == s.slipped \/ "ok" = "error"
           t == [s EXCEPT !.pc = "idle", !.state = "IDLE", !.ret = "ok", !.slipped = c, !.dirty = b]
<1>1. b \in BOOLEAN /\ (b <=> s.dirty) /\ c \in BOOLEAN
  BY DEF T0Base, T0Record
<1>2. T0Done(s, "ok") = t
  BY DEF T0Done
<1> HIDE DEF b, c
<1>3. /\ t \in T0Record /\ t.dirty = b /\ t.pc = "idle" /\ t.rbuf = s.rbuf /\ t.rlen = s.rlen
      /\ t.crd = s.crd /\ t.block = s.block /\ t.state = "IDLE" /\ t.in = s.in /\ t.out = s.out
      /\ t.call = s.call
  BY <1>1 DEF T0Base, T0Record
<1> HIDE DEF t
<1>4. T0Room(t)
  BY <1>3 DEF T0Base, T0Room
<1>5. T0Exact(t) => T0Calm(t)
  BY <1>1, <1>3 DEF T0Exact, T0Calm, T0Idle, T0Clear, T0Own
<1> QED
  BY <1>1, <1>2, <1>3, <1>4, <1>5 DEF T0Good, T0Base, T0Exact

(* A driver that fails to send ends the exchange, whether x is gone or not. *)
LEMMA T0SendFailsGood ==
  ASSUME NEW s, T0Base(s), s.state \in {"SENDING", "RECEIVING"},
         T0Exact(s) /\ s.state = "SENDING" => ~s.crd.crossed /\ T0Stuck(s)
  PROVE  T0Good(T0Failed(s, IF s.block THEN s.state ELSE "CONFUSED"))
<1> DEFINE st == IF s.block THEN s.state ELSE "CONFUSED"
<1>1. st \in {"SENDING", "RECEIVING", "CONFUSED"}
  OBVIOUS
<1> HIDE DEF st
<1>2. T0Good(T0Failed(s, st))
  BY <1>1, T0FailedGood
<1> QED
  BY <1>2 DEF st

LEMMA T0SendCases ==
  ASSUME NEW s, NEW x, NEW r \in T0Send(s, x)
  PROVE  LET t == [s EXCEPT !.out = Append(@, x)]
         IN  \/ r = t
             \/ r = T0Failed(s, IF s.block THEN s.state ELSE "CONFUSED")
             \/ r = T0Failed(t, IF s.block THEN s.state ELSE "CONFUSED")
BY DEF T0Send

LEMMA T0HeaderGood ==
  ASSUME NEW s, T0Base(s), NEW lc \in 0 .. T0Lc, NEW le \in 0 .. T0Le,
         s.state \in {"SENDING", "RECEIVING"}, s.state = "RECEIVING" => lc = 0,
         T0Exact(s) => T0Clear(s), NEW g \in T0Header(s, lc, le)
  PROVE  T0Good(g)
<1> DEFINE e == <<>>
           r == IF s.state = "RECEIVING" THEN le + 2 ELSE s.room
           h == [is |-> "head", of |-> s.call, lc |-> lc, le |-> le]
           o == Append(s.out, h)
           u == [s EXCEPT !.pc = "proc", !.sbuf = lc, !.rbuf = e, !.past = FALSE, !.nulls = 0, !.rlen = r]
           t == [u EXCEPT !.out = o]
<1>0. s \in T0Record /\ s.out \in Seq(T0Sent) /\ s.call \in Nat /\ s.room \in 2 .. T0Le + 3
  BY DEF T0Base, T0Record
<1>1. /\ e \in Seq(T0Bytes) /\ Len(e) = 0 /\ e = <<>>
  BY T0Empty
<1>2. r \in 2 .. T0Le + 3 /\ (s.state = "RECEIVING" => le = r - 2) /\ 0 \in 0 .. MaxNulls
  BY <1>0, T0Assumption
<1>3. h \in T0Heads /\ h.is = "head" /\ h.of = s.call /\ h.lc = lc /\ h.le = le
  BY <1>0 DEF T0Heads
<1>a. g \in T0Send(u, h)
  BY DEF T0Header
<1> HIDE DEF h
<1>4. h \in T0Sent
  BY <1>3 DEF T0Sent
<1>5. o \in Seq(T0Sent)
  BY <1>0, <1>4
<1>6. s.out = <<>> => o = <<h>> /\ Len(o) = 1 /\ o[1] = h
  OBVIOUS
<1> HIDE DEF e, r
<1>b. /\ u \in T0Record /\ u.pc = "proc" /\ u.sbuf = lc /\ u.rbuf = e /\ u.rlen = r /\ u.out = s.out
      /\ u.in = s.in /\ u.crd = s.crd /\ u.call = s.call /\ u.block = s.block /\ u.state = s.state
      /\ u.dirty = s.dirty
  BY <1>0, <1>1, <1>2 DEF T0Record
<1>c. t = [u EXCEPT !.out = Append(@, h)]
  BY <1>b
<1> HIDE DEF o, u
<1>8. /\ t \in T0Record /\ t.pc = "proc" /\ t.sbuf = lc /\ t.rbuf = e /\ t.rlen = r /\ t.out = o
      /\ t.in = s.in /\ t.crd = s.crd /\ t.call = s.call /\ t.block = s.block /\ t.state = s.state
      /\ t.dirty = s.dirty
  BY <1>b, <1>5 DEF T0Record
<1> HIDE DEF t
<1>7. \/ g = t
      \/ g = T0Failed(u, IF u.block THEN u.state ELSE "CONFUSED")
      \/ g = T0Failed(t, IF t.block THEN t.state ELSE "CONFUSED")
  <2>1. LET k == [u EXCEPT !.out = Append(@, h)]
        IN  \/ g = k
            \/ g = T0Failed(u, IF u.block THEN u.state ELSE "CONFUSED")
            \/ g = T0Failed(k, IF u.block THEN u.state ELSE "CONFUSED")
    BY ONLY <1>a, T0SendCases
  <2>2. \/ g = t
        \/ g = T0Failed(u, IF u.block THEN u.state ELSE "CONFUSED")
        \/ g = T0Failed(t, IF u.block THEN u.state ELSE "CONFUSED")
    BY ONLY <2>1, <1>c
  <2> QED
    BY <1>b, <1>8, <2>2
<1>9. T0Room(t) /\ T0Base(u) /\ T0Base(t)
  BY <1>1, <1>2, <1>8, <1>b DEF T0Room, T0Base
<1>10. ASSUME T0Exact(t) PROVE T0Calm(t)
  <2>1. T0Clear(s) /\ T0Exact(s) /\ o = <<h>> /\ Len(o) = 1 /\ o[1] = h
    BY <1>6, <1>8, <1>10 DEF T0Exact, T0Clear
  <2>2. s.state = "SENDING" => T0Sending(t)
    BY <1>1, <1>3, <1>8, <2>1 DEF T0Sending, T0SendOut, T0SendIn, T0Clear
  <2>3. s.state = "RECEIVING" => T0Receiving(t)
    BY <1>1, <1>2, <1>3, <1>8, <2>1 DEF T0Receiving, T0RecvIn, T0RecvData, T0Clear, T0Got
  <2> QED
    BY <1>8, <2>1, <2>2, <2>3 DEF T0Calm, T0Clear
<1>11. CASE g = t
  BY <1>8, <1>9, <1>10, <1>11 DEF T0Good, T0Base, T0Exact
<1>12. T0Exact(s) => /\ ~s.crd.crossed /\ ~s.crd.busy /\ s.out = <<>> /\ Len(s.out) = 0 /\ Len(o) = 1
  BY <1>1, <1>6 DEF T0Clear, e
<1>13. CASE g = T0Failed(u, IF u.block THEN u.state ELSE "CONFUSED")
  <2>1. T0Exact(u) => ~u.crd.crossed /\ T0Stuck(u)
    BY <1>b, <1>12 DEF T0Exact, T0Stuck
  <2> QED
    BY <1>9, <1>13, <1>b, <2>1, T0SendFailsGood
<1>14. CASE g = T0Failed(t, IF t.block THEN t.state ELSE "CONFUSED")
  <2>1. T0Exact(t) => ~t.crd.crossed /\ T0Stuck(t)
    <3>1. T0Exact(t) => ~s.crd.crossed /\ ~s.crd.busy /\ Len(t.out) = 1
      BY <1>8, <1>12 DEF T0Exact
    <3>2. 1 <= 1
      OBVIOUS
    <3> QED
      BY <1>8, <3>1, <3>2, Zenon DEF T0Stuck
  <2> QED
    BY <1>8, <1>9, <1>14, <2>1, T0SendFailsGood
<1> QED
  BY <1>7, <1>11, <1>13, <1>14

LEMMA T0EndedGood ==
  ASSUME NEW s, T0Base(s), s.state \in {"SENDING", "RECEIVING"}, Len(s.rbuf) >= 1,
         T0Exact(s) => T0Clear(s) /\ T0Own(s), NEW g \in T0Ended(s)
  PROVE  T0Good(g)
<1>1. CASE s.state = "SENDING" /\ s.cse = 4 /\ s.rbuf[1].is # "sw6x"
  <2> DEFINE l == IF s.rbuf[1].is = "sw61" /\ s.rbuf[1].i # 0 /\ s.rbuf[1].i < s.le
                  THEN s.rbuf[1].i ELSE s.le
             cut == [s EXCEPT !.le = l]
             t == [cut EXCEPT !.state = "RECEIVING"]
  <2>1. s \in T0Record /\ s.rbuf \in Seq(T0Bytes) /\ s.le \in 0 .. T0Le
    BY DEF T0Base, T0Record
  <2>2. s.rbuf[1] \in T0Bytes
    BY <2>1
  <2>3. l \in 0 .. T0Le
    BY <2>1, <2>2, T0Assumption DEF T0Bytes
  <2>4. T0GetLength(s, s.rbuf[1]) = cut
    BY <2>1 DEF T0GetLength, T0Record
  <2> HIDE DEF l
  <2>5. cut.le = l
    BY <2>1 DEF T0Record
  <2>6. T0Ended(s) = T0Header(t, 0, l)
    BY <1>1, <2>4, <2>5 DEF T0Ended
  <2>7. /\ t \in T0Record /\ t.rbuf = s.rbuf /\ t.rlen = s.rlen /\ t.crd = s.crd /\ t.block = s.block
        /\ t.state = "RECEIVING" /\ t.dirty = s.dirty /\ t.in = s.in /\ t.out = s.out
    BY <2>1, <2>3 DEF T0Record
  <2> HIDE DEF t
  <2>8. T0Base(t) /\ (T0Exact(t) => T0Clear(t))
    BY <2>7 DEF T0Base, T0Exact, T0Clear
  <2>9. 0 \in 0 .. T0Lc
    BY T0Assumption
  <2> QED
    BY <2>3, <2>6, <2>7, <2>8, <2>9, T0HeaderGood
<1>2. CASE ~(s.state = "SENDING" /\ s.cse = 4 /\ s.rbuf[1].is # "sw6x")
  <2>1. g = T0Done(s, "ok")
    BY <1>2 DEF T0Ended
  <2> QED
    BY <2>1, T0DoneOkGood
<1> QED
  BY <1>1, <1>2

LEMMA T0TransceiveGood ==
  ASSUME T0Good(t0), NEW lc \in 0 .. T0Lc, NEW le \in 0 .. T0Le, NEW room \in 2 .. T0Le + 3,
         t0_transceive(lc, le, room)
  PROVE  T0Good(t0')
<1> DEFINE c == T0Case(lc, le)
           n == t0.call + 1
           st == IF lc > 0 THEN "SENDING" ELSE "RECEIVING"
           b == T0Dirty
           x == t0.crd.crossed /\ b
           k == [t0.crd EXCEPT !.crossed = x]
           s == [t0 EXCEPT !.cse = c, !.le = le, !.room = room, !.ret = "none", !.call = n, !.dirty = b,
                           !.crd = k, !.state = st]
<1>0. T0Base(t0) /\ t0 \in T0Record /\ t0.crd \in T0Crd
  BY T0GoodBase DEF T0Base, T0Record
<1>1. c \in 1 .. 4
  BY DEF T0Case
<1>2. n \in Nat
  BY <1>0 DEF T0Base, T0Record
<1>3. /\ st \in {"IDLE", "SENDING", "RECEIVING", "CONFUSED"} /\ st \in {"SENDING", "RECEIVING"}
      /\ st = "RECEIVING" => lc = 0
  BY T0Assumption
<1>a. b \in BOOLEAN /\ (~b => t0.in = <<>> /\ t0.out = <<>> /\ ~t0.crd.busy)
  BY <1>0 DEF T0Dirty, T0Crd
<1>b. /\ k \in T0Crd /\ k.crossed = x /\ k.busy = t0.crd.busy /\ k.done = t0.crd.done
      /\ k.owed = t0.crd.owed
  BY <1>0, <1>a DEF T0Crd
<1>4. t0' \in T0Header(s, lc, le)
  <2>1. s = [t0 EXCEPT !.cse = T0Case(lc, le), !.le = le, !.room = room, !.ret = "none",
                       !.call = @ + 1, !.dirty = T0Dirty, !.crd.crossed = @ /\ T0Dirty,
                       !.state = IF lc > 0 THEN "SENDING" ELSE "RECEIVING"]
    BY <1>0 DEF T0Record
  <2> HIDE DEF s
  <2> QED
    BY <2>1 DEF t0_transceive
<1>x. (t0.block => ~x) /\ (~b => ~x)
  BY DEF T0Good
<1> HIDE DEF c, n, st, b, k, x
<1>5. /\ s \in T0Record /\ s.rbuf = t0.rbuf /\ s.rlen = t0.rlen /\ s.crd = k
      /\ s.block = t0.block /\ s.state = st /\ s.dirty = b /\ s.in = t0.in /\ s.out = t0.out
  BY <1>0, <1>1, <1>2, <1>3, <1>a, <1>b DEF T0Record, T0Base
<1> HIDE DEF s
<1>6. T0Base(s) /\ (T0Exact(s) => T0Clear(s))
  BY <1>0, <1>5, <1>a, <1>b, <1>x DEF T0Base, T0Exact, T0Clear
<1> QED
  BY <1>3, <1>4, <1>5, <1>6, T0HeaderGood

LEMMA T0RefusedGood ==
  ASSUME T0Good(t0), T0Refused \/ T0Malformed
  PROVE  T0Good(t0')
<1> DEFINE t == [t0 EXCEPT !.ret = "error"]
<1>0. T0Base(t0) /\ (T0Exact(t0) => T0Calm(t0)) /\ t0.pc = "idle" /\ t0' = t
  BY T0GoodBase DEF T0Refused, T0Malformed
<1>1. /\ t \in T0Record /\ t.rbuf = t0.rbuf /\ t.rlen = t0.rlen /\ t.crd = t0.crd
      /\ t.block = t0.block /\ t.state = t0.state /\ t.dirty = t0.dirty /\ t.in = t0.in
      /\ t.out = t0.out /\ t.pc = "idle" /\ t.ret = "error"
  BY <1>0 DEF T0Record, T0Base
<1> HIDE DEF t
<1>2. T0Room(t)
  BY <1>0, <1>1 DEF T0Base, T0Room
<1>3. T0Exact(t) => T0Calm(t)
  BY <1>0, <1>1 DEF T0Exact, T0Calm, T0Idle, T0Stuck
<1> QED
  BY <1>0, <1>1, <1>2, <1>3 DEF T0Good, T0Base, T0Exact

LEMMA T0LateGood ==
  ASSUME NEW s, T0Good(s), s.pc = "idle", NEW l \in Nat
  PROVE  T0Good([s EXCEPT !.late = l])
<1> DEFINE t == [s EXCEPT !.late = l]
<1>1. /\ t \in T0Record /\ t.rbuf = s.rbuf /\ t.rlen = s.rlen /\ t.crd = s.crd
      /\ t.block = s.block /\ t.state = s.state /\ t.dirty = s.dirty /\ t.in = s.in
      /\ t.out = s.out /\ t.pc = "idle" /\ t.ret = s.ret /\ t.call = s.call
  BY DEF T0Good, T0Record
<1> HIDE DEF t
<1>2. T0Room(t)
  BY <1>1 DEF T0Good, T0Room
<1>3. T0Exact(t) => T0Calm(t)
  BY <1>1 DEF T0Good, T0Exact, T0Calm, T0Idle, T0Stuck, T0Own
<1>4. T0Good(t)
  BY <1>1, <1>2, <1>3 DEF T0Good, T0Exact
<1> QED
  BY <1>4 DEF t

LEMMA T0NewGood ==
  ASSUME NEW b \in BOOLEAN, NEW l \in Nat
  PROVE  T0Good([T0New(b) EXCEPT !.late = l]) /\ T0Good(T0New(b))
<1> DEFINE e == <<>>
           c == [busy |-> FALSE, of |-> 0, data |-> 0, owed |-> 0, done |-> 0, crossed |-> FALSE]
           t(k) == [state |-> "IDLE", block |-> b, pc |-> "idle", cse |-> 1, le |-> 0, room |-> 2, rlen |-> 2,
                    sbuf |-> 0, rbuf |-> e, past |-> FALSE, nulls |-> 0, want |-> 0, ret |-> "none", call |-> 0,
                    out |-> e, in |-> e, late |-> k, slipped |-> FALSE, dirty |-> FALSE, crd |-> c]
<1>1. T0New(b) = t(0)
  BY DEF T0New
<1>2. e \in Seq(T0Bytes) /\ e \in Seq(T0Sent) /\ Len(e) = 0 /\ e = <<>>
  BY T0Empty
<1>3. c \in T0Crd /\ ~c.busy /\ ~c.crossed /\ c.done <= c.owed
  BY T0Assumption DEF T0Crd
<1>4. 0 \in 0 .. T0Le /\ 2 \in 2 .. T0Le + 3 /\ 0 \in 0 .. T0Lc /\ 0 \in 0 .. MaxNulls /\ 1 \in 1 .. 4
  BY T0Assumption
<1> HIDE DEF e, c
<1>5. T0Good(t(0))
  <2> DEFINE u == t(0)
  <2>1. /\ u \in T0Record /\ u.rbuf = e /\ u.in = e /\ u.out = e /\ u.crd = c /\ u.rlen = 2
        /\ u.pc = "idle" /\ u.ret = "none" /\ u.state = "IDLE"
    BY <1>2, <1>3, <1>4 DEF T0Record
  <2> HIDE DEF u
  <2>2. T0Room(u)
    BY <1>2, <1>3, <2>1 DEF T0Room
  <2>3. T0Calm(u)
    BY <1>2, <1>3, <2>1 DEF T0Calm, T0Idle
  <2>4. T0Good(u)
    BY <1>3, <2>1, <2>2, <2>3 DEF T0Good
  <2> QED
    BY <2>4 DEF u
<1>6. T0New(b).pc = "idle"
  BY DEF T0New
<1> QED
  BY <1>1, <1>5, <1>6, T0LateGood

LEMMA T0InitGood == T0Init => T0Good(t0)
BY T0NewGood DEF T0Init

LEMMA T0ResetGood == ASSUME T0Good(t0), T0Reset PROVE T0Good(t0')
<1>1. t0.block \in BOOLEAN /\ t0.late \in Nat
  BY DEF T0Good, T0Record
<1> QED
  BY <1>1, T0NewGood DEF T0Reset

(* The first byte on the line, once taken off it. *)
T0Taken(s, q) ==
    /\ s \in T0Record /\ s.in = q /\ q \in Seq(T0Bytes) /\ Len(q) + 1 = Len(t0.in)
    /\ Head(t0.in) = t0.in[1] /\ t0.in[1] \in T0Bytes
    /\ \A j \in 1 .. Len(q) : q[j] = t0.in[j + 1]
    /\ s.rbuf = t0.rbuf /\ s.rlen = t0.rlen /\ s.crd = t0.crd /\ s.block = t0.block
    /\ s.state = t0.state /\ s.dirty = t0.dirty /\ s.out = t0.out /\ s.pc = t0.pc
    /\ s.ret = t0.ret /\ s.call = t0.call /\ s.sbuf = t0.sbuf /\ s.want = t0.want
    /\ s.nulls = t0.nulls /\ s.cse = t0.cse

LEMMA T0TakeTaken ==
  ASSUME T0Good(t0), t0.in # <<>>
  PROVE  T0Taken(T0Take, Tail(t0.in)) /\ T0Base(T0Take)
<1> DEFINE q == Tail(t0.in)
           s == [t0 EXCEPT !.in = q]
<1>0. t0 \in T0Record /\ t0.in \in Seq(T0Bytes)
  BY DEF T0Good, T0Record
<1>1. /\ q \in Seq(T0Bytes) /\ Len(q) + 1 = Len(t0.in) /\ Head(t0.in) = t0.in[1]
      /\ t0.in[1] \in T0Bytes
  BY <1>0
<1>2. \A j \in 1 .. Len(q) : q[j] = t0.in[j + 1]
  BY <1>0
<1>3. T0Take = s
  BY DEF T0Take
<1> HIDE DEF q
<1>4. /\ s \in T0Record /\ s.in = q
      /\ s.rbuf = t0.rbuf /\ s.rlen = t0.rlen /\ s.crd = t0.crd /\ s.block = t0.block
      /\ s.state = t0.state /\ s.dirty = t0.dirty /\ s.out = t0.out /\ s.pc = t0.pc
      /\ s.ret = t0.ret /\ s.call = t0.call /\ s.sbuf = t0.sbuf /\ s.want = t0.want
      /\ s.nulls = t0.nulls /\ s.cse = t0.cse
  BY <1>0, <1>1 DEF T0Record
<1> HIDE DEF s
<1>5. T0Taken(s, q)
  BY <1>1, <1>2, <1>4 DEF T0Taken
<1>6. T0Base(s)
  BY <1>4 DEF T0Good, T0Room, T0Base
<1> QED
  BY <1>3, <1>5, <1>6 DEF q

LEMMA T0ClassExact ==
  ASSUME NEW b \in T0Bytes, NEW c \in T0Class(b)
  PROVE  /\ b.is \in T0Sws => c = "sw"
         /\ b.is \in {"null", "ack", "nack"} => c = b.is
BY DEF T0Class, T0Sws

LEMMA T0SendingStuck ==
  ASSUME NEW s, s \in T0Record, T0Calm(s), s.pc # "idle", s.state = "SENDING"
  PROVE  ~s.crd.crossed /\ T0Stuck(s)
BY DEF T0Calm, T0Sending, T0SendOut, T0Stuck

LEMMA T0TakenTwo ==
  ASSUME NEW s, NEW q, T0Taken(s, q), Len(t0.in) = 2
  PROVE  Len(q) = 1 /\ q[1] = t0.in[2]
<1>1. q \in Seq(T0Bytes) /\ Len(q) + 1 = 2 /\ \A j \in 1 .. Len(q) : q[j] = t0.in[j + 1]
  BY DEF T0Taken
<1>2. Len(q) \in Nat
  BY <1>1
<1>3. Len(q) = 1
  <2> DEFINE m == Len(q)
  <2>1. m \in Nat /\ m + 1 = 2
    BY <1>1, <1>2
  <2> HIDE DEF m
  <2>2. m = 1
    BY <2>1
  <2> QED
    BY <2>2 DEF m
<1>4. 1 \in 1 .. Len(q)
  BY <1>3
<1>5. q[1] = t0.in[1 + 1]
  BY <1>1, <1>4
<1> QED
  BY <1>3, <1>5

(* What a byte in the exchange looks like under the calm invariant. *)
LEMMA T0ProcExact ==
  ASSUME T0Good(t0), T0Exact(t0), t0.pc = "proc", t0.in # <<>>, NEW c \in T0Class(Head(t0.in))
  PROVE  /\ Len(t0.out) = 0 /\ ~t0.crd.crossed /\ t0.in[1].of = t0.call
         /\ t0.in[1].is \in {"null", "ack", "nack"} \cup T0Sws
         /\ c = "sw" => t0.in[1].is \in T0Sws
         /\ c # "sw" => c = t0.in[1].is
         /\ t0.state = "SENDING" => T0Sending(t0) /\ T0SendIn(t0)
         /\ t0.state = "RECEIVING" => T0Receiving(t0) /\ T0RecvIn(t0)
<1>0. t0 \in T0Record /\ T0Calm(t0) /\ t0.state \in {"SENDING", "RECEIVING"}
  BY T0GoodBase DEF T0Good, T0Room
<1>1. T0Taken(T0Take, Tail(t0.in))
  BY T0TakeTaken
<1>2. Head(t0.in) = t0.in[1] /\ t0.in[1] \in T0Bytes
  BY <1>1 DEF T0Taken
<1>3. Len(t0.out) \in Nat /\ t0.out \in Seq(T0Sent)
  BY <1>0, T0Empty DEF T0Record
<1>a. Len(t0.out) <= 1 /\ Len(t0.out) # 1 => Len(t0.out) = 0
  <2> DEFINE m == Len(t0.out)
  <2>1. m \in Nat
    BY <1>3
  <2> HIDE DEF m
  <2>2. m <= 1 /\ m # 1 => m = 0
    BY <2>1
  <2> QED
    BY <2>2 DEF m
<1>4. /\ Len(t0.out) = 0 /\ ~t0.crd.crossed /\ t0.in[1].of = t0.call
      /\ t0.in[1].is \in {"null", "ack", "nack"} \cup T0Sws
      /\ t0.state = "SENDING" => T0Sending(t0) /\ T0SendIn(t0)
      /\ t0.state = "RECEIVING" => T0Receiving(t0) /\ T0RecvIn(t0)
  <2>1. CASE t0.state = "SENDING"
    <3>1. T0Sending(t0) /\ ~t0.crd.crossed
      BY <1>0, <2>1 DEF T0Calm
    <3>2. T0SendIn(t0) /\ T0SendOut(t0) /\ Len(t0.out) <= 1
      BY <3>1 DEF T0Sending
    <3>3. Len(t0.out) = 0
      BY <1>a, <3>2 DEF T0SendOut
    <3>4. t0.in[1].of = t0.call /\ t0.in[1].is \in {"null", "ack", "nack"} \cup T0Sws
      BY <3>2 DEF T0SendIn
    <3> QED
      BY <2>1, <3>1, <3>2, <3>3, <3>4
  <2>2. CASE t0.state = "RECEIVING"
    <3>1. T0Receiving(t0) /\ ~t0.crd.crossed
      BY <1>0, <2>2 DEF T0Calm
    <3>2. T0RecvIn(t0) /\ Len(t0.out) <= 1 /\ Len(t0.out) # 1
      BY <3>1 DEF T0Receiving
    <3>3. Len(t0.out) = 0
      BY <1>a, <3>2
    <3>4. t0.in[1].of = t0.call /\ t0.in[1].is \in {"null", "ack", "nack"} \cup T0Sws
      BY <3>2 DEF T0RecvIn
    <3> QED
      BY <2>2, <3>1, <3>2, <3>3, <3>4
  <2> QED
    BY <1>0, <2>1, <2>2
<1>5. /\ t0.in[1].is \in T0Sws => c = "sw"
      /\ t0.in[1].is \in {"null", "ack", "nack"} => c = t0.in[1].is
  BY <1>2, T0ClassExact
<1>6. c = "sw" => t0.in[1].is \in T0Sws
  BY <1>4, <1>5
<1>7. c # "sw" => c = t0.in[1].is
  BY <1>4, <1>5
<1> QED
  BY <1>4, <1>6, <1>7

LEMMA T0FailGood ==
  ASSUME T0Good(t0), t0.pc = "proc", t0.in # <<>>,
         NEW st \in {"SENDING", "RECEIVING", "CONFUSED"}
  PROVE  T0Good(T0Failed(T0Take, st))
<1>1. T0Taken(T0Take, Tail(t0.in)) /\ T0Base(T0Take)
  BY T0TakeTaken
<1>2. T0Exact(T0Take) /\ T0Take.state = "SENDING" => ~t0.crd.crossed /\ T0Stuck(t0)
  BY <1>1, T0SendingStuck, T0GoodBase DEF T0Taken, T0Exact, T0Good
<1>3. T0Exact(T0Take) /\ T0Take.state = "SENDING" => ~T0Take.crd.crossed /\ T0Stuck(T0Take)
  BY <1>1, <1>2 DEF T0Taken, T0Stuck
<1> QED
  BY <1>1, <1>3, T0FailedGood

LEMMA T0NullGood ==
  ASSUME T0Good(t0), t0.pc = "proc", t0.in # <<>>, "null" \in T0Class(Head(t0.in)), T0Null
  PROVE  T0Good(t0')
<1>1. CASE t0.nulls + 1 > MaxNulls
  BY <1>1, T0FailGood DEF T0Null
<1>2. CASE ~(t0.nulls + 1 > MaxNulls)
  <2> DEFINE s == T0Take
             q == Tail(t0.in)
             n == s.nulls + 1
             t == [s EXCEPT !.nulls = n]
  <2>1. T0Taken(s, q) /\ T0Base(s)
    BY T0TakeTaken
  <2>0. s.nulls = t0.nulls /\ t0.nulls \in 0 .. MaxNulls
    BY <2>1 DEF T0Taken, T0Good, T0Record
  <2>2. n \in 0 .. MaxNulls
    BY <1>2, <2>0, T0Assumption
  <2>3. t0' = t
    BY <1>2 DEF T0Null
  <2> HIDE DEF s, q, n
  <2>4. /\ t \in T0Record /\ t.in = q /\ t.rbuf = s.rbuf /\ t.rlen = s.rlen /\ t.crd = s.crd
        /\ t.block = s.block /\ t.state = s.state /\ t.dirty = s.dirty /\ t.out = s.out
        /\ t.pc = s.pc /\ t.call = s.call /\ t.sbuf = s.sbuf
    BY <2>1, <2>2 DEF T0Taken, T0Record
  <2> HIDE DEF t
  <2>5. T0Room(t)
    BY <2>1, <2>4 DEF T0Room, T0Good, T0Taken
  <2>6. ASSUME T0Exact(t) PROVE T0Calm(t)
    <3>1. T0Exact(t0)
      BY <2>1, <2>4, <2>6 DEF T0Exact, T0Taken
    <3>2. /\ Len(t0.out) = 0 /\ ~t0.crd.crossed /\ t0.in[1].is = "null"
          /\ t0.state = "SENDING" => T0Sending(t0) /\ T0SendIn(t0)
          /\ t0.state = "RECEIVING" => T0Receiving(t0) /\ T0RecvIn(t0)
      BY <3>1, T0ProcExact
    <3>3. ASSUME Len(t0.in) = 1 PROVE q = <<>>
      BY <2>1, <3>3, T0Empty DEF T0Taken
    <3>4. ASSUME t0.state = "SENDING" PROVE T0Sending(t)
      <4>1. Len(t0.in) = 1 /\ t0.rbuf = <<>> /\ (t0.crd.busy => t0.crd.of = t0.call /\ t0.crd.data = t0.sbuf)
        BY <3>2, <3>4 DEF T0Sending, T0SendIn
      <4> QED
        BY <2>1, <2>4, <3>2, <3>3, <4>1 DEF T0Taken, T0Sending, T0SendIn, T0SendOut
    <3>5. ASSUME t0.state = "RECEIVING" PROVE T0Receiving(t)
      <4>1. /\ Len(t0.in) = 1 /\ Len(t0.rbuf) = t0.crd.done /\ T0Got(t0, Len(t0.rbuf))
            /\ t0.crd.busy => t0.crd.of = t0.call /\ t0.crd.data = 0 /\ t0.crd.owed = t0.rlen - 2
        BY <3>2, <3>5 DEF T0Receiving, T0RecvIn
      <4>2. T0Got(t, Len(t.rbuf))
        BY <2>1, <2>4, <4>1 DEF T0Taken, T0Got
      <4> QED
        BY <2>1, <2>4, <3>2, <3>3, <4>1, <4>2 DEF T0Taken, T0Receiving, T0RecvIn, T0RecvData
    <3> QED
      BY <2>1, <2>4, <3>2, <3>4, <3>5 DEF T0Calm, T0Taken
  <2> QED
    BY <2>1, <2>3, <2>4, <2>5, <2>6 DEF T0Good, T0Base, T0Exact
<1> QED
  BY <1>1, <1>2

T0SwTaken == [T0Take EXCEPT !.pc = "sw2", !.rbuf = Append(@, Head(t0.in))]

LEMMA T0SwGood ==
  ASSUME T0Good(t0), t0.pc = "proc", t0.in # <<>>, "sw" \in T0Class(Head(t0.in)),
         t0' = T0SwTaken
  PROVE  T0Good(t0')
<1> DEFINE s == T0Take
           q == Tail(t0.in)
           r == Append(s.rbuf, Head(t0.in))
           t == [s EXCEPT !.pc = "sw2", !.rbuf = r]
<1>1. T0Taken(s, q) /\ T0Base(s)
  BY T0TakeTaken
<1>2. t0' = t
  BY DEF T0SwTaken
<1>3. s.rbuf \in Seq(T0Bytes) /\ s.rbuf = t0.rbuf /\ Head(t0.in) = t0.in[1] /\ t0.in[1] \in T0Bytes
  BY <1>1 DEF T0Taken, T0Record
<1>4. /\ r \in Seq(T0Bytes) /\ Len(r) = Len(t0.rbuf) + 1 /\ r[Len(r)] = t0.in[1]
      /\ \A i \in 1 .. Len(t0.rbuf) : r[i] = t0.rbuf[i]
      /\ Len(t0.rbuf) \in Nat
  BY <1>3
<1> HIDE DEF s, q, r
<1>5. /\ t \in T0Record /\ t.in = q /\ t.rbuf = r /\ t.rlen = s.rlen /\ t.crd = s.crd
      /\ t.block = s.block /\ t.state = s.state /\ t.dirty = s.dirty /\ t.out = s.out
      /\ t.pc = "sw2" /\ t.call = s.call
  BY <1>1, <1>4 DEF T0Taken, T0Record
<1> HIDE DEF t
<1>6. T0Room(t)
  <2>1. t0.rlen \in Nat
    BY DEF T0Good, T0Record
  <2> QED
    BY <1>1, <1>4, <1>5, <2>1 DEF T0Room, T0Good, T0Taken
<1>7. ASSUME T0Exact(t) PROVE T0Calm(t)
  <2>1. T0Exact(t0)
    BY <1>1, <1>5, <1>7 DEF T0Exact, T0Taken
  <2>2. /\ Len(t0.out) = 0 /\ ~t0.crd.crossed /\ t0.in[1].is \in T0Sws /\ t0.in[1].of = t0.call
        /\ t0.state = "SENDING" => T0Sending(t0) /\ T0SendIn(t0)
        /\ t0.state = "RECEIVING" => T0Receiving(t0) /\ T0RecvIn(t0)
    BY <2>1, T0ProcExact
  <2>3. ASSUME Len(t0.in) = 2 PROVE Len(q) = 1 /\ q[1] = t0.in[2]
    BY <1>1, <2>3, T0TakenTwo
  <2>4. ASSUME t0.state = "SENDING" PROVE T0Sending(t)
    <3>1. /\ ~t0.crd.busy /\ Len(t0.in) = 2 /\ t0.in[2].is = "sw2" /\ t0.in[2].of = t0.call
          /\ t0.rbuf = <<>>
      BY <2>2, <2>4 DEF T0Sending, T0SendIn
    <3>2. T0LastIn(t)
      BY <1>1, <1>5, <2>2, <2>3, <3>1 DEF T0LastIn, T0Taken
    <3>3. Len(t0.rbuf) = 0
      BY <3>1, T0Empty
    <3>4. Len(t.rbuf) = 1 /\ t.rbuf[1].of = t.call
      BY <1>1, <1>4, <1>5, <2>2, <3>3 DEF T0Taken
    <3> QED
      BY <1>1, <1>5, <2>2, <3>1, <3>2, <3>4 DEF T0Sending, T0SendIn, T0SendOut, T0Taken
  <2>5. ASSUME t0.state = "RECEIVING" PROVE T0Receiving(t)
    <3>1. /\ ~t0.crd.busy /\ Len(t0.in) = 2 /\ t0.in[2].is = "sw2" /\ t0.in[2].of = t0.call
          /\ T0Got(t0, Len(t0.rbuf)) /\ Len(t0.rbuf) <= t0.rlen - 2
      BY <2>2, <2>5 DEF T0Receiving, T0RecvIn
    <3>2. T0LastIn(t)
      BY <1>1, <1>5, <2>2, <2>3, <3>1 DEF T0LastIn, T0Taken
    <3>3. T0Got(t, Len(t.rbuf) - 1) /\ t.rbuf[Len(t.rbuf)].of = t.call
      BY <1>1, <1>4, <1>5, <2>2, <3>1 DEF T0Taken, T0Got
    <3>4. Len(t.rbuf) < t.rlen
      <4>1. t0.rlen \in Nat
        BY DEF T0Good, T0Record
      <4> QED
        BY <1>1, <1>4, <1>5, <3>1, <4>1 DEF T0Taken
    <3> QED
      BY <1>1, <1>5, <2>2, <3>1, <3>2, <3>3, <3>4 DEF T0Receiving, T0RecvIn, T0RecvData, T0Taken
  <2> QED
    BY <1>1, <1>5, <2>2, <2>4, <2>5 DEF T0Calm, T0Taken
<1> QED
  BY <1>1, <1>2, <1>5, <1>6, <1>7 DEF T0Good, T0Base, T0Exact

LEMMA T0AckSends ==
  ASSUME T0Good(t0), t0.pc = "proc", t0.in # <<>>, t0.state = "SENDING",
         NEW n \in {0, 1}, (IF n = 0 THEN "ack" ELSE "nack") \in T0Class(Head(t0.in)), T0Ack(n)
  PROVE  T0Good(t0')
<1> DEFINE k == IF n = 0 THEN t0.sbuf ELSE n
<1>0. t0.sbuf \in 0 .. T0Lc
  BY DEF T0Good, T0Record
<1>1. CASE k > t0.sbuf \/ t0.sbuf = 0
  <2>1. t0' = T0Failed(T0Take, "CONFUSED")
    BY <1>1 DEF T0Ack
  <2> QED
    BY <2>1, T0FailGood
<1>2. CASE ~(k > t0.sbuf \/ t0.sbuf = 0)
  <2> DEFINE s == T0Take
             q == Tail(t0.in)
             d == [is |-> "data", n |-> k]
             o == Append(s.out, d)
             b == s.sbuf - k
             v == [s EXCEPT !.sbuf = b]
             t == [v EXCEPT !.out = o]
  <2>1. T0Taken(s, q) /\ T0Base(s)
    BY T0TakeTaken
  <2>a. t0' \in T0Send(v, d)
    BY <1>2 DEF T0Ack
  <2>3. s.sbuf = t0.sbuf /\ s.out \in Seq(T0Sent) /\ s.out = t0.out /\ k \in 0 .. T0Lc
    BY <1>0, <1>2, <2>1, T0Assumption, SMTT(60) DEF T0Taken, T0Record
  <2>4. b \in 0 .. T0Lc /\ t0.sbuf = b + k
    BY <1>0, <1>2, <2>3, T0Assumption
  <2>5. d \in T0Datas /\ d.is = "data" /\ d.n = k
    BY <2>3 DEF T0Datas
  <2> HIDE DEF k, d
  <2>6. d \in T0Sent
    BY <2>5 DEF T0Sent
  <2>7. o \in Seq(T0Sent) /\ (Len(t0.out) = 0 => Len(o) = 1 /\ o[1] = d)
    BY <2>3, <2>6
  <2> HIDE DEF s, q, b
  <2>b. /\ v \in T0Record /\ v.in = q /\ v.rbuf = s.rbuf /\ v.rlen = s.rlen /\ v.crd = s.crd
        /\ v.block = s.block /\ v.state = s.state /\ v.dirty = s.dirty /\ v.out = s.out
        /\ v.pc = s.pc /\ v.call = s.call /\ v.sbuf = b
    BY <2>1, <2>4 DEF T0Taken, T0Record
  <2>c. t = [v EXCEPT !.out = Append(@, d)]
    BY <2>b
  <2> HIDE DEF v, o
  <2>8. /\ t \in T0Record /\ t.in = q /\ t.rbuf = s.rbuf /\ t.rlen = s.rlen /\ t.crd = s.crd
        /\ t.block = s.block /\ t.state = s.state /\ t.dirty = s.dirty /\ t.out = o
        /\ t.pc = s.pc /\ t.call = s.call /\ t.sbuf = b
    BY <2>b, <2>7 DEF T0Taken, T0Record
  <2> HIDE DEF t
  <2>2. \/ t0' = t
        \/ t0' = T0Failed(v, IF v.block THEN v.state ELSE "CONFUSED")
        \/ t0' = T0Failed(t, IF t.block THEN t.state ELSE "CONFUSED")
    <3>1. LET sent == [v EXCEPT !.out = Append(@, d)]
          IN  \/ t0' = sent
              \/ t0' = T0Failed(v, IF v.block THEN v.state ELSE "CONFUSED")
              \/ t0' = T0Failed(sent, IF v.block THEN v.state ELSE "CONFUSED")
      BY ONLY <2>a, T0SendCases
    <3>2. \/ t0' = t
          \/ t0' = T0Failed(v, IF v.block THEN v.state ELSE "CONFUSED")
          \/ t0' = T0Failed(t, IF v.block THEN v.state ELSE "CONFUSED")
      BY ONLY <3>1, <2>c
    <3> QED
      BY <2>b, <2>8, <3>2
  <2>9. T0Room(t)
    BY <2>1, <2>8 DEF T0Room, T0Good, T0Taken
  <2>10. ASSUME T0Exact(t) PROVE T0Calm(t)
    <3>1. T0Exact(t0)
      BY <2>1, <2>8, <2>10 DEF T0Exact, T0Taken
    <3>2. /\ Len(t0.out) = 0 /\ ~t0.crd.crossed /\ t0.in[1].is \in {"ack", "nack"}
          /\ T0Sending(t0) /\ T0SendIn(t0)
      BY <3>1, T0ProcExact
    <3>3. Len(t0.in) = 1 /\ t0.crd.busy
      BY <1>2, <3>2 DEF T0SendIn
    <3>4. t0.rbuf = <<>> /\ t0.crd.of = t0.call /\ t0.crd.data = t0.sbuf
      BY <3>2, <3>3 DEF T0Sending
    <3>5. q = <<>>
      BY <2>1, <3>3, T0Empty DEF T0Taken
    <3>6. T0SendOut(t)
      BY <2>1, <2>4, <2>5, <2>7, <2>8, <3>2, <3>3, <3>4, <3>5 DEF T0SendOut, T0Taken
    <3>7. T0SendIn(t)
      BY <2>8, <3>5 DEF T0SendIn
    <3>9. t.pc = "proc" /\ Len(t.out) = 1 /\ t.rbuf = <<>>
      BY <2>1, <2>7, <2>8, <3>2, <3>4 DEF T0Taken
    <3>10. 1 <= 1 /\ 1 # 0
      OBVIOUS
    <3>8. T0Sending(t)
      BY <3>6, <3>7, <3>9, <3>10 DEF T0Sending
    <3> QED
      BY <2>1, <2>8, <3>2, <3>8 DEF T0Calm, T0Taken
  <2>11. T0Good(t)
    BY <2>1, <2>8, <2>9, <2>10 DEF T0Good, T0Base, T0Exact
  <2>12. T0Base(t) /\ T0Base(v)
    BY <2>1, <2>8, <2>b DEF T0Base
  <2>13. T0Exact(v) \/ T0Exact(t) => ~t0.crd.crossed /\ Len(t0.out) = 0 /\ o[1] = d /\ Len(o) = 1
    <3>1. SUFFICES ASSUME T0Exact(t0)
                   PROVE  ~t0.crd.crossed /\ Len(t0.out) = 0
      BY <2>1, <2>7, <2>8, <2>b DEF T0Exact, T0Taken
    <3> QED
      BY <3>1, T0ProcExact
  <2>14. (T0Exact(v) => ~v.crd.crossed /\ T0Stuck(v)) /\ (T0Exact(t) => ~t.crd.crossed /\ T0Stuck(t))
    <3>1. v.out = t0.out /\ t.out = o /\ v.crd = t0.crd /\ t.crd = t0.crd
      BY <2>1, <2>8, <2>b DEF T0Taken
    <3>2. 1 <= 1 /\ 0 <= 1 /\ 0 # 1 /\ "data" # "head"
      OBVIOUS
    <3> QED
      BY <2>5, <2>13, <3>1, <3>2, Zenon DEF T0Stuck
  <2>15. v.state \in {"SENDING", "RECEIVING"} /\ t.state \in {"SENDING", "RECEIVING"}
    BY <2>1, <2>8, <2>b DEF T0Taken
  <2> QED
    BY <2>2, <2>11, <2>12, <2>14, <2>15, T0SendFailsGood
<1> QED
  BY <1>1, <1>2

LEMMA T0WholeTaken ==
  ASSUME T0Good(t0), NEW t \in T0Record, NEW s, NEW q, T0Taken(s, q), T0Whole(t0, 1),
         t.in = q, t.rbuf = t0.rbuf, t.rlen = t0.rlen, t.crd = t0.crd, t.call = t0.call
  PROVE  T0Whole(t, 0)
<1> DEFINE m == Len(t0.rbuf)
           w == Len(q)
<1>a. t0.rbuf \in Seq(T0Bytes) /\ t0.rlen \in 2 .. T0Le + 3
  BY DEF T0Good, T0Record
<1>b. q \in Seq(T0Bytes) /\ w + 1 = Len(t0.in)
  BY DEF T0Taken
<1>c. m <= t0.rlen - 2
  BY DEF T0Whole
<1>1. m \in Nat /\ t0.rlen \in Nat /\ w \in Nat /\ Len(t0.in) = w + 1 /\ m <= t0.rlen - 2
  BY <1>a, <1>b, <1>c, T0Assumption
<1>2. Len(t0.in) = 1 + t0.rlen - m
  BY DEF T0Whole
<1>3. \A j \in 1 .. w : q[j] = t0.in[j + 1]
  BY DEF T0Taken
<1>4. /\ ~t0.crd.busy
      /\ \A j \in 1 .. t0.rlen - 2 - m : t0.in[1 + j] = T0Byte("data", t0.call, m + j)
      /\ t0.in[Len(t0.in)].is = "sw2" /\ t0.in[Len(t0.in)].of = t0.call
      /\ t0.in[Len(t0.in) - 1].of = t0.call
  BY DEF T0Whole
<1> HIDE DEF m, w
<1>5. w = t0.rlen - m /\ w >= 2
  BY <1>1, <1>2
<1>d. w \in 1 .. w /\ w - 1 \in 1 .. w /\ (w - 1) + 1 = (w + 1) - 1
  BY <1>1, <1>5
<1>6. q[w] = t0.in[w + 1] /\ q[w - 1] = t0.in[(w - 1) + 1] /\ (w - 1) + 1 = (w + 1) - 1
  BY <1>3, <1>d
<1>7. \A j \in 1 .. t0.rlen - 2 - m : q[j] = T0Byte("data", t0.call, m + j)
  <2>1. SUFFICES ASSUME NEW j \in 1 .. t0.rlen - 2 - m PROVE q[j] = T0Byte("data", t0.call, m + j)
    OBVIOUS
  <2>2. j \in 1 .. w /\ j + 1 = 1 + j
    BY <1>1, <1>5
  <2> QED
    BY <1>3, <1>4, <2>1, <2>2
<1>8. /\ Len(t.in) = w /\ Len(t.rbuf) = m
  BY DEF w, m
<1>9. \A j \in 1 .. t.rlen - 2 - m : t.in[0 + j] = T0Byte("data", t.call, m + j)
  <2>1. SUFFICES ASSUME NEW j \in 1 .. t.rlen - 2 - m PROVE t.in[0 + j] = T0Byte("data", t.call, m + j)
    OBVIOUS
  <2>2. j \in 1 .. t0.rlen - 2 - m /\ 0 + j = j
    BY <1>1
  <2> QED
    BY <1>7, <2>2
<1>10. w = 0 + t.rlen - m
  BY <1>1, <1>5
<1>11. t.in[w].is = "sw2" /\ t.in[w].of = t.call /\ t.in[w - 1].of = t.call
  BY <1>1, <1>4, <1>6
<1> QED
  BY <1>1, <1>4, <1>8, <1>9, <1>10, <1>11 DEF T0Whole

LEMMA T0AckReceives ==
  ASSUME T0Good(t0), t0.pc = "proc", t0.in # <<>>, t0.state = "RECEIVING",
         NEW n \in {0, 1}, (IF n = 0 THEN "ack" ELSE "nack") \in T0Class(Head(t0.in)), T0Ack(n)
  PROVE  T0Good(t0')
<1> DEFINE s == T0Take
           q == Tail(t0.in)
           k == IF n = 0 THEN t0.rlen - Len(t0.rbuf) ELSE n
           t == [s EXCEPT !.pc = "data", !.want = k]
<1>1. T0Taken(s, q) /\ T0Base(s)
  BY T0TakeTaken
<1>2. t0' = t
  BY DEF T0Ack
<1>3. Len(t0.rbuf) \in Nat /\ t0.rlen \in Nat /\ Len(t0.rbuf) < t0.rlen
  BY DEF T0Good, T0Room, T0Record
<1>4. k \in Nat /\ Len(t0.rbuf) + k <= t0.rlen
  BY <1>3
<1>5. (n = 0 => k = t0.rlen - Len(t0.rbuf)) /\ (n = 1 => k = 1)
  OBVIOUS
<1> HIDE DEF s, q, k
<1>6. /\ t \in T0Record /\ t.in = q /\ t.rbuf = s.rbuf /\ t.rlen = s.rlen /\ t.crd = s.crd
      /\ t.block = s.block /\ t.state = s.state /\ t.dirty = s.dirty /\ t.out = s.out
      /\ t.pc = "data" /\ t.call = s.call /\ t.want = k
  BY <1>1, <1>4 DEF T0Taken, T0Record
<1> HIDE DEF t
<1>7. T0Room(t)
  BY <1>1, <1>4, <1>6 DEF T0Room, T0Good, T0Taken
<1>8. ASSUME T0Exact(t) PROVE T0Calm(t)
  <2>1. T0Exact(t0)
    BY <1>1, <1>6, <1>8 DEF T0Exact, T0Taken
  <2>2. /\ Len(t0.out) = 0 /\ ~t0.crd.crossed /\ t0.in[1].is = IF n = 0 THEN "ack" ELSE "nack"
        /\ T0Receiving(t0) /\ T0RecvIn(t0)
    BY <2>1, T0ProcExact
  <2>3. T0RecvData(t)
    <3>1. CASE n = 0
      <4>1. T0Whole(t0, 1)
        BY <2>2, <3>1 DEF T0RecvIn
      <4>2. T0Whole(t, 0)
        BY <1>1, <1>6, <4>1, T0WholeTaken DEF T0Taken
      <4> QED
        BY <1>1, <1>5, <1>6, <3>1, <4>2 DEF T0RecvData, T0Taken
    <3>2. CASE n = 1
      <4>1. /\ Len(t0.in) = 2 /\ t0.crd.busy /\ Len(t0.rbuf) + 1 = t0.crd.done
            /\ t0.in[2] = T0Byte("data", t0.call, t0.crd.done)
        BY <2>2, <3>2 DEF T0RecvIn
      <4>2. Len(q) = 1 /\ q[1] = t0.in[2]
        BY <1>1, <4>1, T0TakenTwo
      <4> QED
        BY <1>1, <1>5, <1>6, <3>2, <4>1, <4>2 DEF T0RecvData, T0Taken
    <3> QED
      BY <3>1, <3>2
  <2>4. T0Got(t, Len(t.rbuf))
    <3>1. T0Got(t0, Len(t0.rbuf))
      BY <2>2 DEF T0Receiving
    <3> QED
      BY <1>1, <1>6, <3>1 DEF T0Got, T0Taken
  <2>5. t.crd.busy => t.crd.of = t.call /\ t.crd.data = 0 /\ t.crd.owed = t.rlen - 2
    BY <1>1, <1>6, <2>2 DEF T0Receiving, T0Taken
  <2>6. T0Receiving(t)
    BY <1>1, <1>6, <2>2, <2>3, <2>4, <2>5 DEF T0Receiving, T0RecvIn, T0Taken
  <2> QED
    BY <1>1, <1>6, <2>2, <2>6 DEF T0Calm, T0Taken
<1> QED
  BY <1>1, <1>2, <1>6, <1>7, <1>8 DEF T0Good, T0Base, T0Exact

LEMMA T0ProcedureGood == ASSUME T0Good(t0), T0Procedure PROVE T0Good(t0')
<1>0. t0.pc = "proc" /\ t0.in # <<>> /\ t0.state \in {"SENDING", "RECEIVING"}
  BY DEF T0Procedure, T0Good, T0Room
<1>1. PICK c \in T0Class(Head(t0.in)) :
         \/ c = "null" /\ T0Null
         \/ c = "sw" /\ t0' = T0SwTaken
         \/ c = "ack" /\ T0Ack(0)
         \/ c = "nack" /\ T0Ack(1)
         \/ c = "odd" /\ t0' = T0Failed(T0Take, t0.state)
  BY DEF T0Procedure, T0SwTaken
<1>2. CASE c = "null" /\ T0Null
  BY <1>0, <1>1, <1>2, T0NullGood
<1>3. CASE c = "sw" /\ t0' = T0SwTaken
  BY <1>0, <1>1, <1>3, T0SwGood
<1>4. CASE c = "ack" /\ T0Ack(0)
  <2>1. 0 \in {0, 1} /\ (IF 0 = 0 THEN "ack" ELSE "nack") \in T0Class(Head(t0.in))
    BY <1>1, <1>4
  <2> QED
    BY <1>0, <1>4, <2>1, T0AckSends, T0AckReceives
<1>5. CASE c = "nack" /\ T0Ack(1)
  <2>1. 1 \in {0, 1} /\ (IF 1 = 0 THEN "ack" ELSE "nack") \in T0Class(Head(t0.in))
    BY <1>1, <1>5
  <2> QED
    BY <1>0, <1>5, <2>1, T0AckSends, T0AckReceives
<1>6. CASE c = "odd" /\ t0' = T0Failed(T0Take, t0.state)
  <2>1. t0.state \in {"SENDING", "RECEIVING", "CONFUSED"}
    BY <1>0
  <2> QED
    BY <1>0, <1>6, <2>1, T0FailGood
<1> QED
  BY <1>1, <1>2, <1>3, <1>4, <1>5, <1>6

LEMMA T0Sw2Good == ASSUME T0Good(t0), T0Sw2 PROVE T0Good(t0')
<1> DEFINE s == T0Take
           q == Tail(t0.in)
           r == Append(s.rbuf, Head(t0.in))
           t == [s EXCEPT !.rbuf = r]
<1>0. t0.pc = "sw2" /\ t0.in # <<>> /\ t0.state \in {"SENDING", "RECEIVING"} /\ Len(t0.rbuf) >= 1
  BY DEF T0Sw2, T0Good, T0Room
<1>1. T0Taken(s, q) /\ T0Base(s)
  BY <1>0, T0TakeTaken
<1>2. s.rbuf \in Seq(T0Bytes) /\ s.rbuf = t0.rbuf /\ Head(t0.in) = t0.in[1] /\ t0.in[1] \in T0Bytes
  BY <1>1 DEF T0Taken, T0Record
<1>3. /\ r \in Seq(T0Bytes) /\ Len(r) = Len(t0.rbuf) + 1 /\ r[Len(r)] = t0.in[1]
      /\ \A i \in 1 .. Len(t0.rbuf) : r[i] = t0.rbuf[i]
      /\ Len(t0.rbuf) \in Nat
  BY <1>2
<1>4. t0.rlen \in Nat /\ t0.rlen >= 2 /\ Len(t0.rbuf) <= t0.rlen
  BY T0Assumption DEF T0Good, T0Record, T0Room
<1>5. T0Exact(t0) =>
        /\ Len(t0.rbuf) < t0.rlen /\ T0LastIn(t0) /\ ~t0.crd.crossed
        /\ T0Got(t0, Len(t0.rbuf) - 1) /\ t0.rbuf[Len(t0.rbuf)].of = t0.call
  <2>1. SUFFICES ASSUME T0Exact(t0), T0Calm(t0)
                 PROVE  /\ Len(t0.rbuf) < t0.rlen /\ T0LastIn(t0) /\ ~t0.crd.crossed
                        /\ T0Got(t0, Len(t0.rbuf) - 1) /\ t0.rbuf[Len(t0.rbuf)].of = t0.call
    BY T0GoodBase
  <2>2. CASE t0.state = "SENDING"
    <3>1. T0Sending(t0)
      BY <1>0, <2>1, <2>2 DEF T0Calm
    <3>2. Len(t0.rbuf) = 1 /\ t0.rbuf[1].of = t0.call /\ T0LastIn(t0)
      BY <1>0, <3>1 DEF T0Sending
    <3>3. T0Got(t0, 1 - 1)
      BY DEF T0Got
    <3> QED
      BY <1>4, <2>1, <3>2, <3>3 DEF T0Calm
  <2>3. CASE t0.state = "RECEIVING"
    <3>1. T0Receiving(t0)
      BY <1>0, <2>1, <2>3 DEF T0Calm
    <3> QED
      BY <1>0, <2>1, <3>1 DEF T0Receiving, T0Calm
  <2> QED
    BY <1>0, <2>2, <2>3
<1>6. CASE Len(t0.rbuf) = t0.rlen
  <2> DEFINE u == [s EXCEPT !.past = TRUE]
  <2>1. t0' \in T0Ended(u)
    BY <1>6 DEF T0Sw2
  <2> HIDE DEF s
  <2>2. /\ u \in T0Record /\ u.rbuf = s.rbuf /\ u.rlen = s.rlen /\ u.crd = s.crd
        /\ u.block = s.block /\ u.state = s.state /\ u.dirty = s.dirty
    BY <1>1 DEF T0Taken, T0Record
  <2> HIDE DEF u
  <2>3. T0Base(u) /\ ~T0Exact(u)
    BY <1>1, <1>4, <1>5, <1>6, <2>2 DEF T0Exact, T0Taken, T0Base
  <2>4. u.state \in {"SENDING", "RECEIVING"} /\ Len(u.rbuf) >= 1
    BY <1>0, <1>1, <2>2 DEF T0Taken
  <2> QED
    BY <2>1, <2>3, <2>4, T0EndedGood
<1>7. CASE Len(t0.rbuf) # t0.rlen
  <2>1. t0' \in T0Ended(t)
    BY <1>7 DEF T0Sw2
  <2>a. Len(r) <= t0.rlen /\ Len(r) >= 1 /\ Len(r) >= 2
    <3> DEFINE m == Len(t0.rbuf)
    <3>1. m \in Nat /\ m >= 1 /\ m <= t0.rlen /\ m # t0.rlen /\ Len(r) = m + 1
      BY <1>0, <1>3, <1>4, <1>7
    <3> HIDE DEF m, r
    <3> QED
      BY <3>1, <1>4
  <2> HIDE DEF s, q, r
  <2>2. /\ t \in T0Record /\ t.in = q /\ t.rbuf = r /\ t.rlen = s.rlen /\ t.crd = s.crd
        /\ t.block = s.block /\ t.state = s.state /\ t.dirty = s.dirty /\ t.out = s.out
        /\ t.call = s.call
    BY <1>1, <1>3 DEF T0Taken, T0Record
  <2> HIDE DEF t
  <2>3. T0Base(t)
    BY <1>1, <2>2, <2>a DEF T0Base, T0Taken
  <2>4. ASSUME T0Exact(t) PROVE T0Clear(t) /\ T0Own(t)
    <3>1. T0Exact(t0)
      BY <1>1, <2>2, <2>4 DEF T0Exact, T0Taken
    <3>2. /\ ~t0.crd.busy /\ Len(t0.out) = 0 /\ Len(t0.in) = 1 /\ t0.in[1].is = "sw2"
          /\ t0.in[1].of = t0.call /\ ~t0.crd.crossed
      BY <1>5, <3>1 DEF T0LastIn
    <3>3. q = <<>>
      <4>1. Len(q) + 1 = 1 /\ q \in Seq(T0Bytes)
        BY <1>1, <3>2 DEF T0Taken
      <4> DEFINE m == Len(q)
      <4>2. m \in Nat /\ m + 1 = 1
        BY <4>1, T0Empty
      <4> HIDE DEF m
      <4>3. m = 0
        BY <4>2
      <4> QED
        BY <4>1, <4>3, T0Empty DEF m
    <3>4. t0.out = <<>>
      BY <3>2, T0Empty DEF T0Good, T0Record
    <3>5. T0Clear(t)
      BY <1>1, <2>2, <3>2, <3>3, <3>4 DEF T0Clear, T0Taken
    <3>6. T0Own(t)
      <4> DEFINE m == Len(t0.rbuf)
      <4>1. m \in Nat /\ Len(r) = m + 1 /\ r[m + 1] = t0.in[1] /\ \A i \in 1 .. m : r[i] = t0.rbuf[i]
        BY <1>3
      <4>2. \A i \in 1 .. m - 1 : t0.rbuf[i] = T0Byte("data", t0.call, i)
        BY <1>5, <3>1 DEF T0Got
      <4>3. t0.rbuf[m].of = t0.call /\ m >= 1
        BY <1>0, <1>5, <3>1
      <4> HIDE DEF m
      <4>a. \A i : T0Byte("data", t0.call, i).of = t0.call
        BY DEF T0Byte
      <4>4. \A i \in 1 .. m - 1 : t0.rbuf[i].of = t0.call
        BY <4>2, <4>a
      <4>5. \A i \in 1 .. m + 1 : r[i].of = t0.call
        BY <3>2, <4>1, <4>3, <4>4
      <4>6. \A i \in 1 .. (m + 1) - 2 : r[i] = T0Byte("data", t0.call, i)
        BY <4>1, <4>2
      <4>7. t.rbuf = r /\ t.call = t0.call
        BY <1>1, <2>2 DEF T0Taken
      <4>8. m + 1 >= 2
        BY <4>1, <4>3
      <4> QED
        BY <3>2, <4>1, <4>5, <4>6, <4>7, <4>8 DEF T0Own
    <3> QED
      BY <3>5, <3>6
  <2>5. t.state \in {"SENDING", "RECEIVING"} /\ Len(t.rbuf) >= 1
    BY <1>0, <1>1, <2>2, <2>a DEF T0Taken
  <2> QED
    BY <2>1, <2>3, <2>4, <2>5, T0EndedGood
<1> QED
  BY <1>6, <1>7

LEMMA T0Moved ==
  ASSUME NEW r \in Seq(T0Bytes), NEW q \in Seq(T0Bytes), NEW w \in Nat, w <= Len(q)
  PROVE  /\ r \o SubSeq(q, 1, w) \in Seq(T0Bytes) /\ SubSeq(q, w + 1, Len(q)) \in Seq(T0Bytes)
         /\ Len(r \o SubSeq(q, 1, w)) = Len(r) + w /\ Len(SubSeq(q, w + 1, Len(q))) + w = Len(q)
         /\ \A i \in 1 .. Len(r) : (r \o SubSeq(q, 1, w))[i] = r[i]
         /\ \A j \in 1 .. w : (r \o SubSeq(q, 1, w))[Len(r) + j] = q[j]
<1> DEFINE p == SubSeq(q, 1, w)
           r2 == r \o p
<1>1. p \in Seq(T0Bytes) /\ Len(p) = w /\ \A j \in 1 .. w : p[j] = q[j]
  OBVIOUS
<1>2. SubSeq(q, w + 1, Len(q)) \in Seq(T0Bytes) /\ Len(SubSeq(q, w + 1, Len(q))) + w = Len(q)
  OBVIOUS
<1> HIDE DEF p
<1>4. r2 \in Seq(T0Bytes) /\ Len(r2) = Len(r) + w
  BY <1>1
<1>5. \A i \in 1 .. Len(r) : r2[i] = r[i]
  BY <1>1
<1>6. \A j \in 1 .. w : r2[Len(r) + j] = q[j]
  BY <1>1
<1> QED
  BY <1>2, <1>4, <1>5, <1>6 DEF p

(* t0_recv() of the data has moved it from the line to the buffer. *)
T0Recvd == [t0 EXCEPT !.rbuf = @ \o SubSeq(t0.in, 1, t0.want),
                      !.in = SubSeq(@, t0.want + 1, Len(@))]

LEMMA T0RecvdMoved ==
  ASSUME T0Good(t0), t0.pc = "data", Len(t0.in) >= t0.want
  PROVE  /\ T0Recvd \in T0Record /\ T0Base(T0Recvd)
         /\ Len(T0Recvd.rbuf) = Len(t0.rbuf) + t0.want /\ Len(T0Recvd.in) + t0.want = Len(t0.in)
         /\ \A i \in 1 .. Len(t0.rbuf) : T0Recvd.rbuf[i] = t0.rbuf[i]
         /\ \A j \in 1 .. t0.want : T0Recvd.rbuf[Len(t0.rbuf) + j] = t0.in[j]
         /\ T0Recvd.rlen = t0.rlen /\ T0Recvd.crd = t0.crd /\ T0Recvd.block = t0.block
         /\ T0Recvd.state = t0.state /\ T0Recvd.dirty = t0.dirty /\ T0Recvd.out = t0.out
         /\ T0Recvd.call = t0.call
<1> DEFINE r == t0.rbuf \o SubSeq(t0.in, 1, t0.want)
           q == SubSeq(t0.in, t0.want + 1, Len(t0.in))
           t == [t0 EXCEPT !.rbuf = r, !.in = q]
<1>0. /\ t0 \in T0Record /\ t0.rbuf \in Seq(T0Bytes) /\ t0.in \in Seq(T0Bytes) /\ t0.want \in Nat
      /\ t0.want <= Len(t0.in) /\ Len(t0.rbuf) + t0.want <= t0.rlen
  BY DEF T0Good, T0Record, T0Room
<1>1. /\ r \in Seq(T0Bytes) /\ q \in Seq(T0Bytes)
      /\ Len(r) = Len(t0.rbuf) + t0.want /\ Len(q) + t0.want = Len(t0.in)
      /\ \A i \in 1 .. Len(t0.rbuf) : r[i] = t0.rbuf[i]
      /\ \A j \in 1 .. t0.want : r[Len(t0.rbuf) + j] = t0.in[j]
  <2> DEFINE a == t0.rbuf
             b == t0.in
             w == t0.want
  <2>1. a \in Seq(T0Bytes) /\ b \in Seq(T0Bytes) /\ w \in Nat /\ w <= Len(b)
    BY <1>0
  <2>2. r = a \o SubSeq(b, 1, w) /\ q = SubSeq(b, w + 1, Len(b))
    OBVIOUS
  <2> HIDE DEF a, b, w
  <2>a. /\ a \o SubSeq(b, 1, w) \in Seq(T0Bytes) /\ SubSeq(b, w + 1, Len(b)) \in Seq(T0Bytes)
        /\ Len(a \o SubSeq(b, 1, w)) = Len(a) + w /\ Len(SubSeq(b, w + 1, Len(b))) + w = Len(b)
        /\ \A i \in 1 .. Len(a) : (a \o SubSeq(b, 1, w))[i] = a[i]
        /\ \A j \in 1 .. w : (a \o SubSeq(b, 1, w))[Len(a) + j] = b[j]
    BY ONLY <2>1, T0Moved
  <2> HIDE DEF r, q
  <2>3. /\ r \in Seq(T0Bytes) /\ q \in Seq(T0Bytes)
        /\ Len(r) = Len(a) + w /\ Len(q) + w = Len(b)
        /\ \A i \in 1 .. Len(a) : r[i] = a[i]
        /\ \A j \in 1 .. w : r[Len(a) + j] = b[j]
    BY ONLY <2>2, <2>a
  <2> QED
    BY <2>3 DEF a, b, w
<1>2. T0Recvd = t
  BY <1>0 DEF T0Recvd, T0Record
<1> HIDE DEF r, q
<1>3. /\ t \in T0Record /\ t.rbuf = r /\ t.in = q /\ t.rlen = t0.rlen /\ t.crd = t0.crd
      /\ t.block = t0.block /\ t.state = t0.state /\ t.dirty = t0.dirty /\ t.out = t0.out
      /\ t.call = t0.call
  BY <1>0, <1>1 DEF T0Record
<1> HIDE DEF t
<1>4. T0Base(t)
  BY <1>0, <1>1, <1>3 DEF T0Base, T0Good, T0Room
<1> QED
  BY <1>1, <1>2, <1>3, <1>4

(* Where a data phase stands, byte by byte. *)
LEMMA T0DataExact ==
  ASSUME T0Good(t0), T0Exact(t0), t0.pc = "data"
  PROVE  /\ t0.state = "RECEIVING" /\ T0RecvData(t0) /\ T0Receiving(t0) /\ t0.out = <<>>
         /\ T0Got(t0, Len(t0.rbuf)) /\ ~t0.crd.crossed
<1>1. t0 \in T0Record /\ T0Calm(t0) /\ t0.state \in {"SENDING", "RECEIVING"}
  BY T0GoodBase DEF T0Good, T0Room
<1>2. t0.state # "SENDING"
  BY <1>1 DEF T0Calm, T0Sending
<1>3. T0Receiving(t0) /\ ~t0.crd.crossed
  BY <1>1, <1>2 DEF T0Calm
<1>4. Len(t0.out) <= 1 /\ Len(t0.out) # 1 /\ T0RecvData(t0) /\ T0Got(t0, Len(t0.rbuf))
  BY <1>3 DEF T0Receiving
<1>5. t0.out = <<>>
  <2> DEFINE m == Len(t0.out)
  <2>1. t0.out \in Seq(T0Sent)
    BY <1>1 DEF T0Record
  <2>2. m \in Nat /\ m <= 1 /\ m # 1
    BY <1>4, <2>1, T0Empty
  <2> HIDE DEF m
  <2>3. m = 0
    BY <2>2
  <2> QED
    BY <2>1, <2>3, T0Empty DEF m
<1> QED
  BY <1>1, <1>2, <1>3, <1>4, <1>5

LEMMA T0DataGood == ASSUME T0Good(t0), T0Data PROVE T0Good(t0')
<1> DEFINE s == T0Recvd
           m == Len(t0.rbuf)
           w == t0.want
<1>0. t0.pc = "data" /\ Len(t0.in) >= t0.want
  BY DEF T0Data
<1>1. t0' = IF Len(s.rbuf) = s.rlen THEN T0Done(s, "ok") ELSE [s EXCEPT !.pc = "proc"]
  BY DEF T0Data, T0Recvd
<1>2. /\ s \in T0Record /\ T0Base(s)
      /\ Len(s.rbuf) = m + w /\ Len(s.in) + w = Len(t0.in)
      /\ \A i \in 1 .. m : s.rbuf[i] = t0.rbuf[i]
      /\ \A j \in 1 .. w : s.rbuf[m + j] = t0.in[j]
      /\ s.rlen = t0.rlen /\ s.crd = t0.crd /\ s.block = t0.block
      /\ s.state = t0.state /\ s.dirty = t0.dirty /\ s.out = t0.out /\ s.call = t0.call
  BY <1>0, T0RecvdMoved
<1>3. /\ m \in Nat /\ w \in Nat /\ t0.rlen \in Nat /\ t0.rlen >= 2 /\ m + w <= t0.rlen
      /\ t0.state \in {"SENDING", "RECEIVING"} /\ t0.crd.done \in Nat /\ t0.crd.owed \in Nat
      /\ t0.crd.done <= t0.crd.owed
  <2>1. /\ t0.rbuf \in Seq(T0Bytes) /\ t0.rlen \in 2 .. T0Le + 3 /\ w \in Nat
        /\ t0.crd.done \in Nat /\ t0.crd.owed \in 0 .. T0Le
    BY DEF T0Good, T0Record, T0Crd
  <2>2. m + w <= t0.rlen /\ t0.state \in {"SENDING", "RECEIVING"} /\ t0.crd.done <= t0.crd.owed
    BY <1>0 DEF T0Good, T0Room
  <2> QED
    BY <2>1, <2>2, T0Assumption
<1>4. T0Exact(s) => T0Exact(t0)
  BY <1>2 DEF T0Exact
<1>5. Len(s.in) \in Nat /\ (Len(s.in) = 0 => s.in = <<>>)
  BY <1>2, T0Empty DEF T0Record
<1> HIDE DEF s, m, w
<1>6. ASSUME T0Exact(t0)
      PROVE  \/ /\ w = 1 /\ Len(t0.in) = 1 /\ t0.crd.busy /\ m + 1 = t0.crd.done
                /\ t0.in[1] = T0Byte("data", t0.call, t0.crd.done)
             \/ w = t0.rlen - m /\ T0Whole(t0, 0)
  BY <1>0, <1>6, T0DataExact DEF T0RecvData, m, w
<1>7. CASE Len(s.rbuf) = s.rlen
  <2>1. ASSUME T0Exact(s) PROVE T0Clear(s) /\ T0Own(s)
    <3>1. T0Exact(t0) /\ t0.out = <<>> /\ ~t0.crd.crossed /\ T0Got(t0, m) /\ T0Receiving(t0)
      BY <1>0, <1>4, <2>1, T0DataExact DEF m
    <3>2. T0Whole(t0, 0) /\ w = t0.rlen - m
      <4>1. ASSUME w = 1, t0.crd.busy, m + 1 = t0.crd.done PROVE FALSE
        <5>1. t0.crd.owed = t0.rlen - 2
          BY <3>1, <4>1 DEF T0Receiving
        <5> QED
          BY <1>2, <1>3, <1>7, <4>1, <5>1
      <4> QED
        BY <1>6, <3>1, <4>1
    <3>3. /\ ~t0.crd.busy /\ m <= t0.rlen - 2 /\ Len(t0.in) = 0 + t0.rlen - m
          /\ \A j \in 1 .. t0.rlen - 2 - m : t0.in[0 + j] = T0Byte("data", t0.call, m + j)
          /\ t0.in[Len(t0.in)].is = "sw2" /\ t0.in[Len(t0.in)].of = t0.call
          /\ t0.in[Len(t0.in) - 1].of = t0.call
      BY <3>2 DEF T0Whole, m
    <3>4. Len(t0.in) = w /\ w >= 2 /\ m + w = t0.rlen
      BY <1>3, <3>2, <3>3, SMTT(60)
    <3>5. s.in = <<>>
      <4>1. Len(s.in) = 0
        BY <1>2, <1>3, <1>5, <3>4
      <4> QED
        BY <1>5, <4>1
    <3>6. T0Clear(s)
      BY <1>2, <3>1, <3>3, <3>5 DEF T0Clear
    <3>7. \A j \in 1 .. w - 2 : t0.in[j] = T0Byte("data", t0.call, m + j)
      <4>1. SUFFICES ASSUME NEW j \in 1 .. w - 2 PROVE t0.in[j] = T0Byte("data", t0.call, m + j)
        OBVIOUS
      <4>2. j \in 1 .. t0.rlen - 2 - m /\ 0 + j = j
        BY <1>3, <3>2
      <4> QED
        BY <3>3, <4>2
    <3>8. \A i \in 1 .. (m + w) - 2 : s.rbuf[i] = T0Byte("data", s.call, i)
      <4>1. SUFFICES ASSUME NEW i \in 1 .. (m + w) - 2 PROVE s.rbuf[i] = T0Byte("data", s.call, i)
        OBVIOUS
      <4>2. CASE i <= m
        <5>1. i \in 1 .. m
          BY <1>3, <4>2
        <5> QED
          BY <1>2, <3>1, <5>1 DEF T0Got
      <4>3. CASE i > m
        <5>1. i - m \in 1 .. w - 2 /\ i - m \in 1 .. w /\ m + (i - m) = i
          BY <1>3, <4>3
        <5>2. t0.in[i - m] = T0Byte("data", t0.call, m + (i - m))
          BY <3>7, <5>1
        <5>3. s.rbuf[m + (i - m)] = t0.in[i - m]
          BY <1>2, <5>1
        <5> QED
          BY <1>2, <5>1, <5>2, <5>3
      <4> QED
        BY <1>3, <4>2, <4>3
    <3>9. /\ s.rbuf[m + w].is = "sw2" /\ s.rbuf[m + w].of = t0.call
          /\ s.rbuf[(m + w) - 1].of = t0.call
      <4>1. w \in 1 .. w /\ w - 1 \in 1 .. w /\ m + (w - 1) = (m + w) - 1
        BY <1>3, <3>4
      <4>2. s.rbuf[m + w] = t0.in[w] /\ s.rbuf[m + (w - 1)] = t0.in[w - 1]
        BY <1>2, <4>1
      <4> QED
        BY <3>3, <3>4, <4>1, <4>2
    <3>10. \A i : T0Byte("data", s.call, i).of = s.call
      BY DEF T0Byte
    <3>11. \A i \in 1 .. m + w : s.rbuf[i].of = s.call
      <4>1. SUFFICES ASSUME NEW i \in 1 .. m + w PROVE s.rbuf[i].of = s.call
        OBVIOUS
      <4>2. i \in 1 .. (m + w) - 2 \/ i = m + w \/ i = (m + w) - 1
        BY <1>3
      <4> QED
        BY <1>2, <3>8, <3>9, <3>10, <4>2
    <3>12. m + w >= 2
      BY <1>3, <3>4
    <3> QED
      BY <1>2, <3>6, <3>8, <3>9, <3>11, <3>12 DEF T0Own
  <2> QED
    BY <1>1, <1>2, <1>7, <2>1, T0DoneOkGood
<1>8. CASE Len(s.rbuf) # s.rlen
  <2> DEFINE t == [s EXCEPT !.pc = "proc"]
  <2>1. /\ t \in T0Record /\ t.in = s.in /\ t.rbuf = s.rbuf /\ t.rlen = s.rlen /\ t.crd = s.crd
        /\ t.block = s.block /\ t.state = s.state /\ t.dirty = s.dirty /\ t.out = s.out
        /\ t.call = s.call /\ t.pc = "proc"
    BY <1>2 DEF T0Record
  <2>2. t0' = t
    BY <1>1, <1>8
  <2> HIDE DEF t
  <2>3. T0Room(t)
    BY <1>2, <1>3, <1>8, <2>1 DEF T0Room, T0Base
  <2>4. ASSUME T0Exact(t) PROVE T0Calm(t)
    <3>1. /\ T0Exact(t0) /\ t0.out = <<>> /\ ~t0.crd.crossed /\ T0Got(t0, m) /\ T0Receiving(t0)
          /\ t0.state = "RECEIVING"
      BY <1>0, <1>2, <2>1, <2>4, T0DataExact DEF T0Exact, m
    <3>2. /\ w = 1 /\ Len(t0.in) = 1 /\ t0.crd.busy /\ m + 1 = t0.crd.done
          /\ t0.in[1] = T0Byte("data", t0.call, t0.crd.done)
      <4>1. w # t0.rlen - m
        BY <1>2, <1>3, <1>8
      <4> QED
        BY <1>6, <3>1, <4>1
    <3>3. s.in = <<>>
      <4>1. Len(s.in) = 0
        BY <1>2, <1>5, <3>2
      <4> QED
        BY <1>5, <4>1
    <3>4. s.rbuf[m + 1] = t0.in[1] /\ Len(s.rbuf) = m + 1
      <4>1. 1 \in 1 .. w
        BY <3>2
      <4> QED
        BY <1>2, <3>2, <4>1
    <3>5. T0Got(s, m + 1)
      <4>1. SUFFICES ASSUME NEW i \in 1 .. m + 1 PROVE s.rbuf[i] = T0Byte("data", s.call, i)
        BY DEF T0Got
      <4>2. i \in 1 .. m \/ i = m + 1
        BY <1>3
      <4> QED
        BY <1>2, <3>1, <3>2, <3>4, <4>2 DEF T0Got
    <3>6. T0Got(t, Len(t.rbuf))
      BY <2>1, <3>4, <3>5 DEF T0Got
    <3>7. t.crd.busy => t.crd.of = t.call /\ t.crd.data = 0 /\ t.crd.owed = t.rlen - 2
      BY <1>2, <2>1, <3>1 DEF T0Receiving
    <3>8. Len(t.out) = 0 /\ Len(t.rbuf) = t.crd.done
      BY <1>2, <2>1, <3>1, <3>2, <3>4, T0Empty
    <3>9. T0Receiving(t)
      BY <2>1, <3>3, <3>6, <3>7, <3>8 DEF T0Receiving, T0RecvIn, T0RecvData
    <3> QED
      BY <1>2, <2>1, <3>1, <3>9 DEF T0Calm
  <2> QED
    BY <1>2, <2>1, <2>2, <2>3, <2>4 DEF T0Good, T0Base, T0Exact
<1> QED
  BY <1>7, <1>8

LEMMA T0TimeoutGood == ASSUME T0Good(t0), T0Timeout PROVE T0Good(t0')
<1> DEFINE e == <<>>
           q == IF t0.pc = "data" THEN e ELSE t0.in
<1>0. t0 \in T0Record /\ t0.in \in Seq(T0Bytes) /\ t0.late \in Nat /\ t0.pc # "idle"
  BY DEF T0Good, T0Record, T0Timeout
<1>1. e \in Seq(T0Bytes) /\ q \in Seq(T0Bytes)
  BY <1>0, T0Empty
<1>2. PICK l \in Nat : t0' = T0Failed([t0 EXCEPT !.late = l, !.in = q], "CONFUSED")
  <2>1. t0.late \in Nat /\ t0.late + 1 \in Nat
    BY <1>0
  <2> QED
    BY <2>1 DEF T0Timeout
<1> DEFINE s == [t0 EXCEPT !.late = l, !.in = q]
<1> HIDE DEF e, q
<1>3. /\ s \in T0Record /\ s.rbuf = t0.rbuf /\ s.rlen = t0.rlen /\ s.crd = t0.crd
      /\ s.block = t0.block /\ s.state = t0.state /\ s.dirty = t0.dirty /\ s.out = t0.out
  BY <1>0, <1>1 DEF T0Record
<1>4. t0' = T0Failed(s, "CONFUSED")
  BY <1>2
<1> HIDE DEF s
<1>5. T0Base(s)
  BY <1>3, T0GoodBase DEF T0Base
<1>6. T0Exact(s) /\ s.state = "SENDING" => ~s.crd.crossed /\ T0Stuck(s)
  BY <1>0, <1>3, T0GoodBase, T0SendingStuck DEF T0Exact, T0Stuck
<1> QED
  BY <1>4, <1>5, <1>6, T0FailedGood

(* The reader's t0_xcv() of a block oriented protocol: the driver's answer. *)
T0Answer(n) == [i \in 1 .. n |-> IF i <= n - 2 THEN T0Byte("data", t0.call, i)
                                 ELSE T0Byte(IF i = n - 1 THEN "sw9x" ELSE "sw2", t0.call, 0)]

LEMMA T0AnswerBytes ==
  ASSUME T0Good(t0), NEW n \in Nat
  PROVE  T0Answer(n) \in Seq(T0Bytes) /\ Len(T0Answer(n)) = n
<1>1. t0.call \in Nat
  BY DEF T0Good, T0Record
<1>2. /\ \A i \in Nat : T0Byte("data", t0.call, i) \in T0Bytes
      /\ T0Byte("sw9x", t0.call, 0) \in T0Bytes /\ T0Byte("sw2", t0.call, 0) \in T0Bytes
  BY <1>1 DEF T0Byte, T0Bytes, T0Kinds
<1> DEFINE f(i) == IF i <= n - 2 THEN T0Byte("data", t0.call, i)
                   ELSE T0Byte(IF i = n - 1 THEN "sw9x" ELSE "sw2", t0.call, 0)
<1>3. \A i \in 1 .. n : f(i) \in T0Bytes
  BY <1>2
<1>4. T0Answer(n) = [i \in 1 .. n |-> f(i)]
  BY DEF T0Answer
<1> HIDE DEF f
<1> QED
  BY <1>3, <1>4

LEMMA T0BlockGood ==
  ASSUME T0Good(t0), NEW n \in Nat, T0Block(n)
  PROVE  T0Good(t0')
<1> DEFINE e == <<>>
           s == [t0 EXCEPT !.out = e]
           r == T0Answer(n)
           t == [s EXCEPT !.rbuf = r]
<1>0. t0 \in T0Record /\ t0.pc = "proc" /\ t0.block /\ n <= t0.rlen
  BY DEF T0Good, T0Block
<1>1. e \in Seq(T0Sent)
  BY T0Empty
<1>2. t0' \in IF s.state # "RECEIVING" /\ n < 2 THEN {T0Return(s, "error")}
              ELSE IF s.state # "RECEIVING" /\ n = 2 THEN T0Ended(t)
              ELSE {T0Done(t, "ok")}
  <2>1. s.call = t0.call
    BY <1>0 DEF T0Record
  <2> QED
    BY <2>1 DEF T0Block, T0Answer
<1>3. r \in Seq(T0Bytes) /\ Len(r) = n
  BY T0AnswerBytes
<1> HIDE DEF e, r
<1>4. /\ s \in T0Record /\ s.rlen = t0.rlen /\ s.crd = t0.crd /\ s.block = t0.block
      /\ s.state = t0.state /\ s.rbuf = t0.rbuf
  BY <1>0, <1>1 DEF T0Record
<1> HIDE DEF s
<1>5. /\ t \in T0Record /\ t.rlen = t0.rlen /\ t.crd = t0.crd /\ t.block = t0.block
      /\ t.state = t0.state /\ t.rbuf = r
  BY <1>3, <1>4 DEF T0Record
<1> HIDE DEF t
<1>6. T0Base(s) /\ T0Base(t) /\ ~T0Exact(s) /\ ~T0Exact(t)
  BY <1>0, <1>3, <1>4, <1>5, T0GoodBase DEF T0Base, T0Exact
<1>7. T0Good(T0Return(s, "error"))
  <2> DEFINE u == [s EXCEPT !.pc = "idle", !.ret = "error"]
  <2>1. /\ u \in T0Record /\ u.rlen = s.rlen /\ u.crd = s.crd /\ u.block = s.block
        /\ u.rbuf = s.rbuf /\ u.pc = "idle"
    BY <1>4 DEF T0Record
  <2>2. T0Return(s, "error") = u
    BY DEF T0Return
  <2> HIDE DEF u
  <2>3. T0Room(u)
    BY <1>6, <2>1 DEF T0Room, T0Base
  <2> QED
    BY <1>0, <1>4, <1>6, <2>1, <2>2, <2>3 DEF T0Good, T0Base
<1>8. n = 2 => \A g \in T0Ended(t) : T0Good(g)
  <2>1. t.state \in {"SENDING", "RECEIVING"}
    BY <1>0, <1>5 DEF T0Good, T0Room
  <2>2. n = 2 => Len(t.rbuf) >= 1
    BY <1>3, <1>5
  <2> QED
    BY <1>6, <2>1, <2>2, T0EndedGood
<1>9. T0Good(T0Done(t, "ok"))
  BY <1>6, T0DoneOkGood
<1> QED
  BY <1>2, <1>7, <1>8, <1>9

LEMMA T0BlockFailsGood == ASSUME T0Good(t0), T0BlockFails PROVE T0Good(t0')
<1> DEFINE e == <<>>
           s == [t0 EXCEPT !.out = e]
<1>0. /\ t0 \in T0Record /\ t0.pc = "proc" /\ t0.block /\ t0.state \in {"SENDING", "RECEIVING"}
      /\ t0' = T0Failed(s, t0.state)
  BY DEF T0Good, T0BlockFails, T0Room
<1>1. e \in Seq(T0Sent)
  BY T0Empty
<1> HIDE DEF e
<1>2. /\ s \in T0Record /\ s.rlen = t0.rlen /\ s.crd = t0.crd /\ s.block = t0.block
      /\ s.rbuf = t0.rbuf
  BY <1>0, <1>1 DEF T0Record
<1> HIDE DEF s
<1>3. T0Base(s) /\ ~T0Exact(s)
  BY <1>0, <1>2, T0GoodBase DEF T0Base, T0Exact
<1>4. t0.state \in {"SENDING", "RECEIVING", "CONFUSED"}
  BY <1>0
<1> QED
  BY <1>0, <1>3, <1>4, T0FailedGood

(* What is on its way to the card. *)
LEMMA T0OutShape ==
  ASSUME T0Good(t0), t0.out # <<>>
  PROVE  /\ Head(t0.out) = t0.out[1] /\ t0.out[1] \in T0Sent /\ Tail(t0.out) \in Seq(T0Sent)
         /\ Len(t0.out) = 1 => Tail(t0.out) = <<>> /\ Len(Tail(t0.out)) = 0
         /\ T0Exact(t0) => Len(t0.out) = 1 /\ (t0.pc = "idle" => t0.state # "IDLE")
         /\ T0Exact(t0) /\ t0.out[1].is = "head" => ~t0.crd.busy
<1>0. t0 \in T0Record /\ t0.out \in Seq(T0Sent)
  BY DEF T0Good, T0Record
<1>1. Head(t0.out) = t0.out[1] /\ t0.out[1] \in T0Sent /\ Tail(t0.out) \in Seq(T0Sent)
  BY <1>0
<1>2. Len(t0.out) = 1 => Tail(t0.out) = <<>> /\ Len(Tail(t0.out)) = 0
  <2>1. Len(t0.out) = 1 => Len(Tail(t0.out)) = 0
    BY <1>0
  <2> QED
    BY <1>1, <2>1, T0Empty
<1>3. Len(t0.out) <= 1 => Len(t0.out) = 1
  <2> DEFINE m == Len(t0.out)
  <2>1. m \in Nat /\ m # 0
    BY <1>0, T0Empty
  <2> HIDE DEF m
  <2>2. m <= 1 => m = 1
    BY <2>1
  <2> QED
    BY <2>2 DEF m
<1>4. ASSUME T0Exact(t0)
      PROVE  /\ Len(t0.out) = 1 /\ (t0.pc = "idle" => t0.state # "IDLE")
             /\ t0.out[1].is = "head" => ~t0.crd.busy
  <2>1. T0Calm(t0)
    BY <1>4, T0GoodBase
  <2>2. CASE t0.pc = "idle"
    BY <1>3, <2>1, <2>2 DEF T0Calm, T0Idle, T0Stuck
  <2>3. CASE t0.pc # "idle" /\ t0.state = "SENDING"
    BY <1>3, <2>1, <2>3 DEF T0Calm, T0Sending, T0SendOut
  <2>4. CASE t0.pc # "idle" /\ t0.state = "RECEIVING"
    BY <1>3, <2>1, <2>4 DEF T0Calm, T0Receiving
  <2> QED
    BY <2>2, <2>3, <2>4 DEF T0Good, T0Room
<1> QED
  BY <1>1, <1>2, <1>4

(* What the card takes off the line. *)
LEMMA T0CardTakes ==
  ASSUME T0Good(t0), t0.out # <<>>, NEW c \in T0Crd, c.done <= c.owed, ~t0.block,
         t0' = [t0 EXCEPT !.out = Tail(@), !.crd = c],
         T0Exact(t0) => ~c.crossed,
         T0Exact(t0) /\ t0.pc # "idle" /\ t0.state = "SENDING" =>
            t0.in = <<>> /\ t0.pc = "proc" /\ c.of = t0.call /\ c.data = t0.sbuf,
         T0Exact(t0) /\ t0.pc # "idle" /\ t0.state = "RECEIVING" =>
            /\ t0.in = <<>> /\ t0.pc = "proc" /\ c.of = t0.call /\ c.data = 0
            /\ c.owed = t0.rlen - 2 /\ t0.rbuf = <<>> /\ c.done = 0
  PROVE  T0Good(t0')
<1> DEFINE o == Tail(t0.out)
           t == [t0 EXCEPT !.out = o, !.crd = c]
<1>0. t0 \in T0Record /\ o \in Seq(T0Sent) /\ (T0Exact(t0) => Len(o) = 0 /\ o = <<>>)
  BY T0OutShape DEF T0Good
<1>1. t0' = t
  OBVIOUS
<1> HIDE DEF o
<1>2. /\ t \in T0Record /\ t.in = t0.in /\ t.rbuf = t0.rbuf /\ t.rlen = t0.rlen /\ t.crd = c
      /\ t.block = t0.block /\ t.state = t0.state /\ t.dirty = t0.dirty /\ t.out = o
      /\ t.pc = t0.pc /\ t.call = t0.call /\ t.sbuf = t0.sbuf /\ t.ret = t0.ret /\ t.want = t0.want
  BY <1>0 DEF T0Record
<1> HIDE DEF t
<1>3. T0Room(t)
  BY <1>2 DEF T0Room, T0Good
<1>4. ASSUME T0Exact(t) PROVE T0Calm(t)
  <2>1. T0Exact(t0) /\ T0Calm(t0) /\ Len(o) = 0 /\ o = <<>>
    BY <1>0, <1>2, <1>4, T0GoodBase DEF T0Exact
  <2>2. t.pc = "idle" => T0Idle(t)
    <3>1. t.pc = "idle" => t.state # "IDLE" /\ t.ret # "ok"
      BY <1>2, <2>1, T0OutShape DEF T0Calm, T0Idle
    <3>2. T0Stuck(t)
      BY <1>2, <2>1 DEF T0Stuck
    <3> QED
      BY <3>1, <3>2 DEF T0Idle
  <2>3. ASSUME t0.pc # "idle" /\ t0.state = "SENDING" PROVE T0Sending(t)
    <3>1. t0.rbuf = <<>>
      BY <2>1, <2>3 DEF T0Calm, T0Sending
    <3> QED
      BY <1>2, <2>1, <2>3, <3>1 DEF T0Sending, T0SendOut, T0SendIn
  <2>4. ASSUME t0.pc # "idle" /\ t0.state = "RECEIVING" PROVE T0Receiving(t)
    <3>1. Len(t.rbuf) = c.done /\ T0Got(t, Len(t.rbuf))
      BY <1>2, <2>1, <2>4, T0Empty DEF T0Got
    <3> QED
      BY <1>2, <2>1, <2>4, <3>1 DEF T0Receiving, T0RecvIn, T0RecvData
  <2> QED
    BY <1>2, <2>1, <2>2, <2>3, <2>4 DEF T0Calm
<1> QED
  BY <1>1, <1>2, <1>3, <1>4 DEF T0Good, T0Exact

LEMMA T0CardHeaderGood == ASSUME T0Good(t0), T0CardHeader PROVE T0Good(t0')
<1> DEFINE h == Head(t0.out)
           c == [t0.crd EXCEPT !.busy = TRUE, !.of = h.of, !.data = h.lc, !.owed = h.le, !.done = 0]
<1>0. ~t0.block /\ t0.out # <<>> /\ h.is = "head" /\ ~t0.crd.busy
  BY DEF T0CardHeader
<1>1. t0' = [t0 EXCEPT !.out = Tail(@), !.crd = c]
  BY DEF T0CardHeader
<1>2. h = t0.out[1] /\ h \in T0Heads
  BY <1>0, T0OutShape DEF T0Sent, T0Datas
<1> HIDE DEF h
<1>3. h.of \in Nat /\ h.lc \in 0 .. T0Lc /\ h.le \in 0 .. T0Le
  BY <1>2 DEF T0Heads
<1>4. /\ c \in T0Crd /\ c.of = h.of /\ c.data = h.lc /\ c.owed = h.le /\ c.done = 0
      /\ c.crossed = t0.crd.crossed
  BY <1>3 DEF T0Good, T0Record, T0Crd
<1> HIDE DEF c
<1>5. c.done <= c.owed
  BY <1>3, <1>4
<1>6. T0Exact(t0) => T0Calm(t0) /\ Len(t0.out) = 1 /\ ~c.crossed
  BY <1>0, <1>4, T0OutShape, T0GoodBase DEF T0Calm
<1>7. T0Exact(t0) /\ t0.pc # "idle" /\ t0.state = "SENDING" =>
            t0.in = <<>> /\ t0.pc = "proc" /\ c.of = t0.call /\ c.data = t0.sbuf
  BY <1>0, <1>2, <1>4, <1>6 DEF T0Calm, T0Sending, T0SendOut
<1>8. T0Exact(t0) /\ t0.pc # "idle" /\ t0.state = "RECEIVING" =>
            /\ t0.in = <<>> /\ t0.pc = "proc" /\ c.of = t0.call /\ c.data = 0
            /\ c.owed = t0.rlen - 2 /\ t0.rbuf = <<>> /\ c.done = 0
  BY <1>0, <1>2, <1>4, <1>6 DEF T0Calm, T0Receiving
<1> QED
  BY <1>0, <1>1, <1>4, <1>5, <1>6, <1>7, <1>8, T0CardTakes

LEMMA T0CardWrongHeaderGood == ASSUME T0Good(t0), T0CardWrongHeader PROVE T0Good(t0')
<1> DEFINE c == [t0.crd EXCEPT !.crossed = TRUE]
<1>0. ~t0.block /\ t0.out # <<>> /\ Head(t0.out).is = "head" /\ t0.crd.busy
  BY DEF T0CardWrongHeader
<1>1. t0' = [t0 EXCEPT !.out = Tail(@), !.crd = c]
  BY DEF T0CardWrongHeader, T0Good, T0Record
<1>2. c \in T0Crd /\ c.done = t0.crd.done /\ c.owed = t0.crd.owed
  BY DEF T0Good, T0Record, T0Crd
<1> HIDE DEF c
<1>3. c.done <= c.owed
  BY <1>2 DEF T0Good, T0Room
<1>4. ~T0Exact(t0)
  BY <1>0, T0OutShape
<1> QED
  BY <1>0, <1>1, <1>2, <1>3, <1>4, T0CardTakes

LEMMA T0CardDataGood == ASSUME T0Good(t0), T0CardData PROVE T0Good(t0')
<1> DEFINE h == Head(t0.out)
           d == IF h.n > t0.crd.data THEN 0 ELSE t0.crd.data - h.n
           c == [t0.crd EXCEPT !.data = d]
<1>0. ~t0.block /\ t0.out # <<>> /\ h.is = "data"
  BY DEF T0CardData
<1>1. t0' = [t0 EXCEPT !.out = Tail(@), !.crd = c]
  BY DEF T0CardData, T0Good, T0Record
<1>2. h = t0.out[1] /\ h \in T0Datas
  BY <1>0, T0OutShape DEF T0Sent, T0Heads
<1> HIDE DEF h
<1>3. h.n \in 0 .. T0Lc /\ t0.crd.data \in 0 .. T0Lc
  BY <1>2 DEF T0Datas, T0Good, T0Record, T0Crd
<1>4. d \in 0 .. T0Lc /\ \A k \in Nat : t0.crd.data = k + h.n => d = k
  BY <1>3, T0Assumption
<1> HIDE DEF d
<1>5. /\ c \in T0Crd /\ c.of = t0.crd.of /\ c.data = d /\ c.owed = t0.crd.owed
      /\ c.done = t0.crd.done /\ c.crossed = t0.crd.crossed
  BY <1>4 DEF T0Good, T0Record, T0Crd
<1> HIDE DEF c
<1>6. c.done <= c.owed
  BY <1>5 DEF T0Good, T0Room
<1>7. T0Exact(t0) => T0Calm(t0) /\ Len(t0.out) = 1 /\ ~c.crossed
  BY <1>0, <1>5, T0OutShape, T0GoodBase DEF T0Calm
<1>8. ASSUME T0Exact(t0) /\ t0.pc # "idle" /\ t0.state = "SENDING"
      PROVE  t0.in = <<>> /\ t0.pc = "proc" /\ c.of = t0.call /\ c.data = t0.sbuf
  <2>1. /\ t0.in = <<>> /\ t0.pc = "proc" /\ t0.crd.of = t0.call
        /\ t0.crd.data = t0.sbuf + h.n
    BY <1>0, <1>2, <1>7, <1>8 DEF T0Calm, T0Sending, T0SendOut
  <2>2. t0.sbuf \in Nat
    BY T0Assumption DEF T0Good, T0Record
  <2> QED
    BY <1>4, <1>5, <2>1, <2>2
<1>9. ~(T0Exact(t0) /\ t0.pc # "idle" /\ t0.state = "RECEIVING")
  BY <1>0, <1>2, <1>7 DEF T0Calm, T0Receiving
<1> QED
  BY <1>0, <1>1, <1>5, <1>6, <1>7, <1>8, <1>9, T0CardTakes

(* What the card may say, while the reader sends and while it receives. *)
T0SaysWhileSending(c, b) ==
    /\ b[1].is \in {"null", "ack", "nack"} \cup T0Sws
    /\ b[1].of = t0.call
    /\ b[1].is = "null" => Len(b) = 1 /\ c.busy
    /\ b[1].is \in {"ack", "nack"} => t0.sbuf = 0 \/ (Len(b) = 1 /\ c.busy)
    /\ b[1].is \in T0Sws => ~c.busy /\ Len(b) = 2 /\ b[2].is = "sw2" /\ b[2].of = t0.call

T0SaysWhileReceiving(c, b) ==
    LET m == Len(t0.rbuf)
    IN  /\ b[1].is \in {"null", "ack", "nack"} \cup T0Sws
        /\ b[1].of = t0.call
        /\ b[1].is = "null" => Len(b) = 1 /\ c.busy /\ m = c.done
        /\ b[1].is = "nack" => /\ Len(b) = 2 /\ c.busy /\ m + 1 = c.done
                               /\ b[2] = T0Byte("data", t0.call, c.done)
        /\ b[1].is = "ack" =>
              /\ ~c.busy /\ m <= t0.rlen - 2 /\ Len(b) = 1 + t0.rlen - m
              /\ \A j \in 1 .. t0.rlen - 2 - m : b[1 + j] = T0Byte("data", t0.call, m + j)
              /\ b[Len(b)].is = "sw2" /\ b[Len(b)].of = t0.call /\ b[Len(b) - 1].of = t0.call
        /\ b[1].is \in T0Sws =>
              ~c.busy /\ m <= t0.rlen - 2 /\ Len(b) = 2 /\ b[2].is = "sw2" /\ b[2].of = t0.call

(* Where the card stands when it may speak. *)
T0MaySpeak ==
    T0Exact(t0) =>
        /\ t0.out = <<>> /\ ~t0.crd.crossed /\ t0.state # "IDLE"
        /\ t0.pc # "idle" /\ t0.state = "SENDING" =>
              /\ t0.pc = "proc" /\ t0.rbuf = <<>> /\ t0.crd.of = t0.call
              /\ t0.crd.data = t0.sbuf
        /\ t0.pc # "idle" /\ t0.state = "RECEIVING" =>
              /\ t0.pc = "proc" /\ t0.crd.of = t0.call /\ t0.crd.data = 0
              /\ t0.crd.owed = t0.rlen - 2 /\ Len(t0.rbuf) = t0.crd.done
              /\ T0Got(t0, Len(t0.rbuf))

LEMMA T0SpeaksWhen ==
  ASSUME T0Good(t0), t0.crd.busy, t0.in = <<>>,
         t0.out # <<>> => t0.crd.data = 0 /\ Head(t0.out).is = "head"
  PROVE  T0MaySpeak /\ ~t0.block
<1>1. ~t0.block
  BY DEF T0Good
<1>2. SUFFICES ASSUME T0Exact(t0) PROVE T0MaySpeak
  BY <1>1 DEF T0MaySpeak
<1>3. T0Calm(t0) /\ t0 \in T0Record /\ t0.out \in Seq(T0Sent)
  BY <1>2, T0GoodBase DEF T0Good, T0Record
<1>4. t0.out = <<>> /\ Len(t0.out) = 0 /\ Len(t0.in) = 0
  BY <1>2, T0OutShape, T0Empty
<1>5. t0.state # "IDLE"
  BY <1>3 DEF T0Calm, T0Idle, T0Good, T0Room
<1>6. ASSUME t0.pc # "idle", t0.state = "SENDING"
      PROVE  t0.pc = "proc" /\ t0.rbuf = <<>> /\ t0.crd.of = t0.call /\ t0.crd.data = t0.sbuf
  <2>1. T0Sending(t0)
    BY <1>3, <1>6 DEF T0Calm
  <2> QED
    BY <1>4, <2>1 DEF T0Sending, T0LastIn
<1>7. ASSUME t0.pc # "idle", t0.state = "RECEIVING"
      PROVE  /\ t0.pc = "proc" /\ t0.crd.of = t0.call /\ t0.crd.data = 0
             /\ t0.crd.owed = t0.rlen - 2 /\ Len(t0.rbuf) = t0.crd.done
             /\ T0Got(t0, Len(t0.rbuf))
  <2>1. T0Receiving(t0)
    BY <1>3, <1>7 DEF T0Calm
  <2>2. t0.pc # "sw2"
    BY <1>4, <2>1 DEF T0Receiving, T0LastIn
  <2>3. t0.pc # "data"
    BY <1>4, <2>1 DEF T0Receiving, T0RecvData, T0Whole
  <2>4. t0.pc = "proc"
    BY <1>3, <1>7, <2>2, <2>3 DEF T0Record
  <2> QED
    BY <2>1, <2>4 DEF T0Receiving
<1> QED
  BY <1>3, <1>4, <1>5, <1>6, <1>7 DEF T0MaySpeak, T0Calm

LEMMA T0SayGood ==
  ASSUME T0Good(t0), ~t0.block, t0.in = <<>>, T0MaySpeak, NEW c \in T0Crd, NEW b \in Seq(T0Bytes),
         c.crossed = t0.crd.crossed, c.of = t0.crd.of, c.data = t0.crd.data, c.owed = t0.crd.owed,
         c.done <= c.owed, T0Say(c, b), b # <<>>,
         T0Exact(t0) /\ t0.pc # "idle" /\ t0.state = "SENDING" => T0SaysWhileSending(c, b),
         T0Exact(t0) /\ t0.pc # "idle" /\ t0.state = "RECEIVING" => T0SaysWhileReceiving(c, b)
  PROVE  T0Good(t0')
<1> DEFINE t == [t0 EXCEPT !.crd = c, !.in = b]
<1>1. t0' = t
  <2>1. t0.in \o b = b
    OBVIOUS
  <2> QED
    BY <2>1 DEF T0Say
<1>2. /\ t \in T0Record /\ t.in = b /\ t.rbuf = t0.rbuf /\ t.rlen = t0.rlen /\ t.crd = c
      /\ t.block = t0.block /\ t.state = t0.state /\ t.dirty = t0.dirty /\ t.out = t0.out
      /\ t.pc = t0.pc /\ t.call = t0.call /\ t.sbuf = t0.sbuf /\ t.ret = t0.ret /\ t.want = t0.want
  BY DEF T0Good, T0Record
<1> HIDE DEF t
<1>3. T0Room(t)
  BY <1>2 DEF T0Room, T0Good
<1>4. ASSUME T0Exact(t) PROVE T0Calm(t)
  <2>1. T0Exact(t0) /\ T0Calm(t0) /\ t0.out = <<>> /\ Len(t0.out) = 0 /\ t0.state # "IDLE"
    BY <1>2, <1>4, T0GoodBase, T0Empty DEF T0Exact, T0MaySpeak
  <2>2. t.pc = "idle" => T0Idle(t)
    BY <1>2, <2>1 DEF T0Calm, T0Idle, T0Stuck
  <2>3. ASSUME t0.pc # "idle" /\ t0.state = "SENDING" PROVE T0Sending(t)
    <3>1. T0SendIn(t)
      BY <1>2, <2>1, <2>3 DEF T0SendIn, T0SaysWhileSending
    <3> QED
      BY <1>2, <2>1, <2>3, <3>1 DEF T0Sending, T0SendOut, T0MaySpeak
  <2>4. ASSUME t0.pc # "idle" /\ t0.state = "RECEIVING" PROVE T0Receiving(t)
    <3>1. T0RecvIn(t)
      BY <1>2, <2>1, <2>4 DEF T0RecvIn, T0SaysWhileReceiving, T0Whole
    <3>2. T0Got(t, Len(t.rbuf))
      BY <1>2, <2>1, <2>4 DEF T0MaySpeak, T0Got
    <3> QED
      BY <1>2, <2>1, <2>4, <3>1, <3>2 DEF T0Receiving, T0RecvData, T0MaySpeak
  <2> QED
    BY <1>2, <2>1, <2>2, <2>3, <2>4 DEF T0Calm, T0MaySpeak
<1> QED
  BY <1>1, <1>2, <1>3, <1>4 DEF T0Good, T0Exact

LEMMA T0OneByte ==
  ASSUME NEW b \in T0Bytes
  PROVE  <<b>> \in Seq(T0Bytes) /\ Len(<<b>>) = 1 /\ <<b>>[1] = b /\ <<b>> # <<>>
<1>1. <<b>> \in Seq(T0Bytes) /\ Len(<<b>>) = 1 /\ <<b>>[1] = b
  OBVIOUS
<1> QED
  BY <1>1, T0Empty

LEMMA T0TwoBytes ==
  ASSUME NEW b \in T0Bytes, NEW d \in T0Bytes
  PROVE  /\ <<b, d>> \in Seq(T0Bytes) /\ Len(<<b, d>>) = 2 /\ <<b, d>>[1] = b /\ <<b, d>>[2] = d
         /\ <<b, d>> # <<>>
<1>1. <<b, d>> \in Seq(T0Bytes) /\ Len(<<b, d>>) = 2 /\ <<b, d>>[1] = b /\ <<b, d>>[2] = d
  OBVIOUS
<1> QED
  BY <1>1, T0Empty

LEMMA T0ByteIs ==
  ASSUME NEW is \in T0Kinds, NEW of \in Nat, NEW i \in Nat
  PROVE  /\ T0Byte(is, of, i) \in T0Bytes /\ T0Byte(is, of, i).is = is
         /\ T0Byte(is, of, i).of = of
BY DEF T0Byte, T0Bytes

(* The card ends the command with a status word. *)
LEMMA T0SwSaid ==
  ASSUME T0Good(t0), t0.crd.busy, ~t0.block, t0.in = <<>>, T0MaySpeak,
         NEW is \in T0Sws, NEW n \in Nat, T0Sw(t0.crd, is, n)
  PROVE  T0Good(t0')
<1> DEFINE c == [t0.crd EXCEPT !.busy = FALSE]
           x == T0Byte(is, t0.crd.of, n)
           y == T0Byte("sw2", t0.crd.of, 0)
           b == <<x, y>>
<1>1. T0Say(c, b)
  BY DEF T0Sw
<1>2. /\ c \in T0Crd /\ c.of = t0.crd.of /\ c.data = t0.crd.data /\ c.owed = t0.crd.owed
      /\ c.done = t0.crd.done /\ c.crossed = t0.crd.crossed /\ ~c.busy
      /\ t0.crd.of \in Nat /\ t0.crd.owed \in 0 .. T0Le /\ t0.crd.done \in Nat
      /\ t0.crd.done <= t0.crd.owed
  BY DEF T0Good, T0Record, T0Crd, T0Room
<1>3. /\ x \in T0Bytes /\ y \in T0Bytes /\ x.is = is /\ x.of = t0.crd.of
      /\ y.is = "sw2" /\ y.of = t0.crd.of
  <2>1. is \in T0Kinds /\ "sw2" \in T0Kinds
    BY DEF T0Kinds, T0Sws
  <2> QED
    BY <1>2, <2>1, T0ByteIs
<1> HIDE DEF x, y, c
<1>4. b \in Seq(T0Bytes) /\ Len(b) = 2 /\ b[1] = x /\ b[2] = y /\ b # <<>>
  BY <1>3, T0TwoBytes
<1> HIDE DEF b
<1>5. is \notin {"null", "ack", "nack"}
  BY DEF T0Sws
<1>6. T0Exact(t0) /\ t0.pc # "idle" /\ t0.state = "SENDING" => T0SaysWhileSending(c, b)
  BY <1>2, <1>3, <1>4, <1>5 DEF T0SaysWhileSending, T0MaySpeak
<1>7. T0Exact(t0) /\ t0.pc # "idle" /\ t0.state = "RECEIVING" => T0SaysWhileReceiving(c, b)
  <2>1. T0Exact(t0) /\ t0.pc # "idle" /\ t0.state = "RECEIVING" =>
           Len(t0.rbuf) <= t0.rlen - 2 /\ t0.crd.of = t0.call
    BY <1>2 DEF T0MaySpeak
  <2> QED
    BY <1>2, <1>3, <1>4, <1>5, <2>1 DEF T0SaysWhileReceiving
<1>8. c.done <= c.owed
  BY <1>2
<1> QED
  BY <1>1, <1>2, <1>4, <1>6, <1>7, <1>8, T0SayGood

(* The card asks for time, or for the data of the command. *)
LEMMA T0OneSaid ==
  ASSUME T0Good(t0), t0.crd.busy, ~t0.block, t0.in = <<>>, T0MaySpeak,
         NEW is \in {"null", "ack", "nack"}, is # "null" => t0.crd.data > 0,
         T0Say(t0.crd, <<T0Byte(is, t0.crd.of, 0)>>)
  PROVE  T0Good(t0')
<1> DEFINE c == t0.crd
           x == T0Byte(is, c.of, 0)
           b == <<x>>
<1>2. /\ c \in T0Crd /\ c.of \in Nat /\ c.done <= c.owed /\ c.busy
  BY DEF T0Good, T0Record, T0Crd, T0Room
<1>3. x \in T0Bytes /\ x.is = is /\ x.of = c.of
  <2>1. is \in T0Kinds
    BY DEF T0Kinds
  <2> QED
    BY <1>2, <2>1, T0ByteIs
<1> HIDE DEF x
<1>4. b \in Seq(T0Bytes) /\ Len(b) = 1 /\ b[1] = x /\ b # <<>>
  BY <1>3, T0OneByte
<1>1. T0Say(c, b)
  BY DEF x
<1> HIDE DEF b
<1>5. is \notin T0Sws
  BY DEF T0Sws
<1>6. T0Exact(t0) /\ t0.pc # "idle" /\ t0.state = "SENDING" => T0SaysWhileSending(c, b)
  BY <1>2, <1>3, <1>4, <1>5 DEF T0SaysWhileSending, T0MaySpeak
<1>7. T0Exact(t0) /\ t0.pc # "idle" /\ t0.state = "RECEIVING" => T0SaysWhileReceiving(c, b)
  <2>1. ASSUME T0Exact(t0) /\ t0.pc # "idle" /\ t0.state = "RECEIVING" PROVE is = "null"
    <3>1. c.data = 0
      BY <2>1 DEF T0MaySpeak
    <3> QED
      BY <3>1
  <2> QED
    BY <1>2, <1>3, <1>4, <1>5, <2>1 DEF T0SaysWhileReceiving, T0MaySpeak
<1> QED
  BY <1>1, <1>2, <1>4, <1>6, <1>7, T0SayGood

(* The card sends one byte of the response. *)
LEMMA T0DataSaid ==
  ASSUME T0Good(t0), t0.crd.busy, ~t0.block, t0.in = <<>>, T0MaySpeak,
         t0.crd.data = 0, t0.crd.owed > t0.crd.done,
         T0Say([t0.crd EXCEPT !.done = @ + 1],
               <<T0Byte("nack", t0.crd.of, 0), T0Byte("data", t0.crd.of, t0.crd.done + 1)>>)
  PROVE  T0Good(t0')
<1> DEFINE k == t0.crd.done + 1
           c == [t0.crd EXCEPT !.done = k]
           x == T0Byte("nack", t0.crd.of, 0)
           y == T0Byte("data", t0.crd.of, k)
           b == <<x, y>>
<1>0. t0.crd \in T0Crd /\ t0.crd.done \in Nat /\ t0.crd.owed \in 0 .. T0Le /\ t0.crd.of \in Nat
  BY DEF T0Good, T0Record, T0Crd
<1>1. T0Say(c, b)
  OBVIOUS
<1>2. k \in Nat /\ k <= t0.crd.owed
  BY <1>0
<1>3. k = t0.crd.done + 1
  OBVIOUS
<1> HIDE DEF k
<1>4. /\ c \in T0Crd /\ c.of = t0.crd.of /\ c.data = t0.crd.data /\ c.owed = t0.crd.owed
      /\ c.done = k /\ c.crossed = t0.crd.crossed /\ c.busy
  BY <1>0, <1>2 DEF T0Crd
<1>5. /\ x \in T0Bytes /\ y \in T0Bytes /\ x.is = "nack" /\ x.of = t0.crd.of
  <2>1. "nack" \in T0Kinds /\ "data" \in T0Kinds
    BY DEF T0Kinds
  <2> QED
    BY <1>0, <1>2, <2>1, T0ByteIs
<1>6. y = T0Byte("data", t0.crd.of, k)
  OBVIOUS
<1> HIDE DEF x, y, c
<1>7. b \in Seq(T0Bytes) /\ Len(b) = 2 /\ b[1] = x /\ b[2] = y /\ b # <<>>
  BY <1>5, T0TwoBytes
<1> HIDE DEF b
<1>8. "nack" \notin T0Sws
  BY DEF T0Sws
<1>9. T0Exact(t0) /\ t0.pc # "idle" /\ t0.state = "SENDING" => T0SaysWhileSending(c, b)
  <2>1. T0Exact(t0) /\ t0.pc # "idle" /\ t0.state = "SENDING" => t0.sbuf = 0 /\ t0.crd.of = t0.call
    BY DEF T0MaySpeak
  <2> QED
    BY <1>4, <1>5, <1>7, <1>8, <2>1 DEF T0SaysWhileSending
<1>10. T0Exact(t0) /\ t0.pc # "idle" /\ t0.state = "RECEIVING" => T0SaysWhileReceiving(c, b)
  <2>1. T0Exact(t0) /\ t0.pc # "idle" /\ t0.state = "RECEIVING" =>
           Len(t0.rbuf) + 1 = c.done /\ t0.crd.of = t0.call
    BY <1>3, <1>4 DEF T0MaySpeak
  <2> QED
    BY <1>4, <1>5, <1>6, <1>7, <1>8, <2>1 DEF T0SaysWhileReceiving
<1>11. c.done <= c.owed
  BY <1>2, <1>4
<1> QED
  BY <1>1, <1>4, <1>7, <1>9, <1>10, <1>11, T0SayGood

LEMMA T0Framed ==
  ASSUME NEW a \in T0Bytes, NEW f \in Seq(T0Bytes), NEW x \in T0Bytes, NEW y \in T0Bytes,
         NEW q, q = <<a>> \o f \o <<x, y>>
  PROVE  /\ q \in Seq(T0Bytes) /\ Len(q) = Len(f) + 3 /\ q[1] = a
         /\ \A j \in 1 .. Len(f) : q[1 + j] = f[j]
         /\ q[Len(f) + 2] = x /\ q[Len(f) + 3] = y /\ q # <<>>
<1> DEFINE g == <<a>> \o f
           h == <<x, y>>
<1>1. g \in Seq(T0Bytes) /\ Len(g) = Len(f) + 1 /\ g[1] = a /\ Len(f) \in Nat
  BY T0OneByte
<1>2. \A j \in 1 .. Len(f) : g[1 + j] = f[j]
  OBVIOUS
<1>3. h \in Seq(T0Bytes) /\ Len(h) = 2 /\ h[1] = x /\ h[2] = y
  BY T0TwoBytes
<1>4. q = g \o h
  OBVIOUS
<1> HIDE DEF g, h
<1>5. /\ q \in Seq(T0Bytes) /\ Len(q) = Len(g) + 2 /\ \A j \in 1 .. Len(g) : q[j] = g[j]
      /\ q[Len(g) + 1] = x /\ q[Len(g) + 2] = y
  BY <1>1, <1>3, <1>4
<1>6. Len(q) = Len(f) + 3 /\ q[Len(f) + 2] = x /\ q[Len(f) + 3] = y
  <2>1. Len(g) + 1 = Len(f) + 2 /\ Len(g) + 2 = Len(f) + 3
    BY <1>1
  <2> QED
    BY <1>5, <2>1
<1>7. q[1] = a /\ \A j \in 1 .. Len(f) : q[1 + j] = f[j]
  <2>1. 1 \in 1 .. Len(g) /\ \A j \in 1 .. Len(f) : 1 + j \in 1 .. Len(g)
    BY <1>1
  <2> QED
    BY <1>1, <1>2, <1>5, <2>1
<1>8. q # <<>>
  <2>1. Len(q) # 0
    BY <1>1, <1>6
  <2> QED
    BY <1>5, <2>1, T0Empty
<1> QED
  BY <1>5, <1>6, <1>7, <1>8

(* The card sends all that is left of the response, and the status word. *)
T0Rest == [i \in 1 .. t0.crd.owed - t0.crd.done |-> T0Byte("data", t0.crd.of, t0.crd.done + i)]

LEMMA T0RestSaid ==
  ASSUME T0Good(t0), t0.crd.busy, ~t0.block, t0.in = <<>>, T0MaySpeak,
         t0.crd.data = 0, t0.crd.owed > t0.crd.done,
         T0Say([t0.crd EXCEPT !.done = t0.crd.owed, !.busy = FALSE],
               <<T0Byte("ack", t0.crd.of, 0)>> \o T0Rest
               \o <<T0Byte("sw9x", t0.crd.of, 0), T0Byte("sw2", t0.crd.of, 0)>>)
  PROVE  T0Good(t0')
<1> DEFINE e == t0.crd.owed
           c == [t0.crd EXCEPT !.done = e, !.busy = FALSE]
           a == T0Byte("ack", t0.crd.of, 0)
           x == T0Byte("sw9x", t0.crd.of, 0)
           y == T0Byte("sw2", t0.crd.of, 0)
           f == T0Rest
           k == Len(f)
           b == <<a>> \o f \o <<x, y>>
<1>0. /\ t0.crd \in T0Crd /\ t0.crd.done \in Nat /\ t0.crd.owed \in Nat /\ t0.crd.of \in Nat
      /\ t0.rlen \in Nat
  BY T0Assumption DEF T0Good, T0Record, T0Crd
<1>1. T0Say(c, b)
  OBVIOUS
<1>2. e \in Nat /\ e = t0.crd.owed
  BY <1>0
<1>3. /\ f \in Seq(T0Bytes) /\ k = t0.crd.owed - t0.crd.done /\ k \in Nat
      /\ \A j \in 1 .. k : f[j] = T0Byte("data", t0.crd.of, t0.crd.done + j)
  <2> DEFINE w == t0.crd.owed - t0.crd.done
             g(i) == T0Byte("data", t0.crd.of, t0.crd.done + i)
  <2>1. w \in Nat
    BY <1>0
  <2>2. \A i \in 1 .. w : g(i) \in T0Bytes
    <3>1. \A i \in Nat : t0.crd.done + i \in Nat
      BY <1>0
    <3>2. "data" \in T0Kinds
      BY DEF T0Kinds
    <3> QED
      BY <1>0, <3>1, <3>2, T0ByteIs
  <2>3. f = [i \in 1 .. w |-> g(i)]
    BY DEF T0Rest
  <2> HIDE DEF w, g, f
  <2>4. f \in Seq(T0Bytes) /\ Len(f) = w /\ \A j \in 1 .. w : f[j] = g(j)
    BY <2>1, <2>2, <2>3, SMTT(60)
  <2> QED
    BY <2>1, <2>4 DEF w, g
<1>4. /\ a \in T0Bytes /\ x \in T0Bytes /\ y \in T0Bytes /\ a.is = "ack" /\ a.of = t0.crd.of
      /\ x.of = t0.crd.of /\ y.is = "sw2" /\ y.of = t0.crd.of
  <2>1. "ack" \in T0Kinds /\ "sw9x" \in T0Kinds /\ "sw2" \in T0Kinds
    BY DEF T0Kinds
  <2> QED
    BY <1>0, <2>1, T0ByteIs
<1> HIDE DEF e, a, x, y, f
<1>5. /\ c \in T0Crd /\ c.of = t0.crd.of /\ c.data = t0.crd.data /\ c.owed = t0.crd.owed
      /\ c.done = e /\ c.crossed = t0.crd.crossed /\ ~c.busy
  BY <1>0, <1>2 DEF T0Crd
<1>6. /\ b \in Seq(T0Bytes) /\ Len(b) = k + 3 /\ b[1] = a
      /\ \A j \in 1 .. k : b[1 + j] = f[j]
      /\ b[k + 2] = x /\ b[k + 3] = y /\ b # <<>>
  <2>1. b = <<a>> \o f \o <<x, y>> /\ f \in Seq(T0Bytes) /\ a \in T0Bytes /\ x \in T0Bytes /\ y \in T0Bytes
    BY <1>3, <1>4
  <2> HIDE DEF b
  <2>2. /\ b \in Seq(T0Bytes) /\ Len(b) = Len(f) + 3 /\ b[1] = a
        /\ \A j \in 1 .. Len(f) : b[1 + j] = f[j]
        /\ b[Len(f) + 2] = x /\ b[Len(f) + 3] = y /\ b # <<>>
    BY ONLY <2>1, T0Framed
  <2> QED
    BY <2>2
<1> HIDE DEF b, c, k
<1>7. "ack" \notin T0Sws
  BY DEF T0Sws
<1>8. T0Exact(t0) /\ t0.pc # "idle" /\ t0.state = "SENDING" => T0SaysWhileSending(c, b)
  <2>1. T0Exact(t0) /\ t0.pc # "idle" /\ t0.state = "SENDING" => t0.sbuf = 0 /\ t0.crd.of = t0.call
    BY DEF T0MaySpeak
  <2> QED
    BY <1>4, <1>5, <1>6, <1>7, <2>1 DEF T0SaysWhileSending
<1>9. ASSUME T0Exact(t0) /\ t0.pc # "idle" /\ t0.state = "RECEIVING"
      PROVE  T0SaysWhileReceiving(c, b)
  <2> DEFINE m == Len(t0.rbuf)
  <2>1. m = t0.crd.done /\ t0.crd.of = t0.call /\ t0.crd.owed = t0.rlen - 2
    BY <1>9 DEF T0MaySpeak
  <2> HIDE DEF m
  <2>2. m \in Nat /\ m <= t0.rlen - 2 /\ k = t0.rlen - 2 - m /\ k + 3 = 1 + t0.rlen - m
    BY <1>0, <1>3, <2>1
  <2>3. \A j \in 1 .. t0.rlen - 2 - m : b[1 + j] = T0Byte("data", t0.call, m + j)
    BY <1>3, <1>6, <2>1, <2>2
  <2>4. (k + 3) - 1 = k + 2
    BY <1>3
  <2>5. b[Len(b)].is = "sw2" /\ b[Len(b)].of = t0.call /\ b[Len(b) - 1].of = t0.call
    BY <1>4, <1>6, <2>1, <2>4
  <2> QED
    BY <1>4, <1>5, <1>6, <1>7, <2>1, <2>2, <2>3, <2>5 DEF T0SaysWhileReceiving, m
<1>10. c.done <= c.owed
  BY <1>0, <1>2, <1>5
<1> QED
  BY <1>1, <1>5, <1>6, <1>8, <1>9, <1>10, T0SayGood

LEMMA T0CardAnswerGood == ASSUME T0Good(t0), T0CardAnswer PROVE T0Good(t0')
<1>0. /\ t0.crd.busy /\ t0.in = <<>>
      /\ t0.out # <<>> => t0.crd.data = 0 /\ Head(t0.out).is = "head"
  BY DEF T0CardAnswer
<1>1. T0MaySpeak /\ ~t0.block
  BY <1>0, T0SpeaksWhen
<1>2. \/ T0Say(t0.crd, <<T0Byte("null", t0.crd.of, 0)>>)
      \/ T0Sw(t0.crd, "sw6x", 0)
      \/ t0.crd.data > 0 /\ \E p \in {"ack", "nack"} : T0Say(t0.crd, <<T0Byte(p, t0.crd.of, 0)>>)
      \/ t0.crd.data = 0 /\ t0.crd.owed = t0.crd.done /\ T0Sw(t0.crd, "sw9x", 0)
      \/ t0.crd.data = 0 /\ t0.crd.done = 0 /\ \E n \in 1 .. T0Le : T0Sw(t0.crd, "sw61", n)
      \/ /\ t0.crd.data = 0 /\ t0.crd.owed > t0.crd.done
         /\ T0Say([t0.crd EXCEPT !.done = @ + 1],
                  <<T0Byte("nack", t0.crd.of, 0), T0Byte("data", t0.crd.of, t0.crd.done + 1)>>)
      \/ /\ t0.crd.data = 0 /\ t0.crd.owed > t0.crd.done
         /\ T0Say([t0.crd EXCEPT !.done = t0.crd.owed, !.busy = FALSE],
                  <<T0Byte("ack", t0.crd.of, 0)>> \o T0Rest
                  \o <<T0Byte("sw9x", t0.crd.of, 0), T0Byte("sw2", t0.crd.of, 0)>>)
  BY DEF T0CardAnswer, T0Rest
<1>3. "sw6x" \in T0Sws /\ "sw9x" \in T0Sws /\ "sw61" \in T0Sws /\ 0 \in Nat /\ 1 .. T0Le \subseteq Nat
  BY T0Assumption DEF T0Sws
<1>4. CASE T0Say(t0.crd, <<T0Byte("null", t0.crd.of, 0)>>)
  BY <1>0, <1>1, <1>4, T0OneSaid
<1>5. CASE T0Sw(t0.crd, "sw6x", 0)
  BY <1>0, <1>1, <1>3, <1>5, T0SwSaid
<1>6. CASE t0.crd.data > 0 /\ \E p \in {"ack", "nack"} : T0Say(t0.crd, <<T0Byte(p, t0.crd.of, 0)>>)
  BY <1>0, <1>1, <1>6, T0OneSaid
<1>7. CASE t0.crd.data = 0 /\ t0.crd.owed = t0.crd.done /\ T0Sw(t0.crd, "sw9x", 0)
  BY <1>0, <1>1, <1>3, <1>7, T0SwSaid
<1>8. CASE t0.crd.data = 0 /\ t0.crd.done = 0 /\ \E n \in 1 .. T0Le : T0Sw(t0.crd, "sw61", n)
  BY <1>0, <1>1, <1>3, <1>8, T0SwSaid
<1>9. CASE /\ t0.crd.data = 0 /\ t0.crd.owed > t0.crd.done
           /\ T0Say([t0.crd EXCEPT !.done = @ + 1],
                    <<T0Byte("nack", t0.crd.of, 0), T0Byte("data", t0.crd.of, t0.crd.done + 1)>>)
  BY <1>0, <1>1, <1>9, T0DataSaid
<1>10. CASE /\ t0.crd.data = 0 /\ t0.crd.owed > t0.crd.done
            /\ T0Say([t0.crd EXCEPT !.done = t0.crd.owed, !.busy = FALSE],
                     <<T0Byte("ack", t0.crd.of, 0)>> \o T0Rest
                     \o <<T0Byte("sw9x", t0.crd.of, 0), T0Byte("sw2", t0.crd.of, 0)>>)
  BY <1>0, <1>1, <1>10, T0RestSaid
<1> QED
  BY <1>2, <1>4, <1>5, <1>6, <1>7, <1>8, <1>9, <1>10

LEMMA T0NextGood == T0Good(t0) /\ T0Next => T0Good(t0')
<1>1. SUFFICES ASSUME T0Good(t0), T0Next PROVE T0Good(t0')
  OBVIOUS
<1>2. ASSUME NEW lc \in 0 .. T0Lc, NEW le \in 0 .. T0Le, NEW room \in 2 .. T0Le + 3,
             t0_transceive(lc, le, room)
      PROVE  T0Good(t0')
  BY <1>1, <1>2, T0TransceiveGood
<1>3. CASE T0Refused \/ T0Malformed \/ T0Reset
  BY <1>1, <1>3, T0RefusedGood, T0ResetGood
<1>4. CASE T0Procedure \/ T0Sw2 \/ T0Data \/ T0Timeout
  BY <1>1, <1>4, T0ProcedureGood, T0Sw2Good, T0DataGood, T0TimeoutGood
<1>5. ASSUME NEW n \in 0 .. T0Le + 3, T0Block(n) PROVE T0Good(t0')
  <2>1. n \in Nat
    BY T0Assumption
  <2> QED
    BY <1>1, <1>5, <2>1, T0BlockGood
<1>6. CASE T0BlockFails
  BY <1>1, <1>6, T0BlockFailsGood
<1>7. CASE T0Card
  BY <1>1, <1>7, T0CardHeaderGood, T0CardWrongHeaderGood, T0CardDataGood, T0CardAnswerGood DEF T0Card
<1> QED
  BY <1>1, <1>2, <1>3, <1>4, <1>5, <1>6, <1>7 DEF T0Next, T0Step

(* What t0_xcv() may store: the room of an exchange is the caller's or le + 2,
   and only the second goes past its end, by the byte after a full buffer.
   And only a failed receive leaves a line that is not clear. *)
T0Span(s) ==
    /\ s.rlen = s.room \/ s.rlen = s.le + 2
    /\ s.past => Len(s.rbuf) = s.le + 2
    /\ ~s.block /\ s.dirty => s.slipped

T0Side(s) ==
    /\ T0Span(s)
    /\ s.pc # "idle" => ~s.past
    /\ s.pc # "idle" /\ s.state = "SENDING" =>
          /\ s.rlen = s.room /\ s.pc # "data"
          /\ s.pc = "proc" => Len(s.rbuf) = 0
          /\ s.pc = "sw2" => Len(s.rbuf) = 1
    /\ s.pc # "idle" /\ s.state = "RECEIVING" => s.rlen = s.le + 2

T0SpanOf(t, s) ==
    /\ t.rlen = s.rlen /\ t.room = s.room /\ t.le = s.le /\ t.rbuf = s.rbuf /\ t.past = s.past
    /\ t.block = s.block
    /\ ((s.dirty => s.slipped) => (t.dirty => t.slipped))

LEMMA T0SpanEnds ==
  ASSUME NEW s \in T0Record, T0Span(s)
  PROVE  /\ \A ret : T0Side(T0Done(s, ret)) /\ T0Side(T0Return(s, ret))
         /\ \A st : T0Side(T0Failed(s, st))
<1>1. \A t : T0SpanOf(t, s) /\ t.pc = "idle" => T0Side(t)
  BY DEF T0SpanOf, T0Side, T0Span
<1>2. ASSUME NEW ret PROVE T0SpanOf(T0Done(s, ret), s) /\ T0Done(s, ret).pc = "idle"
  BY DEF T0Done, T0SpanOf, T0Record
<1>3. ASSUME NEW ret PROVE T0SpanOf(T0Return(s, ret), s) /\ T0Return(s, ret).pc = "idle"
  BY DEF T0Return, T0SpanOf, T0Record
<1>4. ASSUME NEW st
      PROVE  /\ T0SpanOf(T0Return([s EXCEPT !.state = st], "error"), s)
             /\ T0Return([s EXCEPT !.state = st], "error").pc = "idle"
  BY DEF T0Return, T0SpanOf, T0Record
<1>5. ASSUME NEW st PROVE T0Side(T0Failed(s, st))
  BY <1>1, <1>2, <1>4 DEF T0Failed
<1> QED
  BY <1>1, <1>2, <1>3, <1>5

(* A state of the same exchange, with the same window, keeps the facts. *)
LEMMA T0SideKept ==
  ASSUME NEW s, T0Side(s), NEW t, T0SpanOf(t, s),
         t.pc = "idle" \/ (t.pc = s.pc /\ t.state = s.state)
  PROVE  T0Side(t)
BY DEF T0SpanOf, T0Side, T0Span

LEMMA T0SideSend ==
  ASSUME NEW s \in T0Record, T0Side(s), NEW x, NEW r \in T0Send(s, x)
  PROVE  T0Side(r)
<1> DEFINE t == [s EXCEPT !.out = Append(s.out, x)]
<1>1. T0SpanOf(t, s) /\ t.pc = s.pc /\ t.state = s.state /\ t.block = s.block
  BY DEF T0SpanOf, T0Record
<1>2. T0Side(t)
  BY <1>1, T0SideKept
<1>3. \A st : T0Side(T0Failed(s, st))
  BY T0SpanEnds DEF T0Side
<1>4. ASSUME NEW st PROVE T0Side(T0Failed(t, st))
  <2>1. T0SpanOf(T0Done(t, "error"), t) /\ T0Done(t, "error").pc = "idle"
    BY DEF T0Done, T0SpanOf, T0Record
  <2>2. /\ T0SpanOf(T0Return([t EXCEPT !.state = st], "error"), t)
        /\ T0Return([t EXCEPT !.state = st], "error").pc = "idle"
    BY DEF T0Return, T0SpanOf, T0Record
  <2> QED
    BY <1>2, <2>1, <2>2, T0SideKept DEF T0Failed
<1> QED
  BY <1>2, <1>3, <1>4 DEF T0Send

LEMMA T0SideHeader ==
  ASSUME NEW s \in T0Record, NEW lc, NEW le, le = s.le, s.state \in {"SENDING", "RECEIVING"},
         NEW g \in T0Header(s, lc, le), lc \in 0 .. T0Lc, ~s.block /\ s.dirty => s.slipped
  PROVE  T0Side(g)
<1> DEFINE e == <<>>
           r == IF s.state = "RECEIVING" THEN le + 2 ELSE s.room
           u == [s EXCEPT !.pc = "proc", !.sbuf = lc, !.rbuf = e, !.past = FALSE, !.nulls = 0, !.rlen = r]
<1>1. e \in Seq(T0Bytes) /\ Len(e) = 0
  BY T0Empty
<1>2. r \in 2 .. T0Le + 3 /\ 0 \in 0 .. MaxNulls
  <2>1. s.le \in 0 .. T0Le /\ s.room \in 2 .. T0Le + 3
    BY DEF T0Record
  <2> QED
    BY <2>1, T0Assumption
<1>3. r = IF s.state = "RECEIVING" THEN s.le + 2 ELSE s.room
  OBVIOUS
<1>4. g \in T0Send(u, [is |-> "head", of |-> s.call, lc |-> lc, le |-> le])
  BY DEF T0Header
<1> HIDE DEF e, r
<1>5. /\ u \in T0Record /\ u.pc = "proc" /\ u.rbuf = e /\ u.past = FALSE /\ u.rlen = r
      /\ u.room = s.room /\ u.le = s.le /\ u.state = s.state
      /\ u.block = s.block /\ u.dirty = s.dirty /\ u.slipped = s.slipped
  BY <1>1, <1>2, ZenonT(60) DEF T0Record
<1> HIDE DEF u
<1>6. T0Side(u)
  BY <1>1, <1>3, <1>5 DEF T0Side, T0Span
<1> QED
  BY <1>4, <1>5, <1>6, T0SideSend

LEMMA T0SideEnded ==
  ASSUME NEW s \in T0Record, T0Span(s), Len(s.rbuf) >= 1, NEW g \in T0Ended(s)
  PROVE  T0Side(g)
<1>1. CASE s.state = "SENDING" /\ s.cse = 4 /\ s.rbuf[1].is # "sw6x"
  <2> DEFINE l == IF s.rbuf[1].is = "sw61" /\ s.rbuf[1].i # 0 /\ s.rbuf[1].i < s.le
                  THEN s.rbuf[1].i ELSE s.le
             k == [s EXCEPT !.le = l]
             t == [k EXCEPT !.state = "RECEIVING"]
  <2>1. s.rbuf \in Seq(T0Bytes) /\ s.le \in 0 .. T0Le
    BY DEF T0Record
  <2>2. s.rbuf[1] \in T0Bytes
    BY <2>1
  <2>3. l \in 0 .. T0Le
    BY <2>1, <2>2, T0Assumption DEF T0Bytes
  <2>4. T0GetLength(s, s.rbuf[1]) = k
    BY <2>1 DEF T0GetLength, T0Record
  <2> HIDE DEF l
  <2>5. k.le = l
    BY <2>1 DEF T0Record
  <2>6. g \in T0Header(t, 0, l)
    BY <1>1, <2>4, <2>5 DEF T0Ended
  <2>7. /\ t \in T0Record /\ t.state = "RECEIVING" /\ t.le = l
        /\ t.block = s.block /\ t.dirty = s.dirty /\ t.slipped = s.slipped
    BY <2>1, <2>3 DEF T0Record
  <2>9. ~t.block /\ t.dirty => t.slipped
    BY <2>7 DEF T0Span
  <2> HIDE DEF t
  <2>8. 0 \in 0 .. T0Lc
    BY T0Assumption
  <2> QED
    BY <2>6, <2>7, <2>8, <2>9, T0SideHeader
<1>2. CASE ~(s.state = "SENDING" /\ s.cse = 4 /\ s.rbuf[1].is # "sw6x")
  <2>1. g = T0Done(s, "ok")
    BY <1>2 DEF T0Ended
  <2> QED
    BY <2>1, T0SpanEnds
<1> QED
  BY <1>1, <1>2

LEMMA T0SideTransceive ==
  ASSUME T0Good(t0), T0Side(t0), NEW lc \in 0 .. T0Lc, NEW le \in 0 .. T0Le, NEW room \in 2 .. T0Le + 3,
         t0_transceive(lc, le, room)
  PROVE  T0Side(t0')
<1> DEFINE c == T0Case(lc, le)
           n == t0.call + 1
           st == IF lc > 0 THEN "SENDING" ELSE "RECEIVING"
           b == T0Dirty
           k == [t0.crd EXCEPT !.crossed = @ /\ b]
           s == [t0 EXCEPT !.cse = c, !.le = le, !.room = room, !.ret = "none", !.call = n, !.dirty = b,
                           !.crd = k, !.state = st]
<1>0. t0 \in T0Record /\ t0.crd \in T0Crd /\ t0.call \in Nat
  BY DEF T0Good, T0Record
<1>1. c \in 1 .. 4 /\ n \in Nat /\ st \in {"SENDING", "RECEIVING"}
  BY <1>0 DEF T0Case
<1>2. b \in BOOLEAN /\ k \in T0Crd
  BY <1>0 DEF T0Dirty, T0Crd
<1>3. t0' \in T0Header(s, lc, le)
  <2>1. s = [t0 EXCEPT !.cse = T0Case(lc, le), !.le = le, !.room = room, !.ret = "none",
                       !.call = @ + 1, !.dirty = T0Dirty, !.crd.crossed = @ /\ T0Dirty,
                       !.state = IF lc > 0 THEN "SENDING" ELSE "RECEIVING"]
    BY <1>0 DEF T0Record
  <2> HIDE DEF s
  <2> QED
    BY <2>1 DEF t0_transceive
<1>5. ~t0.block /\ b => t0.slipped
  <2>1. SUFFICES ASSUME ~t0.block, ~t0.slipped PROVE ~b
    OBVIOUS
  <2>2. ~t0.dirty /\ t0.pc = "idle" /\ t0.state = "IDLE"
    BY <2>1 DEF T0Side, T0Span, t0_transceive
  <2>3. T0Idle(t0)
    BY <2>1, <2>2 DEF T0Good, T0Calm
  <2> QED
    BY <2>2, <2>3 DEF T0Idle, T0Dirty
<1> HIDE DEF c, n, st, b, k
<1>4. /\ s \in T0Record /\ s.le = le /\ s.state = st
      /\ s.block = t0.block /\ s.dirty = b /\ s.slipped = t0.slipped
  BY <1>0, <1>1, <1>2 DEF T0Record
<1> HIDE DEF s
<1> QED
  BY <1>1, <1>3, <1>4, <1>5, T0SideHeader

(* A byte taken off the line leaves the window. *)
LEMMA T0SideTake ==
  ASSUME T0Good(t0), T0Side(t0), t0.in # <<>>
  PROVE  /\ T0Take \in T0Record /\ T0SpanOf(T0Take, t0) /\ T0Side(T0Take)
         /\ T0Take.pc = t0.pc /\ T0Take.state = t0.state
<1>1. T0Take \in T0Record
  BY T0TakeTaken DEF T0Taken
<1>2. T0SpanOf(T0Take, t0) /\ T0Take.pc = t0.pc /\ T0Take.state = t0.state
  BY DEF T0Take, T0SpanOf, T0Good, T0Record
<1> QED
  BY <1>1, <1>2, T0SideKept

LEMMA T0SideAck ==
  ASSUME T0Good(t0), T0Side(t0), t0.pc = "proc", t0.in # <<>>, NEW n \in {0, 1}, T0Ack(n)
  PROVE  T0Side(t0')
<1> DEFINE s == T0Take
           m == IF n = 0 THEN t0.sbuf ELSE n
<1>0. /\ s \in T0Record /\ T0SpanOf(s, t0) /\ T0Side(s) /\ s.pc = t0.pc /\ s.state = t0.state
      /\ t0.state \in {"SENDING", "RECEIVING"} /\ t0.sbuf \in 0 .. T0Lc /\ s.sbuf = t0.sbuf
  BY T0SideTake, T0TakeTaken DEF T0Good, T0Room, T0Record, T0Taken
<1>1. CASE t0.state = "SENDING"
  <2>1. CASE m > t0.sbuf \/ t0.sbuf = 0
    <3>1. t0' = T0Failed(s, "CONFUSED")
      BY <1>1, <2>1 DEF T0Ack
    <3> QED
      BY <1>0, <3>1, T0SpanEnds DEF T0Side
  <2>2. CASE ~(m > t0.sbuf \/ t0.sbuf = 0)
    <3> DEFINE b == s.sbuf - m
               v == [s EXCEPT !.sbuf = b]
    <3>1. t0' \in T0Send(v, [is |-> "data", n |-> m])
      BY <1>1, <2>2 DEF T0Ack
    <3>2. b \in 0 .. T0Lc
      BY <1>0, <2>2, T0Assumption
    <3> HIDE DEF b, s, m
    <3>3. v \in T0Record /\ T0SpanOf(v, s) /\ v.pc = s.pc /\ v.state = s.state
      BY <1>0, <3>2 DEF T0Record, T0SpanOf
    <3> HIDE DEF v
    <3>4. T0Side(v)
      BY <1>0, <3>3, T0SideKept
    <3> QED
      BY <3>1, <3>3, <3>4, T0SideSend
  <2> QED
    BY <2>1, <2>2
<1>2. CASE t0.state = "RECEIVING"
  <2> DEFINE w == IF n = 0 THEN t0.rlen - Len(t0.rbuf) ELSE n
             t == [s EXCEPT !.pc = "data", !.want = w]
  <2>1. t0' = t
    BY <1>2 DEF T0Ack
  <2> HIDE DEF s, w
  <2>2. T0SpanOf(t, s) /\ t.pc = "data" /\ t.state = s.state
    BY <1>0 DEF T0Record, T0SpanOf
  <2> HIDE DEF t
  <2>3. T0Side(t)
    BY <1>0, <1>2, <2>2 DEF T0Side, T0Span, T0SpanOf
  <2> QED
    BY <2>1, <2>3
<1> QED
  BY <1>0, <1>1, <1>2

LEMMA T0SideProcedure ==
  ASSUME T0Good(t0), T0Side(t0), T0Procedure
  PROVE  T0Side(t0')
<1> DEFINE s == T0Take
<1>0. /\ t0.pc = "proc" /\ t0.in # <<>> /\ s \in T0Record /\ T0SpanOf(s, t0) /\ T0Side(s)
      /\ s.pc = t0.pc /\ s.state = t0.state /\ t0.state \in {"SENDING", "RECEIVING"}
  BY T0SideTake DEF T0Procedure, T0Good, T0Room
<1>1. \/ T0Null \/ t0' = T0SwTaken \/ T0Ack(0) \/ T0Ack(1) \/ t0' = T0Failed(s, t0.state)
  BY DEF T0Procedure, T0SwTaken
<1>2. \A st : T0Side(T0Failed(s, st))
  BY <1>0, T0SpanEnds DEF T0Side
<1>3. CASE T0Null
  <2> DEFINE t == [s EXCEPT !.nulls = @ + 1]
  <2>1. t0' = T0Failed(s, "CONFUSED") \/ t0' = t
    BY <1>3 DEF T0Null
  <2> HIDE DEF s
  <2>2. T0SpanOf(t, s) /\ t.pc = s.pc /\ t.state = s.state
    BY <1>0 DEF T0Record, T0SpanOf
  <2>3. T0Side(t)
    BY <1>0, <2>2, T0SideKept
  <2> QED
    BY <1>2, <2>1, <2>3
<1>4. CASE t0' = T0SwTaken
  <2> DEFINE r == Append(s.rbuf, Head(t0.in))
             t == [s EXCEPT !.pc = "sw2", !.rbuf = r]
  <2>1. t0' = t
    BY <1>4 DEF T0SwTaken
  <2>2. Len(s.rbuf) \in Nat /\ Len(r) = Len(s.rbuf) + 1
    BY <1>0, T0TakeTaken DEF T0Record, T0Taken
  <2> HIDE DEF s, r
  <2>3. /\ t.rlen = s.rlen /\ t.room = s.room /\ t.le = s.le /\ t.past = s.past /\ t.rbuf = r
        /\ t.pc = "sw2" /\ t.state = s.state /\ t.block = s.block /\ t.dirty = s.dirty /\ t.slipped = s.slipped
    BY <1>0 DEF T0Record
  <2> HIDE DEF t
  <2>4. T0Side(t)
    <3>1. ~s.past /\ (s.rlen = s.room \/ s.rlen = s.le + 2) /\ (~s.block /\ s.dirty => s.slipped)
      BY <1>0 DEF T0Side, T0Span
    <3>2. s.state = "SENDING" => s.rlen = s.room /\ Len(s.rbuf) = 0
      BY <1>0 DEF T0Side
    <3>3. s.state = "RECEIVING" => s.rlen = s.le + 2
      BY <1>0 DEF T0Side
    <3>4. s.state = "SENDING" => Len(t.rbuf) = 1
      <4>1. Len(t.rbuf) = Len(s.rbuf) + 1
        BY ONLY <2>2, <2>3, Zenon
      <4> DEFINE a == Len(t.rbuf)
                 b == Len(s.rbuf)
      <4>2. a = b + 1 /\ (s.state = "SENDING" => b = 0)
        BY ONLY <3>2, <4>1, Zenon
      <4> HIDE DEF a, b
      <4>3. s.state = "SENDING" => a = 1
        BY ONLY <4>2
      <4> QED
        BY <4>3 DEF a
    <3>5. "sw2" # "data" /\ "sw2" # "proc"
      OBVIOUS
    <3> QED
      BY <2>3, <3>1, <3>2, <3>3, <3>4, <3>5, Zenon DEF T0Side, T0Span
  <2> QED
    BY <2>1, <2>4
<1>5. CASE T0Ack(0) \/ T0Ack(1)
  BY <1>0, <1>5, T0SideAck
<1> QED
  BY <1>1, <1>2, <1>3, <1>4, <1>5

LEMMA T0SideSw2 ==
  ASSUME T0Good(t0), T0Side(t0), T0Sw2
  PROVE  T0Side(t0')
<1> DEFINE s == T0Take
           r == Append(s.rbuf, Head(t0.in))
           u == [s EXCEPT !.past = TRUE]
           v == [s EXCEPT !.rbuf = r]
<1>0. /\ t0.pc = "sw2" /\ t0.in # <<>> /\ s \in T0Record /\ T0SpanOf(s, t0) /\ T0Side(s)
      /\ s.pc = t0.pc /\ s.state = t0.state /\ t0.state \in {"SENDING", "RECEIVING"}
      /\ Len(t0.rbuf) >= 1
  BY T0SideTake DEF T0Sw2, T0Good, T0Room
<1>1. t0' \in T0Ended(IF Len(t0.rbuf) = t0.rlen THEN u ELSE v)
  BY DEF T0Sw2
<1>2. /\ r \in Seq(T0Bytes) /\ Len(r) = Len(s.rbuf) + 1 /\ s.rbuf = t0.rbuf /\ Len(s.rbuf) \in Nat
      /\ s.rlen = t0.rlen /\ s.rlen \in Nat /\ s.rlen >= 2
  <2>1. s.rbuf \in Seq(T0Bytes) /\ Head(t0.in) \in T0Bytes /\ s.rbuf = t0.rbuf /\ s.rlen = t0.rlen
    BY <1>0, T0TakeTaken DEF T0Taken, T0Record
  <2>2. s.rlen \in 2 .. T0Le + 3
    BY <1>0 DEF T0Record
  <2> HIDE DEF s
  <2>3. r \in Seq(T0Bytes) /\ Len(r) = Len(s.rbuf) + 1 /\ Len(s.rbuf) \in Nat
    BY <2>1
  <2> QED
    BY <2>1, <2>2, <2>3, T0Assumption
<1> HIDE DEF s, r
<1>3. /\ u \in T0Record /\ u.rlen = s.rlen /\ u.room = s.room /\ u.le = s.le /\ u.rbuf = s.rbuf
      /\ u.block = s.block /\ u.dirty = s.dirty /\ u.slipped = s.slipped
  BY <1>0 DEF T0Record
<1>4. /\ v \in T0Record /\ v.rlen = s.rlen /\ v.room = s.room /\ v.le = s.le /\ v.rbuf = r
      /\ v.past = s.past /\ v.block = s.block /\ v.dirty = s.dirty /\ v.slipped = s.slipped
  BY <1>0, <1>2 DEF T0Record
<1> HIDE DEF u, v
<1>5. CASE Len(t0.rbuf) = t0.rlen
  <2>1. s.state # "SENDING"
    BY <1>0, <1>2, <1>5 DEF T0Side
  <2>2. T0Span(u)
    BY <1>0, <1>2, <1>3, <1>5, <2>1 DEF T0Side, T0Span
  <2> QED
    BY <1>0, <1>1, <1>2, <1>3, <1>5, <2>2, T0SideEnded
<1>6. CASE Len(t0.rbuf) # t0.rlen
  <2>1. T0Span(v)
    BY <1>0, <1>4 DEF T0Side, T0Span
  <2>2. Len(v.rbuf) >= 1
    BY <1>2, <1>4
  <2> QED
    BY <1>1, <1>4, <1>6, <2>1, <2>2, T0SideEnded
<1> QED
  BY <1>5, <1>6

LEMMA T0SideData ==
  ASSUME T0Good(t0), T0Side(t0), T0Data
  PROVE  T0Side(t0')
<1> DEFINE s == T0Recvd
           t == [s EXCEPT !.pc = "proc"]
<1>0. t0.pc = "data" /\ Len(t0.in) >= t0.want /\ t0.state \in {"SENDING", "RECEIVING"} /\ t0 \in T0Record
  BY DEF T0Data, T0Good, T0Room
<1>1. t0' = IF Len(s.rbuf) = s.rlen THEN T0Done(s, "ok") ELSE t
  BY DEF T0Data, T0Recvd
<1>2. s \in T0Record
  BY <1>0, T0RecvdMoved
<1>3. /\ s.rlen = t0.rlen /\ s.room = t0.room /\ s.le = t0.le /\ s.past = t0.past /\ s.state = t0.state
      /\ s.block = t0.block /\ s.dirty = t0.dirty /\ s.slipped = t0.slipped
  BY <1>0 DEF T0Recvd, T0Record
<1> HIDE DEF s
<1>4. t0.state = "RECEIVING" /\ ~t0.past /\ t0.rlen = t0.le + 2
  BY <1>0 DEF T0Side
<1>5. T0Span(s)
  BY <1>3, <1>4 DEF T0Span, T0Side
<1>6. /\ t.rlen = s.rlen /\ t.room = s.room /\ t.le = s.le /\ t.past = s.past /\ t.state = s.state
      /\ t.rbuf = s.rbuf /\ t.block = s.block /\ t.dirty = s.dirty /\ t.slipped = s.slipped
  BY <1>2 DEF T0Record
<1> HIDE DEF t
<1>7. T0Side(t)
  BY <1>3, <1>4, <1>5, <1>6 DEF T0Side, T0Span
<1> QED
  BY <1>1, <1>2, <1>5, <1>7, T0SpanEnds

(* What the card does, and a failure of the driver, leave the window. *)
LEMMA T0SideOther ==
  ASSUME T0Good(t0), T0Side(t0),
         T0Timeout \/ T0BlockFails \/ T0Card \/ T0Refused \/ T0Malformed \/ T0Reset
  PROVE  T0Side(t0')
<1>0. t0 \in T0Record
  BY DEF T0Good
<1>1. CASE T0Timeout
  <2> DEFINE q == IF t0.pc = "data" THEN <<>> ELSE t0.in
  <2>0. t0.in \in Seq(T0Bytes) /\ q \in Seq(T0Bytes) /\ t0.late \in Nat
    BY <1>0, T0Empty DEF T0Record
  <2>1. PICK l \in Nat : t0' = T0Failed([t0 EXCEPT !.late = l, !.in = q], "CONFUSED")
    <3>1. t0.late + 1 \in Nat
      BY <2>0
    <3> QED
      BY <1>1, <2>0, <3>1 DEF T0Timeout
  <2> DEFINE s == [t0 EXCEPT !.late = l, !.in = q]
  <2> HIDE DEF q
  <2>2. s \in T0Record /\ T0SpanOf(s, t0)
    BY <1>0, <2>0 DEF T0Record, T0SpanOf
  <2> HIDE DEF s
  <2>3. T0Span(s)
    BY <2>2 DEF T0Side, T0Span, T0SpanOf
  <2> QED
    BY <2>1, <2>2, <2>3, T0SpanEnds DEF s
<1>2. CASE T0BlockFails
  <2> DEFINE e == <<>>
             s == [t0 EXCEPT !.out = e]
  <2>1. t0' = T0Failed(s, t0.state)
    BY <1>2 DEF T0BlockFails
  <2>2. e \in Seq(T0Sent)
    BY T0Empty
  <2> HIDE DEF e
  <2>3. s \in T0Record /\ T0SpanOf(s, t0)
    BY <1>0, <2>2 DEF T0Record, T0SpanOf
  <2> HIDE DEF s
  <2>4. T0Span(s)
    BY <2>3 DEF T0Side, T0Span, T0SpanOf
  <2> QED
    BY <2>1, <2>3, <2>4, T0SpanEnds
<1>3. CASE T0Card
  <2>1. T0SpanOf(t0', t0) /\ t0'.pc = t0.pc /\ t0'.state = t0.state
    <3>1. \A c, b : T0Say(c, b) => T0SpanOf(t0', t0) /\ t0'.pc = t0.pc /\ t0'.state = t0.state
      BY <1>0 DEF T0Say, T0Record, T0SpanOf
    <3>2. T0CardAnswer => \E c, b : T0Say(c, b)
      BY DEF T0CardAnswer, T0Sw
    <3>3. CASE T0CardHeader \/ T0CardWrongHeader \/ T0CardData
      BY <1>0, <3>3 DEF T0CardHeader, T0CardWrongHeader, T0CardData, T0Record, T0SpanOf
    <3> QED
      BY <1>3, <3>1, <3>2, <3>3 DEF T0Card
  <2> QED
    BY <2>1, T0SideKept
<1>4. CASE T0Refused \/ T0Malformed
  <2>1. T0SpanOf(t0', t0) /\ t0'.pc = t0.pc /\ t0'.state = t0.state
    BY <1>0, <1>4 DEF T0Refused, T0Malformed, T0Record, T0SpanOf
  <2> QED
    BY <2>1, T0SideKept
<1>5. CASE T0Reset
  <2>1. t0'.rlen = 2 /\ t0'.room = 2 /\ t0'.past = FALSE /\ t0'.pc = "idle" /\ t0'.dirty = FALSE
    BY <1>5 DEF T0Reset, T0New
  <2> QED
    BY <2>1 DEF T0Side, T0Span
<1> QED
  BY <1>1, <1>2, <1>3, <1>4, <1>5

LEMMA T0SideBlock ==
  ASSUME T0Good(t0), T0Side(t0), NEW n \in Nat, T0Block(n)
  PROVE  T0Side(t0')
<1> DEFINE e == <<>>
           s == [t0 EXCEPT !.out = e]
           r == T0Answer(n)
           t == [s EXCEPT !.rbuf = r]
<1>0. t0 \in T0Record /\ t0.pc = "proc"
  BY DEF T0Good, T0Block
<1>1. e \in Seq(T0Sent)
  BY T0Empty
<1>2. t0' \in IF s.state # "RECEIVING" /\ n < 2 THEN {T0Return(s, "error")}
              ELSE IF s.state # "RECEIVING" /\ n = 2 THEN T0Ended(t)
              ELSE {T0Done(t, "ok")}
  <2>1. s.call = t0.call
    BY <1>0 DEF T0Record
  <2> QED
    BY <2>1 DEF T0Block, T0Answer
<1>3. r \in Seq(T0Bytes) /\ Len(r) = n
  BY T0AnswerBytes
<1> HIDE DEF e, r
<1>4. s \in T0Record /\ T0SpanOf(s, t0)
  BY <1>0, <1>1 DEF T0Record, T0SpanOf
<1> HIDE DEF s
<1>5. /\ t \in T0Record /\ t.rlen = s.rlen /\ t.room = s.room /\ t.le = s.le /\ t.past = s.past /\ t.rbuf = r
      /\ t.block = s.block /\ t.dirty = s.dirty /\ t.slipped = s.slipped
  BY <1>3, <1>4 DEF T0Record
<1> HIDE DEF t
<1>6. T0Span(s) /\ T0Span(t)
  BY <1>0, <1>4, <1>5 DEF T0Side, T0Span, T0SpanOf
<1>7. n = 2 => Len(t.rbuf) >= 1
  <2>1. Len(t.rbuf) = n
    BY ONLY <1>3, <1>5
  <2> QED
    BY ONLY <2>1
<1> QED
  BY <1>2, <1>4, <1>5, <1>6, <1>7, T0SpanEnds, T0SideEnded

LEMMA T0SideNext == T0Good(t0) /\ T0Side(t0) /\ T0Next => T0Side(t0')
<1>1. SUFFICES ASSUME T0Good(t0), T0Side(t0), T0Next PROVE T0Side(t0')
  OBVIOUS
<1>2. ASSUME NEW n \in 0 .. T0Le + 3, T0Block(n) PROVE T0Side(t0')
  <2>1. n \in Nat
    BY T0Assumption
  <2> QED
    BY <1>1, <1>2, <2>1, T0SideBlock
<1> QED
  BY <1>1, <1>2, T0SideTransceive, T0SideProcedure, T0SideSw2, T0SideData, T0SideOther DEF T0Next, T0Step

LEMMA T0GoodSuffices == T0Good(t0) /\ T0Side(t0) => T0Fits /\ T0AnswerIsOwn /\ T0InStep
<1>1. T0Good(t0) /\ T0Side(t0) => T0Fits
  <2>1. SUFFICES ASSUME T0Good(t0), T0Side(t0) PROVE T0Fits
    OBVIOUS
  <2> DEFINE n == Len(t0.rbuf)
  <2>2. n \in Nat /\ n <= t0.rlen /\ t0.rlen \in Nat /\ t0.le \in Nat /\ t0.room \in Nat
    BY <2>1, T0Empty, T0Assumption DEF T0Good, T0Record, T0Room
  <2>3. /\ t0.rlen = t0.room \/ t0.rlen = t0.le + 2
        /\ t0.past => n = t0.le + 2
    BY <2>1 DEF T0Side, T0Span
  <2>4. LET stored == n + (IF t0.past THEN 1 ELSE 0)
        IN  stored <= t0.room \/ stored <= t0.le + 2 \/ (t0.past /\ stored = t0.le + 3)
    <3> HIDE DEF n
    <3> QED
      BY <2>2, <2>3
  <2> QED
    BY <2>1, <2>4 DEF T0Good, T0Room, T0Record, T0Fits
<1>2. T0Good(t0) /\ T0Side(t0) => T0InStep
  BY DEF T0Good, T0Calm, T0Side, T0Span, T0InStep
<1>3. T0Good(t0) => T0AnswerIsOwn
  <2>1. SUFFICES ASSUME T0Good(t0), t0.pc = "idle", t0.ret = "ok", ~t0.dirty, ~t0.block
                 PROVE  T0Own(t0)
    BY DEF T0AnswerIsOwn, T0Own
  <2> QED
    BY <2>1 DEF T0Good, T0Calm, T0Idle
<1> QED
  BY <1>1, <1>2, <1>3

-----------------------------------------------------------------------------
(* Memory cards: SyncGood *)

SyncNames == {"i2c_short", "i2c_long", "2wire", "3wire"}
SyncAddrs == 0 .. SyncSize - 1
SyncMems == [SyncAddrs -> 0 .. 3]

SyncRecord ==
    [mem : SyncMems, was : SyncMems, kind : {"i2c_long", "2wire"},
     pc : {"idle", "write", "probe", "inverted", "restored", "atr"}, as : SyncNames,
     addr : SyncAddrs, data : Seq(0 .. 3), todo : Seq(0 .. 3), retries : Nat, k : 1 .. 4,
     then : {"idle", "inverted", "restored"}, op : {"none", "write", "detect"},
     ret : {"none", "ok", "error"}, proto : SyncNames \cup {"none"}, fault : BOOLEAN,
     blind : BOOLEAN]

(* The first byte of the card's memory is inverted. *)
SyncFlipped(s) == [s.was EXCEPT ![0] = Complement[s.was[0]]]

(* The search for the kind of card, no driver call having failed: only a
   probe of the kind the card is of has touched its memory, the first byte. *)
SyncProbing(s) ==
    /\ s.pc \in {"probe", "atr", "idle"} \/ s.as # s.kind => s.mem = s.was
    /\ s.as = s.kind /\ s.pc = "write" =>
          /\ s.addr = 0 /\ Len(s.data) = 1 /\ s.todo = s.data
          /\ s.then = "inverted" => s.mem = s.was /\ s.data[1] = Complement[s.was[0]]
          /\ s.then = "restored" => s.mem = SyncFlipped(s) /\ s.data[1] = s.was[0]
    /\ s.as = s.kind /\ s.pc = "inverted" =>
          s.ret = "ok" /\ s.mem = SyncFlipped(s) /\ s.data[1] = Complement[s.was[0]]
    /\ s.as = s.kind /\ s.pc = "restored" => s.mem = s.was

(* Of a write from address f on, the first Len(data) - Len(todo) bytes are
   done, and nothing outside it has changed. *)
SyncFrom(s, f) ==
    LET d == Len(s.data) - Len(s.todo)
    IN  /\ s.addr = (f + d) % SyncSize
        /\ \A i \in 1 .. Len(s.todo) : s.todo[i] = s.data[d + i]
        /\ \A i \in 0 .. d - 1 : s.mem[(f + i) % SyncSize] = s.data[i + 1]
        /\ \A a \in SyncAddrs \ Cells(f, Len(s.data)) : s.mem[a] = s.was[a]

SyncPart(s) ==
    /\ Len(s.data) <= SyncSize /\ Len(s.todo) <= Len(s.data)
    /\ \E f \in SyncAddrs : SyncFrom(s, f)

SyncGood(s) ==
    /\ s \in SyncRecord
    /\ s.op = "none" => s.pc = "idle"
    /\ s.op = "write" => s.pc \in {"write", "idle"} /\ s.as = s.kind /\ s.then = "idle"
    /\ s.pc = "write" => Len(s.todo) >= 1
    /\ s.pc = "write" /\ s.op = "detect" => s.then \in {"inverted", "restored"}
    /\ s.pc \in {"write", "inverted"} /\ s.op = "detect" => Len(s.data) = 1
    /\ s.op = "detect" /\ ~s.fault => SyncProbing(s)
    /\ s.op = "write" /\ ~s.blind =>
          /\ s.pc = "write" => SyncPart(s)
          /\ s.pc = "idle" /\ s.ret = "ok" => SyncPart(s) /\ s.todo = <<>>

LEMMA SyncModSmall == ASSUME NEW p \in Nat \ {0}, NEW a \in 0 .. p - 1 PROVE a % p = a
OBVIOUS

LEMMA SyncModWrap == ASSUME NEW p \in Nat \ {0}, NEW a \in Nat, p <= a, a < p + p PROVE a % p = a - p
OBVIOUS

LEMMA SyncModRange == ASSUME NEW p \in Nat \ {0}, NEW a \in Nat PROVE a % p \in 0 .. p - 1
OBVIOUS

LEMMA SyncModParts ==
  ASSUME NEW p \in Nat \ {0}, NEW a \in Nat
  PROVE  a \div p \in Nat /\ a = p * (a \div p) + (a % p)
OBVIOUS

LEMMA SyncModOf ==
  ASSUME NEW p \in Nat \ {0}, NEW q \in Nat, NEW r \in 0 .. p - 1
  PROVE  (p * q + r) % p = r
OBVIOUS

LEMMA SyncModUpTo ==
  ASSUME NEW p \in Nat \ {0}, NEW q \in Nat, NEW k \in Nat, NEW r \in 0 .. p - 1, p * q + r < p * k
  PROVE  p * q + p <= p * k
OBVIOUS

(* A page of an address space that holds a whole number of them. *)
LEMMA SyncPageOf ==
  ASSUME NEW a \in SyncAddrs
  PROVE  LET r == a % SyncPage
         IN  /\ r \in 0 .. SyncPage - 1 /\ r <= a /\ a - r + SyncPage <= SyncSize
             /\ \A i \in 0 .. SyncPage - 1 - r : (a + i) % SyncPage = r + i
<1> DEFINE p == SyncPage
           s == SyncSize
           r == a % p
           q == a \div p
           k == s \div p
<1>1. p \in Nat \ {0} /\ s \in Nat \ {0} /\ s % p = 0 /\ a \in Nat /\ a < s
  BY SyncAssumption DEF SyncAddrs
<1>2. r \in 0 .. p - 1 /\ q \in Nat /\ a = p * q + r /\ k \in Nat /\ s = p * k + 0
  BY <1>1, SyncModRange, SyncModParts
<1> HIDE DEF p, s, r, q, k
<1>3. p * q \in Nat /\ p * k \in Nat
  BY <1>1, <1>2
<1>4. p * q + p <= p * k
  BY <1>1, <1>2, <1>3, SyncModUpTo
<1>5. r <= a /\ a - r + p <= s
  BY <1>1, <1>2, <1>3, <1>4
<1>6. \A i \in 0 .. p - 1 - r : (a + i) % p = r + i
  <2>1. SUFFICES ASSUME NEW i \in 0 .. p - 1 - r PROVE (a + i) % p = r + i
    OBVIOUS
  <2>2. r + i \in 0 .. p - 1
    BY <1>1, <1>2
  <2>3. (p * q + (r + i)) % p = r + i
    BY <1>1, <1>2, <2>2, SyncModOf
  <2>4. a + i = p * q + (r + i)
    BY <1>1, <1>2, <1>3
  <2> QED
    BY <2>3, <2>4
<1> QED
  BY <1>2, <1>5, <1>6 DEF r, p, s

(* Inside a page, the addresses of a write that started at f do not wrap. *)
LEMMA SyncInside ==
  ASSUME NEW f \in SyncAddrs, NEW d \in Nat, NEW n \in Nat, d + n <= SyncSize, n >= 1,
         NEW a, a = (f + d) % SyncSize, a + n <= SyncSize
  PROVE  /\ (a + n) % SyncSize = (f + (d + n)) % SyncSize
         /\ \A i \in 0 .. n - 1 : (f + (d + i)) % SyncSize = a + i
<1> DEFINE s == SyncSize
<1>0. s \in Nat \ {0} /\ f \in Nat /\ f < s
  BY SyncAssumption DEF SyncAddrs
<1>a. d + n <= s /\ a = (f + d) % s /\ a + n <= s
  OBVIOUS
<1> HIDE DEF s
<1>1. CASE f + d < s
  <2>1. a = f + d
    BY <1>0, <1>1, <1>a, SyncModSmall
  <2>2. \A i \in 0 .. n - 1 : (f + (d + i)) % s = a + i
    <3>1. SUFFICES ASSUME NEW i \in 0 .. n - 1 PROVE (f + (d + i)) % s = a + i
      OBVIOUS
    <3>2. f + (d + i) = a + i /\ a + i \in 0 .. s - 1
      BY <1>0, <1>a, <2>1
    <3> QED
      BY <1>0, <3>2, SyncModSmall
  <2>3. a + n = f + (d + n)
    BY <1>0, <2>1
  <2> QED
    BY <2>2, <2>3 DEF s
<1>2. CASE f + d >= s
  <2>0. f + d \in Nat /\ s <= f + d /\ f + d < s + s
    BY <1>0, <1>2, <1>a
  <2> DEFINE x == f + d
  <2>a. x \in Nat /\ s <= x /\ x < s + s /\ a = x % s
    BY <2>0, <1>a
  <2> HIDE DEF x
  <2>b. a = x - s
    BY ONLY <1>0, <2>a, SyncModWrap
  <2>1. a = f + d - s
    BY <1>0, <2>b DEF x
  <2>2. \A i \in 0 .. n - 1 : (f + (d + i)) % s = a + i
    <3>1. SUFFICES ASSUME NEW i \in 0 .. n - 1 PROVE (f + (d + i)) % s = a + i
      OBVIOUS
    <3> DEFINE y == f + (d + i)
    <3>2. y \in Nat /\ s <= y /\ y < s + s /\ y - s = a + i
      BY <1>0, <1>2, <1>a, <2>1
    <3> HIDE DEF y
    <3>3. y % s = a + i
      BY ONLY <1>0, <3>2, SyncModWrap
    <3> QED
      BY <3>3 DEF y
  <2>3. (a + n) % s = (f + (d + n)) % s
    <3> DEFINE y == f + (d + n)
    <3>1. y \in Nat /\ s <= y /\ y < s + s /\ y - s = a + n /\ a + n \in 0 .. s - 1
      BY <1>0, <1>2, <1>a, <2>1
    <3> HIDE DEF y
    <3>a. y % s = a + n
      BY ONLY <1>0, <3>1, SyncModWrap
    <3>2. (f + (d + n)) % s = a + n
      BY <3>a DEF y
    <3>3. (a + n) % s = a + n
      BY <1>0, <3>1, SyncModSmall
    <3> QED
      BY <3>2, <3>3
  <2> QED
    BY <2>2, <2>3 DEF s
<1> QED
  BY <1>0, <1>1, <1>2

LEMMA SyncApart ==
  ASSUME NEW f \in SyncAddrs, NEW i \in SyncAddrs, NEW j \in SyncAddrs,
         (f + i) % SyncSize = (f + j) % SyncSize
  PROVE  i = j
<1> DEFINE s == SyncSize
<1>0. /\ s \in Nat \ {0} /\ f \in Nat /\ f < s /\ i \in Nat /\ i < s /\ j \in Nat /\ j < s
      /\ (f + i) % s = (f + j) % s
  BY SyncAssumption DEF SyncAddrs
<1> HIDE DEF s
<1>1. \A x \in 0 .. s - 1 : IF f + x < s THEN (f + x) % s = f + x ELSE (f + x) % s = f + x - s
  <2>1. SUFFICES ASSUME NEW x \in 0 .. s - 1
                 PROVE  IF f + x < s THEN (f + x) % s = f + x ELSE (f + x) % s = f + x - s
    OBVIOUS
  <2>2. CASE f + x < s
    <3>1. f + x \in 0 .. s - 1
      BY <1>0, <2>2
    <3> QED
      BY <1>0, <2>2, <3>1, SyncModSmall
  <2>3. CASE f + x >= s
    <3> DEFINE y == f + x
    <3>1. y \in Nat /\ s <= y /\ y < s + s
      BY <1>0, <2>3
    <3> HIDE DEF y
    <3>a. y % s = y - s
      BY ONLY <1>0, <3>1, SyncModWrap
    <3>2. (f + x) % s = f + x - s
      BY <1>0, <3>a DEF y
    <3> QED
      BY <1>0, <2>3, <3>2
  <2> QED
    BY <1>0, <2>2, <2>3
<1>2. i \in 0 .. s - 1 /\ j \in 0 .. s - 1
  BY <1>0
<1>3. /\ IF f + i < s THEN (f + i) % s = f + i ELSE (f + i) % s = f + i - s
      /\ IF f + j < s THEN (f + j) % s = f + j ELSE (f + j) % s = f + j - s
  BY <1>1, <1>2
<1> DEFINE x == (f + i) % s
           y == (f + j) % s
<1>4. /\ IF f + i < s THEN x = f + i ELSE x = f + i - s
      /\ IF f + j < s THEN y = f + j ELSE y = f + j - s
      /\ x = y
  BY <1>0, <1>3
<1> HIDE DEF x, y
<1> QED
  BY <1>0, <1>4

(* Where a write started, from where it ends. *)
LEMMA SyncFirst ==
  ASSUME NEW f \in SyncAddrs, NEW n \in 0 .. SyncSize
  PROVE  (((f + n) % SyncSize) + SyncSize - (n % SyncSize)) % SyncSize = f
<1> DEFINE s == SyncSize
<1>0. s \in Nat \ {0} /\ f \in Nat /\ f < s /\ n \in Nat /\ n <= s
  BY SyncAssumption DEF SyncAddrs
<1> HIDE DEF s
<1>1. (f + s) % s = f /\ f % s = f
  <2>1. f + s \in Nat /\ s <= f + s /\ f + s < s + s /\ f \in 0 .. s - 1 /\ f + s - s = f
    BY <1>0
  <2> QED
    BY <1>0, <2>1, SyncModWrap, SyncModSmall
<1>2. (((f + n) % s) + s - (n % s)) % s = f
  <2>1. CASE n = s
    <3>1. n % s = 0
      BY <1>0, <2>1
    <3>2. (f + n) % s = f
      BY <1>1, <2>1
    <3>3. f + s - 0 = f + s
      BY <1>0
    <3> QED
      BY <1>1, <3>1, <3>2, <3>3
  <2>2. CASE n < s /\ f + n < s
    <3>1. n \in 0 .. s - 1 /\ f + n \in 0 .. s - 1 /\ (f + n) + s - n = f + s
      BY <1>0, <2>2
    <3>2. n % s = n /\ (f + n) % s = f + n
      BY <1>0, <3>1, SyncModSmall
    <3> QED
      BY <1>1, <3>1, <3>2
  <2>3. CASE n < s /\ f + n >= s
    <3> DEFINE y == f + n
    <3>1. /\ n \in 0 .. s - 1 /\ (f + n - s) + s - n = f
          /\ y \in Nat /\ s <= y /\ y < s + s
      BY <1>0, <2>3
    <3> HIDE DEF y
    <3>a. n % s = n /\ y % s = y - s
      BY ONLY <1>0, <3>1, SyncModSmall, SyncModWrap
    <3>2. n % s = n /\ (f + n) % s = f + n - s
      BY <1>0, <3>a DEF y
    <3> QED
      BY <1>1, <3>1, <3>2
  <2> QED
    BY <1>0, <2>1, <2>2, <2>3
<1> QED
  BY <1>2 DEF s

(* What fits into the page of the address is at least a byte, and ends inside
   the address space. *)
LEMMA SyncCount ==
  ASSUME NEW s \in SyncRecord, Len(s.todo) >= 1
  PROVE  /\ Count(s) \in Nat /\ Count(s) >= 1 /\ Count(s) <= Len(s.todo)
         /\ Count(s) <= SyncPage - (s.addr % SyncPage)
         /\ s.addr \in Nat /\ s.addr + Count(s) <= SyncSize
<1> DEFINE a == s.addr
           m == Len(s.todo)
           r == a % SyncPage
<1>1. a \in SyncAddrs /\ a \in Nat /\ m \in Nat /\ m >= 1
  BY DEF SyncRecord, SyncAddrs
<1>2. r \in 0 .. SyncPage - 1 /\ r <= a /\ a - r + SyncPage <= SyncSize
  BY <1>1, SyncPageOf
<1>3. Count(s) = IF SyncPage - r > m THEN m ELSE SyncPage - r
  BY DEF Count
<1> HIDE DEF a, m, r
<1>4. SyncPage \in Nat /\ SyncSize \in Nat
  BY SyncAssumption
<1>5. /\ Count(s) \in Nat /\ Count(s) >= 1 /\ Count(s) <= m
      /\ Count(s) <= SyncPage - r
      /\ a \in Nat /\ a + Count(s) <= SyncSize
  <2>1. CASE SyncPage - r > m
    BY <1>1, <1>2, <1>3, <1>4, <2>1
  <2>2. CASE ~(SyncPage - r > m)
    BY <1>1, <1>2, <1>3, <1>4, <2>2
  <2> QED
    BY <2>1, <2>2
<1> QED
  BY <1>5 DEF a, m, r

(* A chunk that is stored takes the place of the bytes from the address on,
   and of nothing else. *)
LEMMA SyncStored ==
  ASSUME NEW s \in SyncRecord, Len(s.todo) >= 1
  PROVE  /\ Stored(s) \in SyncMems
         /\ \A i \in 0 .. Count(s) - 1 : Stored(s)[s.addr + i] = s.todo[1 + i]
         /\ \A b \in SyncAddrs : (\A i \in 0 .. Count(s) - 1 : b # s.addr + i)
                => Stored(s)[b] = s.mem[b]
<1> DEFINE a == s.addr
           n == Count(s)
           r == a % SyncPage
           pos(i) == (a - r) + ((a + i) % SyncPage)
<1>1. a \in SyncAddrs /\ a \in Nat /\ s.todo \in Seq(0 .. 3) /\ s.mem \in SyncMems /\ DOMAIN s.mem = SyncAddrs
  BY DEF SyncRecord, SyncAddrs, SyncMems
<1>2. n \in Nat /\ n >= 1 /\ n <= Len(s.todo) /\ n <= SyncPage - r /\ a + n <= SyncSize
  BY SyncCount
<1>3. r \in 0 .. SyncPage - 1 /\ \A i \in 0 .. SyncPage - 1 - r : (a + i) % SyncPage = r + i
  BY <1>1, SyncPageOf
<1>4. Stored(s) = [b \in SyncAddrs |->
            IF \E i \in 0 .. n - 1 : pos(i) = b
            THEN s.todo[1 + (CHOOSE i \in 0 .. n - 1 : pos(i) = b)] ELSE s.mem[b]]
  BY <1>1 DEF Stored
<1>5. \A i \in 0 .. n - 1 : pos(i) = a + i
  <2>1. SUFFICES ASSUME NEW i \in 0 .. n - 1 PROVE pos(i) = a + i
    OBVIOUS
  <2> HIDE DEF n
  <2>2. i \in 0 .. SyncPage - 1 - r /\ SyncPage \in Nat
    BY <1>2, <1>3, SyncAssumption
  <2>3. (a + i) % SyncPage = r + i
    BY <1>3, <2>2
  <2> QED
    BY <1>1, <1>3, <2>2, <2>3
<1> HIDE DEF n, pos
<1>6. \A b \in SyncAddrs : (\E i \in 0 .. n - 1 : pos(i) = b) =>
          \E i \in 0 .. n - 1 : b = a + i /\ (CHOOSE j \in 0 .. n - 1 : pos(j) = b) = i
  <2>1. SUFFICES ASSUME NEW b \in SyncAddrs, \E i \in 0 .. n - 1 : pos(i) = b
                 PROVE  \E i \in 0 .. n - 1 : b = a + i /\ (CHOOSE j \in 0 .. n - 1 : pos(j) = b) = i
    OBVIOUS
  <2> DEFINE c == CHOOSE j \in 0 .. n - 1 : pos(j) = b
  <2>2. c \in 0 .. n - 1 /\ pos(c) = b
    BY <2>1
  <2> HIDE DEF c
  <2>3. b = a + c
    BY <1>5, <2>2
  <2> QED
    BY <2>2, <2>3 DEF c
<1>7. \A i \in 0 .. n - 1 : s.todo[1 + i] \in 0 .. 3
  BY <1>1, <1>2
<1>8. ASSUME NEW b \in SyncAddrs
      PROVE  Stored(s)[b] \in 0 .. 3
  <2>1. CASE \E i \in 0 .. n - 1 : pos(i) = b
    <3>1. PICK i \in 0 .. n - 1 : (CHOOSE j \in 0 .. n - 1 : pos(j) = b) = i
      BY <1>6, <2>1
    <3> QED
      BY <1>4, <1>7, <2>1, <3>1
  <2>2. CASE ~\E i \in 0 .. n - 1 : pos(i) = b
    BY <1>1, <1>4, <2>2 DEF SyncMems
  <2> QED
    BY <2>1, <2>2
<1>9. Stored(s) \in SyncMems
  BY <1>4, <1>8 DEF SyncMems
<1>10. ASSUME NEW i \in 0 .. n - 1 PROVE Stored(s)[a + i] = s.todo[1 + i]
  <2>1. a + i \in SyncAddrs
    BY <1>1, <1>2, SyncAssumption DEF SyncAddrs
  <2>2. pos(i) = a + i
    BY <1>5
  <2>3. PICK j \in 0 .. n - 1 : a + i = a + j /\ (CHOOSE h \in 0 .. n - 1 : pos(h) = a + i) = j
    BY <1>6, <2>1, <2>2
  <2>4. j = i
    BY <1>1, <1>2, <2>3
  <2> QED
    BY <1>4, <2>1, <2>2, <2>3, <2>4
<1>11. ASSUME NEW b \in SyncAddrs, \A i \in 0 .. n - 1 : b # a + i PROVE Stored(s)[b] = s.mem[b]
  <2>1. ~\E i \in 0 .. n - 1 : pos(i) = b
    BY <1>5, <1>11
  <2> QED
    BY <1>4, <2>1
<1> QED
  BY <1>9, <1>10, <1>11 DEF n

LEMMA SyncRest ==
  ASSUME NEW q \in Seq(0 .. 3), NEW n \in Nat, n <= Len(q)
  PROVE  /\ SubSeq(q, n + 1, Len(q)) \in Seq(0 .. 3)
         /\ Len(SubSeq(q, n + 1, Len(q))) = Len(q) - n
         /\ \A i \in 1 .. Len(q) - n : SubSeq(q, n + 1, Len(q))[i] = q[n + i]
OBVIOUS

LEMMA SyncEnded ==
  ASSUME NEW s \in SyncRecord, NEW r \in {"ok", "error"}, NEW t, t = SyncEnd(s, r)
  PROVE  /\ t \in SyncRecord
         /\ t.mem = s.mem /\ t.was = s.was /\ t.kind = s.kind /\ t.as = s.as /\ t.data = s.data
         /\ t.then = s.then /\ t.op = s.op /\ t.fault = s.fault /\ t.blind = s.blind
         /\ t.addr = s.addr /\ t.todo = s.todo /\ t.pc = s.then /\ t.ret = r
BY DEF SyncEnd, SyncRecord

(* A comparison that succeeds: on to the next page, or the end. *)
LEMMA SyncSame ==
  ASSUME NEW s \in SyncRecord, Len(s.todo) >= 1, s.pc = "write", NEW t, t = SyncVerified(s, TRUE)
  PROVE  /\ t \in SyncRecord
         /\ t.mem = s.mem /\ t.was = s.was /\ t.kind = s.kind /\ t.as = s.as /\ t.data = s.data
         /\ t.then = s.then /\ t.op = s.op /\ t.fault = s.fault /\ t.blind = s.blind
         /\ t.addr = (s.addr + Count(s)) % SyncSize
         /\ t.todo = SubSeq(s.todo, Count(s) + 1, Len(s.todo))
         /\ \/ t.pc = "write" /\ t.todo # <<>>
            \/ t.pc = s.then /\ t.todo = <<>> /\ t.ret = "ok"
<1> DEFINE n == Count(s)
           ad == (s.addr + n) % SyncSize
           td == SubSeq(s.todo, n + 1, Len(s.todo))
           u == [s EXCEPT !.addr = ad, !.todo = td]
<1>1. n \in Nat /\ n <= Len(s.todo) /\ s.todo \in Seq(0 .. 3) /\ s.addr \in Nat
  BY SyncCount DEF SyncRecord
<1>2. td \in Seq(0 .. 3)
  BY <1>1, SyncRest
<1>3. ad \in SyncAddrs
  <2>1. s.addr + n \in Nat /\ SyncSize \in Nat \ {0}
    BY <1>1, SyncAssumption
  <2> QED
    BY <2>1, SyncModRange DEF SyncAddrs
<1>4. t = IF u.todo = <<>> THEN SyncEnd(u, "ok") ELSE u
  BY DEF SyncVerified, SyncRecord
<1> HIDE DEF n, ad, td
<1>5. u \in SyncRecord /\ u.addr = ad /\ u.todo = td
      /\ u.mem = s.mem /\ u.was = s.was /\ u.kind = s.kind /\ u.as = s.as /\ u.data = s.data
      /\ u.then = s.then /\ u.op = s.op /\ u.fault = s.fault /\ u.blind = s.blind /\ u.pc = s.pc
  BY <1>2, <1>3 DEF SyncRecord
<1> HIDE DEF u
<1>6. CASE td = <<>>
  <2>1. t = SyncEnd(u, "ok") /\ u \in SyncRecord
    BY <1>4, <1>5, <1>6
  <2>3. /\ t.mem = s.mem /\ t.was = s.was /\ t.kind = s.kind /\ t.as = s.as /\ t.data = s.data
        /\ t.then = s.then /\ t.op = s.op /\ t.fault = s.fault /\ t.blind = s.blind
        /\ t.addr = ad /\ t.todo = td /\ t.pc = s.then /\ t.ret = "ok"
        /\ t \in SyncRecord
    <3>1. /\ t.mem = u.mem /\ t.was = u.was /\ t.kind = u.kind /\ t.as = u.as /\ t.data = u.data
          /\ t.then = u.then /\ t.op = u.op /\ t.fault = u.fault /\ t.blind = u.blind
          /\ t.addr = u.addr /\ t.todo = u.todo /\ t.pc = u.then /\ t.ret = "ok"
          /\ t \in SyncRecord
      BY ONLY <2>1, SyncEnded
    <3> QED
      BY <1>5, <3>1
  <2>4. t.todo = <<>>
    BY <1>6, <2>3
  <2>5. t.addr = (s.addr + Count(s)) % SyncSize /\ t.todo = SubSeq(s.todo, Count(s) + 1, Len(s.todo))
    BY <2>3 DEF ad, td, n
  <2> QED
    BY <2>3, <2>4, <2>5
<1>7. CASE td # <<>>
  <2>1. t = u
    BY <1>4, <1>5, <1>7
  <2> QED
    BY <1>5, <1>7, <2>1 DEF ad, td, n
<1> QED
  BY <1>6, <1>7

(* One that does not: again, or the end. *)
LEMMA SyncOther ==
  ASSUME NEW s \in SyncRecord, s.pc = "write", NEW t, t = SyncVerified(s, FALSE)
  PROVE  /\ t \in SyncRecord
         /\ t.mem = s.mem /\ t.was = s.was /\ t.kind = s.kind /\ t.as = s.as /\ t.data = s.data
         /\ t.then = s.then /\ t.op = s.op /\ t.fault = s.fault /\ t.blind = s.blind
         /\ t.addr = s.addr /\ t.todo = s.todo
         /\ \/ t.pc = "write"
            \/ t.pc = s.then /\ t.ret = "error"
<1>1. t = IF s.retries > 0 THEN [s EXCEPT !.retries = s.retries - 1]
          ELSE [s EXCEPT !.pc = s.then, !.ret = "error"]
  BY DEF SyncVerified, SyncEnd
<1>2. CASE s.retries > 0
  <2>0. s.retries - 1 \in Nat
    BY <1>2 DEF SyncRecord
  <2> QED
    BY <1>1, <1>2, <2>0, ZenonT(60) DEF SyncRecord
<1>3. CASE ~(s.retries > 0)
  BY <1>1, <1>3, ZenonT(60) DEF SyncRecord
<1> QED
  BY <1>2, <1>3

(* What SyncFrom says, without its abbreviation. *)
LEMMA SyncFromIs ==
  ASSUME NEW s, NEW f, NEW d, d = Len(s.data) - Len(s.todo)
  PROVE  SyncFrom(s, f) <=>
            /\ s.addr = (f + d) % SyncSize
            /\ \A i \in 1 .. Len(s.todo) : s.todo[i] = s.data[d + i]
            /\ \A i \in 0 .. d - 1 : s.mem[(f + i) % SyncSize] = s.data[i + 1]
            /\ \A a \in SyncAddrs \ Cells(f, Len(s.data)) : s.mem[a] = s.was[a]
BY DEF SyncFrom

(* A chunk that is stored and read back is done, and its bytes take no place
   of an earlier one. *)
LEMMA SyncAdvance ==
  ASSUME NEW s \in SyncRecord, Len(s.todo) >= 1, SyncPart(s), NEW s2 \in SyncRecord,
         s2.mem = Stored(s), s2.was = s.was, s2.data = s.data,
         s2.addr = (s.addr + Count(s)) % SyncSize,
         s2.todo = SubSeq(s.todo, Count(s) + 1, Len(s.todo))
  PROVE  SyncPart(s2)
<1> DEFINE n == Count(s)
           l == Len(s.data)
           w == Len(s.todo)
           d == l - w
           m == Stored(s)
<1>1. PICK f \in SyncAddrs : SyncFrom(s, f)
  BY DEF SyncPart
<1>2. /\ l \in Nat /\ w \in Nat /\ w >= 1 /\ w <= l /\ l <= SyncSize /\ SyncSize \in Nat \ {0}
      /\ s.todo \in Seq(0 .. 3) /\ s.mem \in SyncMems /\ f \in Nat /\ s.addr \in Nat
  BY SyncAssumption DEF SyncPart, SyncRecord, SyncAddrs
<1>3. n \in Nat /\ n >= 1 /\ n <= w /\ s.addr + n <= SyncSize
  BY SyncCount
<1>4. /\ s.addr = (f + d) % SyncSize
      /\ \A i \in 1 .. w : s.todo[i] = s.data[d + i]
      /\ \A i \in 0 .. d - 1 : s.mem[(f + i) % SyncSize] = s.data[i + 1]
      /\ \A a \in SyncAddrs \ Cells(f, l) : s.mem[a] = s.was[a]
  BY <1>1 DEF SyncFrom
<1>5. /\ \A i \in 0 .. n - 1 : m[s.addr + i] = s.todo[1 + i]
      /\ \A b \in SyncAddrs : (\A i \in 0 .. n - 1 : b # s.addr + i) => m[b] = s.mem[b]
  BY SyncStored
<1>6. /\ Len(s2.todo) = w - n
      /\ \A i \in 1 .. w - n : s2.todo[i] = s.todo[n + i]
  <2> DEFINE q == s.todo
             q2 == s2.todo
  <2>1. q \in Seq(0 .. 3) /\ n \in Nat /\ n <= Len(q) /\ q2 = SubSeq(q, n + 1, Len(q))
    BY <1>2, <1>3
  <2>2. w = Len(q)
    OBVIOUS
  <2> HIDE DEF q, q2, n, w
  <2>3. /\ Len(q2) = Len(q) - n
        /\ \A i \in 1 .. Len(q) - n : q2[i] = q[n + i]
    BY ONLY <2>1, SyncRest
  <2> QED
    BY <2>2, <2>3 DEF q, q2
<1>7. Cells(f, l) = {(f + i) % SyncSize : i \in 0 .. l - 1}
  BY DEF Cells
<1>a. s2.addr = (s.addr + n) % SyncSize /\ s2.mem = m /\ Len(s2.data) = l
  OBVIOUS
<1> HIDE DEF n, l, w, m
<1>8. d \in Nat /\ d + n \in Nat /\ d + n <= SyncSize /\ d + n <= l /\ d < SyncSize
  BY <1>2, <1>3
<1> HIDE DEF d
<1>9. /\ s2.addr = (f + (d + n)) % SyncSize
      /\ \A i \in 0 .. n - 1 : (f + (d + i)) % SyncSize = s.addr + i
  <2> DEFINE a == s.addr
  <2>1. a = (f + d) % SyncSize /\ a + n <= SyncSize /\ s2.addr = (a + n) % SyncSize
    BY <1>3, <1>4, <1>a
  <2> HIDE DEF a
  <2>2. /\ (a + n) % SyncSize = (f + (d + n)) % SyncSize
        /\ \A i \in 0 .. n - 1 : (f + (d + i)) % SyncSize = a + i
    BY ONLY <1>3, <1>8, <2>1, f \in SyncAddrs, SyncInside
  <2> QED
    BY <2>1, <2>2 DEF a
<1>10. \A i \in 1 .. w - n : s2.todo[i] = s2.data[(d + n) + i]
  <2>1. SUFFICES ASSUME NEW i \in 1 .. w - n PROVE s2.todo[i] = s2.data[(d + n) + i]
    OBVIOUS
  <2>2. n + i \in 1 .. w /\ d + (n + i) = (d + n) + i
    BY <1>2, <1>3, <1>8
  <2> QED
    BY <1>4, <1>6, <2>2
<1>11. ASSUME NEW i \in 0 .. (d + n) - 1
       PROVE  m[(f + i) % SyncSize] = s2.data[i + 1]
  <2> DEFINE b == (f + i) % SyncSize
  <2>1. b \in SyncAddrs
    <3>1. f + i \in Nat
      BY <1>2, <1>8
    <3> QED
      BY <1>2, <3>1, SyncModRange DEF SyncAddrs
  <2>2. CASE i < d
    <3>1. ASSUME NEW j \in 0 .. n - 1 PROVE b # s.addr + j
      <4>1. i \in SyncAddrs /\ d + j \in SyncAddrs /\ i # d + j
        BY <1>2, <1>3, <1>8, <2>2 DEF SyncAddrs
      <4>2. b # (f + (d + j)) % SyncSize
        BY <4>1, SyncApart
      <4> QED
        BY <1>9, <4>2
    <3>2. m[b] = s.mem[b]
      BY <1>5, <2>1, <3>1
    <3>3. i \in 0 .. d - 1
      BY <1>8, <2>2
    <3> QED
      BY <1>4, <3>2, <3>3
  <2>3. CASE i >= d
    <3>1. /\ i - d \in 0 .. n - 1 /\ d + (i - d) = i
          /\ 1 + (i - d) \in 1 .. w /\ d + (1 + (i - d)) = i + 1
      BY <1>2, <1>3, <1>8, <2>3
    <3>2. b = s.addr + (i - d)
      BY <1>9, <3>1
    <3>3. m[b] = s.todo[1 + (i - d)]
      BY <1>5, <3>1, <3>2
    <3> QED
      BY <1>4, <3>1, <3>3
  <2> QED
    BY <1>8, <2>2, <2>3
<1>12. ASSUME NEW a \in SyncAddrs \ Cells(f, l)
       PROVE  m[a] = s2.was[a]
  <2>1. ASSUME NEW j \in 0 .. n - 1 PROVE a # s.addr + j
    <3>1. d + j \in 0 .. l - 1
      BY <1>2, <1>3, <1>8
    <3>2. a # (f + (d + j)) % SyncSize
      BY <1>7, <3>1
    <3> QED
      BY <1>9, <3>2
  <2>2. m[a] = s.mem[a]
    BY <1>5, <2>1
  <2> QED
    BY <1>4, <2>2
<1>13. Len(s2.data) = l /\ d + n = Len(s2.data) - Len(s2.todo) /\ Len(s2.todo) <= Len(s2.data)
  <2> DEFINE x == Len(s2.todo)
  <2>1. x = w - n
    BY <1>6
  <2> HIDE DEF x
  <2>2. d + n = l - x /\ x <= l
    BY <1>2, <1>3, <2>1 DEF d
  <2> QED
    BY <1>a, <2>2 DEF x
<1>14. SyncFrom(s2, f)
  <2> DEFINE e == d + n
  <2>1. /\ e = Len(s2.data) - Len(s2.todo)
        /\ s2.addr = (f + e) % SyncSize
        /\ \A i \in 1 .. Len(s2.todo) : s2.todo[i] = s2.data[e + i]
        /\ \A i \in 0 .. e - 1 : s2.mem[(f + i) % SyncSize] = s2.data[i + 1]
        /\ \A a \in SyncAddrs \ Cells(f, Len(s2.data)) : s2.mem[a] = s2.was[a]
    BY <1>6, <1>9, <1>10, <1>11, <1>12, <1>13, <1>a
  <2> HIDE DEF e
  <2> QED
    BY <2>1, SyncFromIs, ZenonT(60)
<1> QED
  BY <1>2, <1>13, <1>14 DEF SyncPart

(* A chunk of which a byte was damaged has still to be written. *)
LEMMA SyncDamaged ==
  ASSUME NEW s \in SyncRecord, Len(s.todo) >= 1, SyncPart(s), NEW s2 \in SyncRecord,
         \A b \in SyncAddrs : b # s.addr => s2.mem[b] = s.mem[b], s2.was = s.was, s2.data = s.data,
         s2.addr = s.addr, s2.todo = s.todo
  PROVE  SyncPart(s2)
<1> DEFINE l == Len(s.data)
           w == Len(s.todo)
           d == l - w
<1>1. PICK f \in SyncAddrs : SyncFrom(s, f)
  BY DEF SyncPart
<1>2. /\ l \in Nat /\ w \in Nat /\ w >= 1 /\ w <= l /\ l <= SyncSize /\ SyncSize \in Nat \ {0}
      /\ s.mem \in SyncMems /\ f \in Nat
  BY SyncAssumption DEF SyncPart, SyncRecord, SyncAddrs
<1>3. /\ s.addr = (f + d) % SyncSize
      /\ \A i \in 1 .. w : s.todo[i] = s.data[d + i]
      /\ \A i \in 0 .. d - 1 : s.mem[(f + i) % SyncSize] = s.data[i + 1]
      /\ \A a \in SyncAddrs \ Cells(f, l) : s.mem[a] = s.was[a]
  BY <1>1, SyncFromIs
<1>4. Cells(f, l) = {(f + i) % SyncSize : i \in 0 .. l - 1}
  BY DEF Cells
<1>5. Len(s2.data) = l /\ Len(s2.todo) = w
  OBVIOUS
<1> HIDE DEF l, w
<1>6. d \in Nat /\ d < SyncSize /\ d \in 0 .. l - 1
  BY <1>2
<1>7. \A b \in SyncAddrs : b # s.addr => s2.mem[b] = s.mem[b]
  OBVIOUS
<1> HIDE DEF d
<1>8. ASSUME NEW i \in 0 .. d - 1 PROVE s2.mem[(f + i) % SyncSize] = s.data[i + 1]
  <2>1. i \in SyncAddrs /\ d \in SyncAddrs /\ i # d /\ f + i \in Nat
    BY <1>2, <1>6 DEF SyncAddrs
  <2>2. (f + i) % SyncSize # s.addr
    BY <1>3, <2>1, SyncApart
  <2>3. (f + i) % SyncSize \in SyncAddrs
    BY <1>2, <2>1, SyncModRange DEF SyncAddrs
  <2> QED
    BY <1>3, <1>7, <2>2, <2>3
<1>9. ASSUME NEW a \in SyncAddrs \ Cells(f, l) PROVE s2.mem[a] = s.was[a]
  <2>1. a # s.addr
    BY <1>3, <1>4, <1>6
  <2> QED
    BY <1>3, <1>7, <2>1
<1>10. SyncFrom(s2, f)
  <2>1. d = Len(s2.data) - Len(s2.todo)
    BY <1>5 DEF d
  <2>2. /\ s2.addr = (f + d) % SyncSize
        /\ \A i \in 1 .. Len(s2.todo) : s2.todo[i] = s2.data[d + i]
    BY <1>3, <1>5
  <2>3. \A i \in 0 .. d - 1 : s2.mem[(f + i) % SyncSize] = s2.data[i + 1]
    BY <1>8
  <2>4. \A a \in SyncAddrs \ Cells(f, Len(s2.data)) : s2.mem[a] = s2.was[a]
    BY <1>5, <1>9
  <2> QED
    BY <2>1, <2>2, <2>3, <2>4, SyncFromIs, ZenonT(60)
<1> QED
  BY <1>2, <1>5, <1>10 DEF SyncPart

(* What a turn of the loop has to keep. *)
LEMMA SyncTurn ==
  ASSUME NEW s, SyncGood(s), s.pc = "write", NEW t \in SyncRecord,
         t.kind = s.kind, t.as = s.as, t.data = s.data, t.then = s.then, t.op = s.op,
         \/ t.pc = "write" /\ Len(t.todo) >= 1
         \/ t.pc = s.then,
         t.op = "detect" /\ ~t.fault => SyncProbing(t),
         t.op = "write" /\ ~t.blind /\ t.pc = "write" => SyncPart(t),
         t.op = "write" /\ ~t.blind /\ t.pc = "idle" /\ t.ret = "ok" => SyncPart(t) /\ t.todo = <<>>
  PROVE  SyncGood(t)
<1>1. t.op # "none"
  BY DEF SyncGood
<1>2. t.op = "write" => t.pc \in {"write", "idle"} /\ t.as = t.kind /\ t.then = "idle"
  BY DEF SyncGood
<1>3. t.pc = "write" => Len(t.todo) >= 1
  <2>1. s.then # "write"
    BY DEF SyncGood, SyncRecord
  <2> QED
    BY <2>1
<1>4. t.pc = "write" /\ t.op = "detect" => t.then \in {"inverted", "restored"}
  BY DEF SyncGood
<1>5. t.pc \in {"write", "inverted"} /\ t.op = "detect" => Len(t.data) = 1
  BY DEF SyncGood
<1> QED
  BY <1>1, <1>2, <1>3, <1>4, <1>5 DEF SyncGood

LEMMA SyncTodo ==
  ASSUME NEW s \in SyncRecord
  PROVE  /\ Len(s.todo) \in Nat /\ (s.todo # <<>> <=> Len(s.todo) >= 1)
         /\ Len(s.data) \in Nat
<1>1. s.todo \in Seq(0 .. 3) /\ s.data \in Seq(0 .. 3)
  BY DEF SyncRecord
<1> QED
  BY <1>1

(* The driver's write or read fails. *)
LEMMA SyncLoopFails ==
  ASSUME SyncGood(syn), syn.pc = "write", NEW t,
         t = SyncEnd([syn EXCEPT !.fault = @ \/ syn.as = syn.kind], "error")
  PROVE  SyncGood(t)
<1> DEFINE b == syn.fault \/ syn.as = syn.kind
           u == [syn EXCEPT !.fault = b]
<1>1. b \in BOOLEAN /\ syn \in SyncRecord /\ (b <=> syn.fault \/ syn.as = syn.kind)
  BY DEF SyncGood, SyncRecord
<1>2. t = SyncEnd(u, "error")
  OBVIOUS
<1> HIDE DEF b
<1>3. u \in SyncRecord /\ u.fault = b
      /\ u.mem = syn.mem /\ u.was = syn.was /\ u.kind = syn.kind /\ u.as = syn.as /\ u.data = syn.data
      /\ u.then = syn.then /\ u.op = syn.op
  BY <1>1 DEF SyncRecord
<1> HIDE DEF u
<1>4. /\ t \in SyncRecord
      /\ t.mem = u.mem /\ t.was = u.was /\ t.kind = u.kind /\ t.as = u.as /\ t.data = u.data
      /\ t.then = u.then /\ t.op = u.op /\ t.fault = u.fault
      /\ t.pc = u.then /\ t.ret = "error"
  BY ONLY <1>2, <1>3, SyncEnded
<1>5. t.op = "detect" /\ ~t.fault => SyncProbing(t)
  <2>1. SUFFICES ASSUME t.op = "detect", ~t.fault PROVE SyncProbing(t)
    OBVIOUS
  <2>2. syn.op = "detect" /\ ~syn.fault /\ syn.as # syn.kind
    BY <1>1, <1>3, <1>4, <2>1
  <2>3. syn.mem = syn.was
    BY <2>2 DEF SyncGood, SyncProbing
  <2>4. t.mem = t.was /\ t.as # t.kind
    BY <1>3, <1>4, <2>2, <2>3
  <2> QED
    BY <2>4 DEF SyncProbing
<1>6. t.pc # "write" /\ t.ret # "ok"
  BY <1>1, <1>3, <1>4 DEF SyncRecord
<1> QED
  BY <1>3, <1>4, <1>5, <1>6, SyncTurn

(* The byte of a probe, and nothing else, is written. *)
LEMMA SyncByteStored ==
  ASSUME NEW s \in SyncRecord, s.addr = 0, Len(s.todo) = 1
  PROVE  /\ Count(s) = 1
         /\ Stored(s) = [s.mem EXCEPT ![0] = s.todo[1]]
<1> DEFINE n == Count(s)
           w == Len(s.todo)
           m == Stored(s)
<1>0. w = 1 /\ w >= 1
  OBVIOUS
<1>a. n \in Nat /\ n >= 1 /\ n <= w
  BY <1>0, SyncCount
<1>b. /\ m \in SyncMems
      /\ \A i \in 0 .. n - 1 : m[0 + i] = s.todo[1 + i]
      /\ \A a \in SyncAddrs : (\A i \in 0 .. n - 1 : a # 0 + i) => m[a] = s.mem[a]
  BY <1>0, SyncStored
<1> HIDE DEF n, w, m
<1>1. n = 1
  BY <1>0, <1>a
<1>3. m[0] = s.todo[1]
  <2>1. 0 \in 0 .. n - 1 /\ 0 + 0 = 0 /\ 1 + 0 = 1
    BY <1>1
  <2> QED
    BY <1>b, <2>1
<1>4. \A a \in SyncAddrs : a # 0 => m[a] = s.mem[a]
  <2>1. \A i \in 0 .. n - 1 : 0 + i = 0
    BY <1>1
  <2> QED
    BY <1>b, <2>1
<1>5. s.mem \in SyncMems
  BY DEF SyncRecord
<1>6. m = [s.mem EXCEPT ![0] = s.todo[1]]
  BY <1>b, <1>3, <1>4, <1>5 DEF SyncMems
<1> QED
  BY <1>1, <1>6 DEF n, m

(* A byte that is inverted twice is the byte. *)
LEMMA SyncTwice ==
  /\ \A b \in 0 .. 3 : Complement[b] \in 0 .. 3
  /\ \A b \in 0 .. 3 : Complement[Complement[b]] = b
<1>1. Complement[0] = 1 /\ Complement[1] = 0 /\ Complement[2] = 3 /\ Complement[3] = 2
  BY DEF Complement
<1>2. \A b \in 0 .. 3 : b = 0 \/ b = 1 \/ b = 2 \/ b = 3
  OBVIOUS
<1> QED
  BY <1>1, <1>2

LEMMA SyncZero == 0 \in SyncAddrs
BY SyncAssumption DEF SyncAddrs

(* The write took and is read back. *)
LEMMA SyncLoopDone ==
  ASSUME SyncGood(syn), syn.pc = "write", syn.as = syn.kind, NEW t,
         t = SyncVerified([syn EXCEPT !.mem = Stored(syn)], TRUE)
  PROVE  SyncGood(t)
<1> DEFINE m == Stored(syn)
           u == [syn EXCEPT !.mem = m]
           n == Count(syn)
<1>1. syn \in SyncRecord /\ Len(syn.todo) >= 1
  BY DEF SyncGood
<1>2. m \in SyncMems
  BY <1>1, SyncStored
<1>3. t = SyncVerified(u, TRUE)
  OBVIOUS
<1>a. m = Stored(syn) /\ n = Count(syn)
  OBVIOUS
<1> HIDE DEF m
<1>4. /\ u \in SyncRecord /\ u.mem = m
      /\ u.was = syn.was /\ u.kind = syn.kind /\ u.as = syn.as /\ u.data = syn.data
      /\ u.then = syn.then /\ u.op = syn.op /\ u.fault = syn.fault /\ u.blind = syn.blind
      /\ u.addr = syn.addr /\ u.todo = syn.todo /\ u.pc = "write"
  BY <1>1, <1>2 DEF SyncRecord
<1>5. Count(u) = n
  BY <1>4 DEF Count
<1> HIDE DEF u, n
<1>6. /\ t \in SyncRecord
      /\ t.mem = u.mem /\ t.was = u.was /\ t.kind = u.kind /\ t.as = u.as /\ t.data = u.data
      /\ t.then = u.then /\ t.op = u.op /\ t.fault = u.fault /\ t.blind = u.blind
      /\ t.addr = (u.addr + Count(u)) % SyncSize
      /\ t.todo = SubSeq(u.todo, Count(u) + 1, Len(u.todo))
      /\ \/ t.pc = "write" /\ t.todo # <<>>
         \/ t.pc = u.then /\ t.todo = <<>> /\ t.ret = "ok"
  <2>1. Len(u.todo) >= 1
    BY <1>1, <1>4
  <2> QED
    BY ONLY <1>3, <1>4, <2>1, SyncSame, ZenonT(60)
<1>7. /\ t.mem = m /\ t.was = syn.was /\ t.kind = syn.kind /\ t.as = syn.as /\ t.data = syn.data
      /\ t.then = syn.then /\ t.op = syn.op /\ t.fault = syn.fault /\ t.blind = syn.blind
      /\ t.addr = (syn.addr + n) % SyncSize
      /\ t.todo = SubSeq(syn.todo, n + 1, Len(syn.todo))
      /\ \/ t.pc = "write" /\ t.todo # <<>>
         \/ t.pc = syn.then /\ t.todo = <<>> /\ t.ret = "ok"
  BY <1>4, <1>5, <1>6
<1>8. ASSUME t.op = "detect", ~t.fault PROVE SyncProbing(t)
  <2>1. SyncProbing(syn) /\ syn.then \in {"inverted", "restored"}
    BY <1>7, <1>8 DEF SyncGood
  <2>2. syn.addr = 0 /\ Len(syn.data) = 1 /\ syn.todo = syn.data
    BY <2>1 DEF SyncProbing
  <2>a. Len(syn.todo) = 1
    BY ONLY <2>2, Zenon
  <2>b. n = 1 /\ m = [syn.mem EXCEPT ![0] = syn.todo[1]]
    BY <1>1, <1>a, <2>2, <2>a, SyncByteStored
  <2>3. n = 1 /\ m = [syn.mem EXCEPT ![0] = syn.data[1]]
    BY <2>2, <2>b
  <2>4. t.todo = <<>>
    <3> DEFINE q == syn.todo
               r == t.todo
               w == Len(q)
    <3>1. q \in Seq(0 .. 3) /\ r = SubSeq(q, n + 1, Len(q)) /\ w = 1
      BY <1>1, <1>7, <2>a DEF SyncRecord
    <3> HIDE DEF q, r
    <3>2. n \in Nat /\ n <= Len(q) /\ w - n = 0
      BY <2>3, <3>1
    <3>3. Len(r) = w - n
      BY <3>1, <3>2, SyncRest
    <3>4. Len(r) = 0 /\ ~(0 >= 1)
      BY <3>2, <3>3
    <3>5. ~(Len(t.todo) >= 1)
      BY <3>4 DEF r
    <3> QED
      BY <1>6, <3>5, SyncTodo
  <2>5. t.pc = syn.then /\ t.ret = "ok"
    BY <1>7, <2>4
  <2>6. syn.mem \in SyncMems /\ syn.was \in SyncMems
    BY <1>1 DEF SyncRecord
  <2>7. CASE syn.then = "inverted"
    <3>1. syn.mem = syn.was /\ syn.data[1] = Complement[syn.was[0]]
      BY <2>1, <2>7 DEF SyncProbing
    <3>2. t.mem = SyncFlipped(t)
      BY <1>7, <2>3, <3>1 DEF SyncFlipped
    <3>3. t.data[1] = Complement[t.was[0]]
      BY <1>7, <3>1
    <3> QED
      BY <1>7, <2>5, <2>7, <3>2, <3>3 DEF SyncProbing
  <2>8. CASE syn.then = "restored"
    <3>1. syn.mem = SyncFlipped(syn) /\ syn.data[1] = syn.was[0]
      BY <2>1, <2>8 DEF SyncProbing
    <3>2. m = syn.was
      BY <2>3, <2>6, <3>1, SyncZero DEF SyncFlipped, SyncMems
    <3> QED
      BY <1>7, <2>5, <2>8, <3>2 DEF SyncProbing
  <2> QED
    BY <2>1, <2>7, <2>8
<1>9. ASSUME t.op = "write", ~t.blind PROVE SyncPart(t)
  <2>1. SyncPart(syn)
    BY <1>7, <1>9 DEF SyncGood
  <2> QED
    BY <1>1, <1>6, <1>7, <1>a, <2>1, SyncAdvance
<1>10. t.todo # <<>> => Len(t.todo) >= 1
  BY <1>6, SyncTodo
<1>11. t.pc = "idle" => t.todo = <<>>
  BY <1>7
<1> QED
  BY <1>6, <1>7, <1>8, <1>9, <1>10, <1>11, SyncTurn

(* The write left a wrong byte: it is tried again, or given up. *)
LEMMA SyncLoopWrong ==
  ASSUME SyncGood(syn), syn.pc = "write", syn.as = syn.kind, NEW t,
         t = SyncVerified([syn EXCEPT !.fault = TRUE, !.mem[syn.addr] = Complement[syn.todo[1]]], FALSE)
  PROVE  SyncGood(t)
<1> DEFINE c == Complement[syn.todo[1]]
           m == [syn.mem EXCEPT ![syn.addr] = c]
           u == [syn EXCEPT !.fault = TRUE, !.mem = m]
<1>1. syn \in SyncRecord /\ Len(syn.todo) >= 1
  BY DEF SyncGood
<1>2. syn.todo \in Seq(0 .. 3) /\ syn.mem \in SyncMems
  BY <1>1 DEF SyncRecord
<1>3. m \in SyncMems
  <2>1. syn.todo[1] \in 0 .. 3
    BY <1>1, <1>2
  <2>2. c \in 0 .. 3
    BY <2>1, SyncTwice
  <2> HIDE DEF c
  <2> QED
    BY <1>2, <2>2 DEF SyncMems
<1>4. [syn EXCEPT !.fault = TRUE, !.mem[syn.addr] = c] = u
  BY <1>1 DEF SyncRecord
<1>5. t = SyncVerified(u, FALSE)
  BY <1>4
<1>a. \A b \in SyncAddrs : b # syn.addr => m[b] = syn.mem[b]
  BY <1>2 DEF SyncMems
<1> HIDE DEF m, c
<1>6. /\ u \in SyncRecord /\ u.mem = m
      /\ u.was = syn.was /\ u.kind = syn.kind /\ u.as = syn.as /\ u.data = syn.data
      /\ u.then = syn.then /\ u.op = syn.op /\ u.fault = TRUE /\ u.blind = syn.blind
      /\ u.addr = syn.addr /\ u.todo = syn.todo /\ u.pc = "write"
  BY <1>1, <1>3 DEF SyncRecord
<1> HIDE DEF u
<1>7. /\ t \in SyncRecord
      /\ t.mem = u.mem /\ t.was = u.was /\ t.kind = u.kind /\ t.as = u.as /\ t.data = u.data
      /\ t.then = u.then /\ t.op = u.op /\ t.fault = u.fault /\ t.blind = u.blind
      /\ t.addr = u.addr /\ t.todo = u.todo
      /\ \/ t.pc = "write"
         \/ t.pc = u.then /\ t.ret = "error"
  BY ONLY <1>5, <1>6, SyncOther, ZenonT(60)
<1>8. /\ t.mem = m /\ t.was = syn.was /\ t.kind = syn.kind /\ t.as = syn.as /\ t.data = syn.data
      /\ t.then = syn.then /\ t.op = syn.op /\ t.fault = TRUE /\ t.blind = syn.blind
      /\ t.addr = syn.addr /\ t.todo = syn.todo
      /\ \/ t.pc = "write"
         \/ t.pc = syn.then /\ t.ret = "error"
  BY <1>6, <1>7
<1>b. \A b \in SyncAddrs : b # syn.addr => t.mem[b] = syn.mem[b]
  BY <1>a, <1>8
<1>9. ASSUME t.op = "write", ~t.blind PROVE SyncPart(t)
  <2>1. SyncPart(syn)
    BY <1>8, <1>9 DEF SyncGood
  <2> QED
    BY <1>1, <1>7, <1>8, <1>b, <2>1, SyncDamaged
<1>10. Len(t.todo) >= 1
  BY <1>1, <1>8
<1>11. ~(t.pc = "idle" /\ t.ret = "ok")
  BY <1>8
<1> QED
  BY <1>7, <1>8, <1>9, <1>10, <1>11, SyncTurn

(* The read failed and nobody noticed. *)
LEMMA SyncLoopBlind ==
  ASSUME SyncGood(syn), syn.pc = "write", NEW same \in BOOLEAN, NEW works \in BOOLEAN, NEW t,
         t = SyncVerified([syn EXCEPT !.fault = @ \/ syn.as = syn.kind, !.blind = TRUE,
                         !.mem = IF works /\ syn.as = syn.kind THEN Stored(syn) ELSE @], same)
  PROVE  SyncGood(t)
<1> DEFINE b == syn.fault \/ syn.as = syn.kind
           m == IF works /\ syn.as = syn.kind THEN Stored(syn) ELSE syn.mem
           u == [syn EXCEPT !.fault = b, !.blind = TRUE, !.mem = m]
<1>1. syn \in SyncRecord /\ Len(syn.todo) >= 1
  BY DEF SyncGood
<1>2. b \in BOOLEAN /\ (b <=> syn.fault \/ syn.as = syn.kind)
  BY <1>1 DEF SyncRecord
<1>3. m \in SyncMems /\ (syn.as # syn.kind => m = syn.mem)
  <2>1. Stored(syn) \in SyncMems /\ syn.mem \in SyncMems
    BY <1>1, SyncStored DEF SyncRecord
  <2> QED
    BY <2>1
<1>4. t = SyncVerified(u, same)
  OBVIOUS
<1> HIDE DEF m, b
<1>5. /\ u \in SyncRecord /\ u.mem = m
      /\ u.was = syn.was /\ u.kind = syn.kind /\ u.as = syn.as /\ u.data = syn.data
      /\ u.then = syn.then /\ u.op = syn.op /\ u.fault = b /\ u.blind = TRUE
      /\ u.addr = syn.addr /\ u.todo = syn.todo /\ u.pc = "write"
  BY <1>1, <1>2, <1>3 DEF SyncRecord
<1> HIDE DEF u
<1>6. /\ t \in SyncRecord
      /\ t.mem = u.mem /\ t.was = u.was /\ t.kind = u.kind /\ t.as = u.as /\ t.data = u.data
      /\ t.then = u.then /\ t.op = u.op /\ t.fault = u.fault /\ t.blind = u.blind
      /\ \/ t.pc = "write" /\ Len(t.todo) >= 1
         \/ t.pc = u.then
  <2>0. Len(u.todo) >= 1
    BY <1>1, <1>5
  <2>1. CASE same = TRUE
    <3>0. t = SyncVerified(u, TRUE)
      BY <1>4, <2>1
    <3>1. /\ t \in SyncRecord
          /\ t.mem = u.mem /\ t.was = u.was /\ t.kind = u.kind /\ t.as = u.as /\ t.data = u.data
          /\ t.then = u.then /\ t.op = u.op /\ t.fault = u.fault /\ t.blind = u.blind
          /\ \/ t.pc = "write" /\ t.todo # <<>>
             \/ t.pc = u.then /\ t.todo = <<>> /\ t.ret = "ok"
      BY ONLY <1>5, <2>0, <3>0, SyncSame, ZenonT(60)
    <3> QED
      BY <3>1, SyncTodo
  <2>2. CASE same = FALSE
    <3>0. t = SyncVerified(u, FALSE)
      BY <1>4, <2>2
    <3>1. /\ t \in SyncRecord
          /\ t.mem = u.mem /\ t.was = u.was /\ t.kind = u.kind /\ t.as = u.as /\ t.data = u.data
          /\ t.then = u.then /\ t.op = u.op /\ t.fault = u.fault /\ t.blind = u.blind
          /\ t.todo = u.todo
          /\ \/ t.pc = "write"
             \/ t.pc = u.then /\ t.ret = "error"
      BY ONLY <1>5, <3>0, SyncOther
    <3> QED
      BY <2>0, <3>1
  <2> QED
    BY <2>1, <2>2
<1>7. /\ t.mem = m /\ t.was = syn.was /\ t.kind = syn.kind /\ t.as = syn.as /\ t.data = syn.data
      /\ t.then = syn.then /\ t.op = syn.op /\ t.fault = b /\ t.blind = TRUE
      /\ \/ t.pc = "write" /\ Len(t.todo) >= 1
         \/ t.pc = syn.then
  BY <1>5, <1>6
<1>8. t.op = "detect" /\ ~t.fault => SyncProbing(t)
  <2>1. SUFFICES ASSUME t.op = "detect", ~t.fault PROVE SyncProbing(t)
    OBVIOUS
  <2>2. syn.op = "detect" /\ ~syn.fault /\ syn.as # syn.kind
    BY <1>2, <1>7, <2>1
  <2>3. syn.mem = syn.was
    BY <2>2 DEF SyncGood, SyncProbing
  <2>4. t.mem = t.was /\ t.as # t.kind
    BY <1>3, <1>7, <2>2, <2>3
  <2> QED
    BY <2>4 DEF SyncProbing
<1> QED
  BY <1>6, <1>7, <1>8, SyncTurn

LEMMA SyncLoopGood ==
  ASSUME SyncGood(syn), SyncLoop
  PROVE  SyncGood(syn')
<1>0. syn.pc = "write"
  BY DEF SyncLoop
<1>1. CASE syn' = SyncEnd([syn EXCEPT !.fault = @ \/ syn.as = syn.kind], "error")
  BY <1>0, <1>1, SyncLoopFails
<1>2. CASE syn.as = syn.kind /\ syn' = SyncVerified([syn EXCEPT !.mem = Stored(syn)], TRUE)
  BY <1>0, <1>2, SyncLoopDone
<1>3. CASE /\ syn.as = syn.kind
           /\ syn' = SyncVerified([syn EXCEPT !.fault = TRUE,
                                              !.mem[syn.addr] = Complement[syn.todo[1]]], FALSE)
  BY <1>0, <1>3, SyncLoopWrong
<1>4. ASSUME NEW same \in BOOLEAN, NEW works \in BOOLEAN,
             syn' = SyncVerified([syn EXCEPT !.fault = @ \/ syn.as = syn.kind, !.blind = TRUE,
                         !.mem = IF works /\ syn.as = syn.kind THEN Stored(syn) ELSE @], same)
      PROVE  SyncGood(syn')
  BY <1>0, <1>4, SyncLoopBlind
<1> QED
  BY <1>1, <1>2, <1>3, <1>4 DEF SyncLoop

LEMMA SyncInitGood ==
  ASSUME SyncInit
  PROVE  SyncGood(syn)
<1>1. PICK kind \in {"i2c_long", "2wire"}, m \in [0 .. SyncSize - 1 -> {0, 2}] :
        syn = [mem |-> m, was |-> m, kind |-> kind, pc |-> "idle", as |-> kind, addr |-> 0, data |-> <<>>, todo |-> <<>>,
               retries |-> 0, k |-> 1, then |-> "idle", op |-> "none", ret |-> "none", proto |-> "none",
               fault |-> FALSE, blind |-> FALSE]
  BY DEF SyncInit
<1>2. m \in SyncMems
  BY DEF SyncMems, SyncAddrs
<1>3. <<>> \in Seq(0 .. 3)
  OBVIOUS
<1>4. syn \in SyncRecord
  BY <1>1, <1>2, <1>3, SyncZero DEF SyncRecord, SyncNames
<1>5. syn.op = "none" /\ syn.pc = "idle"
  BY <1>1
<1> QED
  BY <1>4, <1>5 DEF SyncGood

(* A write begins: nothing is done yet. *)
LEMMA SyncBegun ==
  ASSUME NEW s \in SyncRecord, NEW as \in SyncNames, NEW a \in SyncAddrs, NEW data \in Seq(0 .. 3),
         NEW then \in {"idle", "inverted", "restored"}, NEW t, t = SyncWrite(s, as, a, data, then)
  PROVE  /\ t \in SyncRecord
         /\ t.mem = s.mem /\ t.was = s.was /\ t.kind = s.kind /\ t.as = as /\ t.data = data
         /\ t.then = then /\ t.op = s.op /\ t.fault = s.fault /\ t.blind = s.blind
         /\ t.addr = a /\ t.todo = data /\ t.pc = "write"
<1> DEFINE r == IF as \in I2C /\ Len(data) > 1 THEN 2 ELSE 1
<1>1. t = [s EXCEPT !.pc = "write", !.as = as, !.addr = a, !.data = data, !.todo = data, !.then = then,
                    !.retries = r]
  BY DEF SyncWrite
<1>2. r \in Nat
  OBVIOUS
<1> HIDE DEF r
<1> QED
  BY <1>1, <1>2, ZenonT(60) DEF SyncRecord

LEMMA SyncWriteGood ==
  ASSUME SyncGood(syn), NEW a \in SyncAddrs, NEW n \in 1 .. SyncLen,
         sync_write(a, [i \in 1 .. n |-> 1 + (i % 3)])
  PROVE  SyncGood(syn')
<1> DEFINE data == [i \in 1 .. n |-> 1 + (i % 3)]
           s == [syn EXCEPT !.op = "write", !.was = syn.mem, !.fault = FALSE, !.blind = FALSE]
           t == syn'
<1>1. syn \in SyncRecord
  BY DEF SyncGood
<1>2. n \in Nat /\ n >= 1 /\ n <= SyncSize /\ SyncSize \in Nat \ {0}
  BY SyncAssumption
<1>3. data \in Seq(0 .. 3) /\ Len(data) = n
  <2>1. \A i \in 1 .. n : 1 + (i % 3) \in 0 .. 3
    <3>1. SUFFICES ASSUME NEW i \in 1 .. n PROVE 1 + (i % 3) \in 0 .. 3
      OBVIOUS
    <3>2. i % 3 \in 0 .. 3 - 1
      BY SyncModRange
    <3> QED
      BY <3>2
  <2> QED
    BY <1>2, <2>1
<1>4. t = SyncWrite(s, syn.kind, a, data, "idle")
  BY DEF sync_write
<1> HIDE DEF data
<1>5. /\ s \in SyncRecord /\ s.mem = syn.mem /\ s.was = syn.mem /\ s.kind = syn.kind
      /\ s.op = "write" /\ s.fault = FALSE /\ s.blind = FALSE
  BY <1>1 DEF SyncRecord
<1> HIDE DEF s
<1>6. syn.kind \in SyncNames
  BY <1>1 DEF SyncRecord, SyncNames
<1> DEFINE kd == syn.kind
<1>a. kd = s.kind /\ kd \in SyncNames /\ t = SyncWrite(s, kd, a, data, "idle")
  BY <1>4, <1>5, <1>6
<1> HIDE DEF kd
<1>7. /\ t \in SyncRecord
      /\ t.mem = s.mem /\ t.was = s.was /\ t.kind = s.kind /\ t.as = kd /\ t.data = data
      /\ t.then = "idle" /\ t.op = s.op /\ t.fault = s.fault /\ t.blind = s.blind
      /\ t.addr = a /\ t.todo = data /\ t.pc = "write"
  BY ONLY <1>3, <1>5, <1>a, a \in SyncAddrs, SyncBegun
<1>8. t.mem = t.was /\ t.op = "write" /\ t.as = t.kind
  BY <1>5, <1>7, <1>a
<1> HIDE DEF t
<1>9. SyncFrom(t, a)
  <2>1. 0 = Len(t.data) - Len(t.todo)
    BY <1>2, <1>3, <1>7
  <2>2. t.addr = (a + 0) % SyncSize
    <3>1. a \in 0 .. SyncSize - 1 /\ a + 0 = a
      BY DEF SyncAddrs
    <3> QED
      BY <1>2, <1>7, <3>1, SyncModSmall
  <2>3. \A i \in 1 .. Len(t.todo) : t.todo[i] = t.data[0 + i]
    BY <1>2, <1>3, <1>7
  <2>4. \A i \in 0 .. 0 - 1 : t.mem[(a + i) % SyncSize] = t.data[i + 1]
    OBVIOUS
  <2>5. \A b \in SyncAddrs \ Cells(a, Len(t.data)) : t.mem[b] = t.was[b]
    BY <1>8
  <2> QED
    BY <2>1, <2>2, <2>3, <2>4, <2>5, SyncFromIs, ZenonT(60)
<1>10. SyncPart(t)
  <2>1. Len(t.data) = n /\ Len(t.todo) = n
    BY <1>3, <1>7
  <2> QED
    BY <1>2, <1>9, <2>1 DEF SyncPart
<1>11. Len(t.todo) >= 1
  BY <1>2, <1>3, <1>7
<1>12. SyncGood(t)
  BY <1>7, <1>8, <1>10, <1>11 DEF SyncGood
<1> QED
  BY <1>12 DEF t

LEMMA SyncDetectGood ==
  ASSUME SyncGood(syn), ifd_sync_detect_icc
  PROVE  SyncGood(syn')
<1>1. syn \in SyncRecord
  BY DEF SyncGood
<1>2. syn' = [syn EXCEPT !.pc = "probe", !.op = "detect", !.k = 1, !.was = syn.mem, !.proto = "none",
                         !.fault = FALSE, !.blind = FALSE]
  BY DEF ifd_sync_detect_icc
<1>3. syn' \in SyncRecord
  <2> DEFINE m == syn.mem
             t == syn'
  <2>1. t = [syn EXCEPT !.pc = "probe", !.op = "detect", !.k = 1, !.was = m, !.proto = "none",
                         !.fault = FALSE, !.blind = FALSE]
    BY <1>2
  <2>2. m \in SyncMems
    BY <1>1 DEF SyncRecord
  <2>c. "none" \in SyncNames \cup {"none"} /\ 1 \in 1 .. 4
    OBVIOUS
  <2> HIDE DEF m, t
  <2>3. t \in SyncRecord
    BY <1>1, <2>1, <2>2, <2>c DEF SyncRecord
  <2> QED
    BY <2>3 DEF t
<1>4. syn'.pc = "probe" /\ syn'.op = "detect" /\ syn'.mem = syn'.was
  BY <1>1, <1>2 DEF SyncRecord
<1>5. SyncProbing(syn')
  BY <1>4 DEF SyncProbing
<1> QED
  BY <1>3, <1>4, <1>5 DEF SyncGood

LEMMA SyncKindNames == \A k \in 1 .. 4 : SyncKinds[k] \in SyncNames
<1>1. \A k \in 1 .. 4 : k = 1 \/ k = 2 \/ k = 3 \/ k = 4
  OBVIOUS
<1>2. /\ SyncKinds[1] = "i2c_short" /\ SyncKinds[2] = "i2c_long"
      /\ SyncKinds[3] = "2wire" /\ SyncKinds[4] = "3wire"
  BY DEF SyncKinds
<1> QED
  BY <1>1, <1>2 DEF SyncNames

(* On to the next kind, the memory being as it was unless a driver call failed. *)
LEMMA SyncNextKindGood ==
  ASSUME NEW s \in SyncRecord, s.op = "detect", ~s.fault => s.mem = s.was,
         NEW t, t = SyncNextKind(s)
  PROVE  SyncGood(t)
<1>1. Len(SyncKinds) = 4
  BY DEF SyncKinds
<1>2. \/ t = [s EXCEPT !.pc = "idle", !.ret = "error"]
      \/ s.k # 4 /\ t = [s EXCEPT !.pc = "probe", !.k = s.k + 1]
  BY <1>1 DEF SyncNextKind
<1>3. s.k # 4 => s.k + 1 \in 1 .. 4
  BY DEF SyncRecord
<1>4. /\ t \in SyncRecord /\ t.pc \in {"idle", "probe"} /\ t.op = "detect"
      /\ t.mem = s.mem /\ t.was = s.was /\ t.fault = s.fault
  BY <1>2, <1>3, ZenonT(60) DEF SyncRecord
<1>5. ~t.fault => SyncProbing(t)
  BY <1>4 DEF SyncProbing
<1> QED
  BY <1>4, <1>5 DEF SyncGood

LEMMA SyncProbeGood ==
  ASSUME SyncGood(syn), SyncProbe
  PROVE  SyncGood(syn')
<1> DEFINE kind == SyncKinds[syn.k]
<1>0. syn \in SyncRecord /\ syn.pc = "probe"
  BY DEF SyncGood, SyncProbe
<1>1. syn.op = "detect"
  BY <1>0 DEF SyncGood, SyncRecord
<1>2. ~syn.fault => syn.mem = syn.was
  BY <1>0, <1>1 DEF SyncGood, SyncProbing
<1>3. kind \in SyncNames
  BY <1>0, SyncKindNames DEF SyncRecord
<1>4. PICK b \in IF kind = syn.kind THEN {syn.mem[0]} ELSE 0 .. 3 :
         \/ syn' = SyncNextKind(syn)
         \/ syn' = SyncWrite(syn, kind, 0, <<Complement[b]>>, "inverted")
         \/ syn' = [syn EXCEPT !.pc = "atr", !.as = kind]
  <2>1. \E b : b \in IF kind = syn.kind THEN {syn.mem[0]} ELSE 0 .. 3
    OBVIOUS
  <2> QED
    BY <2>1 DEF SyncProbe
<1>5. b \in 0 .. 3 /\ (kind = syn.kind => b = syn.mem[0])
  <2>1. syn.mem[0] \in 0 .. 3
    BY <1>0, SyncZero DEF SyncRecord, SyncMems
  <2> QED
    BY <2>1
<1> HIDE DEF kind
<1>6. CASE syn' = SyncNextKind(syn)
  BY <1>0, <1>1, <1>2, <1>6, SyncNextKindGood
<1>7. CASE syn' = SyncWrite(syn, kind, 0, <<Complement[b]>>, "inverted")
  <2> DEFINE data == <<Complement[b]>>
             t == syn'
  <2>1. data \in Seq(0 .. 3) /\ Len(data) = 1 /\ data[1] = Complement[b]
    <3>1. Complement[b] \in 0 .. 3
      BY <1>5, SyncTwice
    <3> QED
      BY <3>1
  <2>2. t = SyncWrite(syn, kind, 0, data, "inverted")
    BY <1>7
  <2> HIDE DEF data, t
  <2>3. /\ t \in SyncRecord
        /\ t.mem = syn.mem /\ t.was = syn.was /\ t.kind = syn.kind /\ t.as = kind /\ t.data = data
        /\ t.then = "inverted" /\ t.op = syn.op /\ t.fault = syn.fault /\ t.blind = syn.blind
        /\ t.addr = 0 /\ t.todo = data /\ t.pc = "write"
    BY ONLY <1>0, <1>3, <2>1, <2>2, SyncZero, SyncBegun
  <2>4. ~t.fault => SyncProbing(t)
    <3>1. SUFFICES ASSUME ~t.fault PROVE SyncProbing(t)
      OBVIOUS
    <3>2. t.mem = t.was /\ Len(t.data) = 1 /\ t.data[1] = Complement[b] /\ t.todo = t.data
      BY <1>2, <2>1, <2>3, <3>1
    <3>3. t.as = t.kind => t.data[1] = Complement[t.was[0]]
      BY <1>5, <2>3, <3>2
    <3> QED
      BY <2>3, <3>2, <3>3 DEF SyncProbing
  <2>b. Len(t.todo) = 1 /\ Len(t.data) = 1
    BY ONLY <2>1, <2>3, Zenon
  <2>5. Len(t.todo) >= 1 /\ Len(t.data) = 1
    BY ONLY <2>b
  <2>6. SyncGood(t)
    BY <1>1, <2>3, <2>4, <2>5 DEF SyncGood
  <2> QED
    BY <2>6 DEF t
<1>8. CASE syn' = [syn EXCEPT !.pc = "atr", !.as = kind]
  <2>1. /\ syn' \in SyncRecord /\ syn'.pc = "atr" /\ syn'.op = "detect" /\ syn'.fault = syn.fault
        /\ syn'.mem = syn.mem /\ syn'.was = syn.was
    BY <1>0, <1>1, <1>3, <1>8 DEF SyncRecord
  <2>2. ~syn'.fault => SyncProbing(syn')
    BY <1>2, <2>1 DEF SyncProbing
  <2> QED
    BY <2>1, <2>2 DEF SyncGood
<1> QED
  BY <1>4, <1>6, <1>7, <1>8

LEMMA SyncInvertedGood ==
  ASSUME SyncGood(syn), SyncInverted
  PROVE  SyncGood(syn')
<1>0. syn \in SyncRecord /\ syn.pc = "inverted"
  BY DEF SyncGood, SyncInverted
<1>1. syn.op = "detect" /\ Len(syn.data) = 1
  BY <1>0 DEF SyncGood, SyncRecord
<1>2. ~syn.fault => SyncProbing(syn)
  BY <1>1 DEF SyncGood
<1>3. CASE syn.ret = "error"
  <2>1. ~syn.fault => syn.mem = syn.was
    BY <1>0, <1>2, <1>3 DEF SyncProbing
  <2>2. syn' = SyncNextKind(syn)
    BY <1>3 DEF SyncInverted
  <2> QED
    BY <1>0, <1>1, <2>1, <2>2, SyncNextKindGood
<1>4. CASE syn.ret # "error"
  <2> DEFINE c == syn.data[1]
             data == <<Complement[c]>>
             kd == syn.as
             t == syn'
  <2>0. c \in 0 .. 3
    BY <1>0, <1>1 DEF SyncRecord
  <2>1. data \in Seq(0 .. 3) /\ Len(data) = 1 /\ data[1] = Complement[c]
    <3>1. Complement[c] \in 0 .. 3
      BY <2>0, SyncTwice
    <3> HIDE DEF c
    <3> QED
      BY <3>1
  <2>2. t = SyncWrite(syn, kd, 0, data, "restored")
    BY <1>4 DEF SyncInverted
  <2>c. kd \in SyncNames
    BY <1>0 DEF SyncRecord
  <2>a. kd = syn.as /\ c = syn.data[1]
    OBVIOUS
  <2> HIDE DEF data, t, kd, c
  <2>3. /\ t \in SyncRecord
        /\ t.mem = syn.mem /\ t.was = syn.was /\ t.kind = syn.kind /\ t.as = kd /\ t.data = data
        /\ t.then = "restored" /\ t.op = syn.op /\ t.fault = syn.fault /\ t.blind = syn.blind
        /\ t.addr = 0 /\ t.todo = data /\ t.pc = "write"
    BY ONLY <1>0, <2>1, <2>2, <2>c, SyncZero, SyncBegun, SMTT(60)
  <2>4. ~t.fault => SyncProbing(t)
    <3>1. SUFFICES ASSUME ~t.fault PROVE SyncProbing(t)
      OBVIOUS
    <3>2. SyncProbing(syn)
      BY <1>2, <2>3, <3>1
    <3>3. CASE syn.as # syn.kind
      <4>1. t.mem = t.was /\ t.as # t.kind
        BY <2>3, <2>a, <3>2, <3>3 DEF SyncProbing
      <4> QED
        BY <4>1 DEF SyncProbing
    <3>4. CASE syn.as = syn.kind
      <4>1. syn.mem = SyncFlipped(syn) /\ c = Complement[syn.was[0]]
        BY <1>0, <2>a, <3>2, <3>4 DEF SyncProbing
      <4>2. syn.was[0] \in 0 .. 3
        BY <1>0, SyncZero DEF SyncRecord, SyncMems
      <4>3. t.data[1] = t.was[0]
        BY <2>1, <2>3, <4>1, <4>2, SyncTwice
      <4>4. t.mem = SyncFlipped(t)
        BY <2>3, <4>1 DEF SyncFlipped
      <4>5. Len(t.data) = 1 /\ t.todo = t.data /\ t.as = t.kind
        BY <2>1, <2>3, <2>a, <3>4
      <4> QED
        BY <2>3, <4>3, <4>4, <4>5 DEF SyncProbing
    <3> QED
      BY <3>3, <3>4
  <2>b. Len(t.todo) = 1 /\ Len(t.data) = 1
    BY ONLY <2>1, <2>3, Zenon
  <2>5. Len(t.todo) >= 1 /\ Len(t.data) = 1
    BY ONLY <2>b
  <2>6. SyncGood(t)
    BY <1>1, <2>3, <2>4, <2>5 DEF SyncGood
  <2> QED
    BY <2>6 DEF t
<1> QED
  BY <1>3, <1>4

LEMMA SyncEndGood ==
  ASSUME SyncGood(syn), SyncFound \/ SyncAtr
  PROVE  SyncGood(syn')
<1>0. syn \in SyncRecord /\ syn.pc \in {"restored", "atr"}
  BY DEF SyncGood, SyncFound, SyncAtr
<1>1. syn.op = "detect"
  BY <1>0 DEF SyncGood, SyncRecord
<1>2. ~syn.fault => syn.mem = syn.was
  <2>1. CASE syn.as = syn.kind
    BY <1>0, <1>1, <2>1 DEF SyncGood, SyncProbing
  <2>2. CASE syn.as # syn.kind
    BY <1>1, <2>2 DEF SyncGood, SyncProbing
  <2> QED
    BY <2>1, <2>2
<1>3. PICK p \in SyncNames \cup {"none"}, r \in {"ok", "error"} :
         syn' = [syn EXCEPT !.pc = "idle", !.proto = p, !.ret = r]
  <2>1. CASE SyncFound
    <3>1. syn' = [syn EXCEPT !.pc = "idle", !.proto = syn.as, !.ret = "ok"]
      BY <2>1 DEF SyncFound
    <3> QED
      BY <1>0, <3>1 DEF SyncRecord
  <2>2. CASE SyncAtr
    <3>1. PICK ok \in BOOLEAN :
             syn' = [syn EXCEPT !.pc = "idle", !.proto = IF ok THEN syn.as ELSE "none",
                                !.ret = IF ok THEN "ok" ELSE "error"]
      BY <2>2 DEF SyncAtr
    <3>2. CASE ok
      <4>1. syn' = [syn EXCEPT !.pc = "idle", !.proto = syn.as, !.ret = "ok"]
        BY <3>1, <3>2
      <4> QED
        BY <1>0, <4>1 DEF SyncRecord
    <3>3. CASE ~ok
      <4>1. syn' = [syn EXCEPT !.pc = "idle", !.proto = "none", !.ret = "error"]
        BY <3>1, <3>3
      <4> QED
        BY <4>1
    <3> QED
      BY <3>2, <3>3
  <2> QED
    BY <2>1, <2>2
<1>4. /\ syn' \in SyncRecord /\ syn'.pc = "idle" /\ syn'.op = "detect" /\ syn'.fault = syn.fault
      /\ syn'.mem = syn.mem /\ syn'.was = syn.was
  BY <1>0, <1>1, <1>3 DEF SyncRecord
<1>5. ~syn'.fault => SyncProbing(syn')
  BY <1>2, <1>4 DEF SyncProbing
<1> QED
  BY <1>4, <1>5 DEF SyncGood

LEMMA SyncNextGood ==
  ASSUME SyncGood(syn), SyncNext
  PROVE  SyncGood(syn')
<1>1. ASSUME NEW a \in 0 .. SyncSize - 1, NEW n \in 1 .. SyncLen,
             sync_write(a, [i \in 1 .. n |-> 1 + (i % 3)])
      PROVE  SyncGood(syn')
  <2>1. a \in SyncAddrs
    BY DEF SyncAddrs
  <2> QED
    BY <1>1, <2>1, SyncWriteGood
<1> QED
  BY <1>1, SyncDetectGood, SyncLoopGood, SyncProbeGood, SyncInvertedGood, SyncEndGood DEF SyncNext

(* The search writes one byte, the first, whatever fails: the others keep what
   they had when it began. *)
SyncTail(s) == \A a \in SyncAddrs \ {0} : s.mem[a] = s.was[a]

SyncSide(s) ==
    s.op = "detect" => /\ SyncTail(s)
                       /\ s.pc = "write" => s.addr = 0 /\ Len(s.todo) = 1

LEMMA SyncSideVerified ==
  ASSUME NEW u \in SyncRecord, u.pc = "write", Len(u.todo) >= 1, SyncSide(u),
         NEW same \in BOOLEAN, NEW t, t = SyncVerified(u, same)
  PROVE  SyncSide(t)
<1>0. u.then # "write"
  BY DEF SyncRecord
<1>1. CASE same = TRUE
  <2>0. t = SyncVerified(u, TRUE)
    BY <1>1
  <2>1. /\ t.mem = u.mem /\ t.was = u.was /\ t.op = u.op
        /\ t.todo = SubSeq(u.todo, Count(u) + 1, Len(u.todo))
        /\ \/ t.pc = "write" /\ t.todo # <<>>
           \/ t.pc = u.then /\ t.todo = <<>> /\ t.ret = "ok"
    BY ONLY u \in SyncRecord, u.pc = "write", Len(u.todo) >= 1, <2>0, SyncSame, ZenonT(60)
  <2>2. SUFFICES ASSUME u.op = "detect" PROVE SyncSide(t)
    BY <2>1 DEF SyncSide
  <2>3. SyncTail(t) /\ u.addr = 0 /\ Len(u.todo) = 1
    BY <2>1, <2>2 DEF SyncSide, SyncTail
  <2>4. t.todo = <<>>
    <3>1. Count(u) = 1 /\ u.todo \in Seq(0 .. 3)
      BY <2>3, SyncByteStored DEF SyncRecord
    <3> QED
      BY <2>1, <2>3, <3>1
  <2> QED
    BY <1>0, <2>1, <2>3, <2>4 DEF SyncSide
<1>2. CASE same = FALSE
  <2>0. t = SyncVerified(u, FALSE)
    BY <1>2
  <2>1. t.mem = u.mem /\ t.was = u.was /\ t.addr = u.addr /\ t.todo = u.todo /\ t.op = u.op
    BY ONLY u \in SyncRecord, u.pc = "write", <2>0, SyncOther
  <2> QED
    BY <2>1 DEF SyncSide, SyncTail
<1> QED
  BY <1>1, <1>2

(* A turn of the loop in the search reaches no byte but the first. *)
LEMMA SyncSideTurn ==
  ASSUME SyncGood(syn), SyncSide(syn), syn.pc = "write", NEW same \in BOOLEAN, NEW m \in SyncMems,
         syn.op = "detect" => \A a \in SyncAddrs \ {0} : m[a] = syn.mem[a],
         NEW f \in BOOLEAN, NEW b \in BOOLEAN, NEW t,
         t = SyncVerified([syn EXCEPT !.fault = f, !.blind = b, !.mem = m], same)
  PROVE  SyncSide(t)
<1> DEFINE u == [syn EXCEPT !.fault = f, !.blind = b, !.mem = m]
<1>1. syn \in SyncRecord /\ Len(syn.todo) >= 1
  BY DEF SyncGood
<1>2. /\ u \in SyncRecord /\ u.mem = m /\ u.was = syn.was /\ u.op = syn.op
      /\ u.addr = syn.addr /\ u.todo = syn.todo /\ u.pc = "write"
  BY <1>1 DEF SyncRecord
<1>3. t = SyncVerified(u, same)
  OBVIOUS
<1> HIDE DEF u
<1>4. SyncSide(u)
  BY <1>2 DEF SyncSide, SyncTail
<1> QED
  BY <1>1, <1>2, <1>3, <1>4, SyncSideVerified

LEMMA SyncSideLoop ==
  ASSUME SyncGood(syn), SyncSide(syn), SyncLoop
  PROVE  SyncSide(syn')
<1>0. /\ syn.pc = "write" /\ syn \in SyncRecord /\ Len(syn.todo) >= 1 /\ syn.mem \in SyncMems
      /\ syn.fault \in BOOLEAN /\ syn.blind \in BOOLEAN /\ syn.todo \in Seq(0 .. 3)
  BY DEF SyncLoop, SyncGood, SyncRecord
<1> DEFINE g == syn.fault \/ syn.as = syn.kind
<1>g. g \in BOOLEAN
  BY <1>0
<1>m. Stored(syn) \in SyncMems /\ (syn.op = "detect" => \A a \in SyncAddrs \ {0} : Stored(syn)[a] = syn.mem[a])
  <2>1. Stored(syn) \in SyncMems
    BY <1>0, SyncStored
  <2>2. ASSUME syn.op = "detect" PROVE \A a \in SyncAddrs \ {0} : Stored(syn)[a] = syn.mem[a]
    <3>1. Stored(syn) = [syn.mem EXCEPT ![0] = syn.todo[1]]
      BY <1>0, <2>2, SyncByteStored DEF SyncSide
    <3> QED
      BY <1>0, <3>1 DEF SyncMems
  <2> QED
    BY <2>1, <2>2
<1>1. CASE syn' = SyncEnd([syn EXCEPT !.fault = g], "error")
  <2> DEFINE u == [syn EXCEPT !.fault = g]
             t == syn'
  <2>1. u \in SyncRecord /\ u.mem = syn.mem /\ u.was = syn.was /\ u.op = syn.op /\ u.then = syn.then
    BY <1>0, <1>g DEF SyncRecord
  <2>2. t = SyncEnd(u, "error")
    BY <1>1
  <2> HIDE DEF u, t
  <2>3. t.mem = u.mem /\ t.was = u.was /\ t.op = u.op /\ t.pc = u.then
    BY ONLY <2>1, <2>2, SyncEnded
  <2>4. t.pc # "write"
    BY <2>1, <2>3 DEF SyncRecord
  <2>5. SyncSide(t)
    BY <2>1, <2>3, <2>4 DEF SyncSide, SyncTail
  <2> QED
    BY <2>5 DEF t
<1>2. CASE syn' = SyncVerified([syn EXCEPT !.mem = Stored(syn)], TRUE)
  <2> DEFINE m == Stored(syn)
  <2>1. [syn EXCEPT !.mem = m] = [syn EXCEPT !.fault = syn.fault, !.blind = syn.blind, !.mem = m]
    BY <1>0 DEF SyncRecord
  <2>2. syn' = SyncVerified([syn EXCEPT !.fault = syn.fault, !.blind = syn.blind, !.mem = m], TRUE)
    BY <1>2, <2>1
  <2>3. m \in SyncMems /\ (syn.op = "detect" => \A a \in SyncAddrs \ {0} : m[a] = syn.mem[a])
    BY <1>m
  <2> HIDE DEF m
  <2> QED
    BY <1>0, <2>2, <2>3, SyncSideTurn
<1>3. CASE syn' = SyncVerified([syn EXCEPT !.fault = TRUE, !.mem[syn.addr] = Complement[syn.todo[1]]], FALSE)
  <2> DEFINE m == [syn.mem EXCEPT ![syn.addr] = Complement[syn.todo[1]]]
  <2>1. [syn EXCEPT !.fault = TRUE, !.mem[syn.addr] = Complement[syn.todo[1]]]
            = [syn EXCEPT !.fault = TRUE, !.blind = syn.blind, !.mem = m]
    BY <1>0 DEF SyncRecord
  <2>2. syn' = SyncVerified([syn EXCEPT !.fault = TRUE, !.blind = syn.blind, !.mem = m], FALSE)
    BY <1>3, <2>1
  <2>3. m \in SyncMems
    <3>1. syn.todo[1] \in 0 .. 3
      BY <1>0
    <3>2. Complement[syn.todo[1]] \in 0 .. 3
      BY <3>1, SyncTwice
    <3> QED
      BY <1>0, <3>2 DEF SyncMems
  <2>4. syn.op = "detect" => \A a \in SyncAddrs \ {0} : m[a] = syn.mem[a]
    BY <1>0 DEF SyncSide, SyncMems
  <2> HIDE DEF m
  <2> QED
    BY <1>0, <2>2, <2>3, <2>4, SyncSideTurn
<1>4. ASSUME NEW same \in BOOLEAN, NEW works \in BOOLEAN,
             syn' = SyncVerified([syn EXCEPT !.fault = g, !.blind = TRUE,
                         !.mem = IF works /\ syn.as = syn.kind THEN Stored(syn) ELSE @], same)
      PROVE  SyncSide(syn')
  <2> DEFINE m == IF works /\ syn.as = syn.kind THEN Stored(syn) ELSE syn.mem
  <2>1. syn' = SyncVerified([syn EXCEPT !.fault = g, !.blind = TRUE, !.mem = m], same)
    BY <1>4
  <2>2. m \in SyncMems /\ (syn.op = "detect" => \A a \in SyncAddrs \ {0} : m[a] = syn.mem[a])
    BY <1>0, <1>m
  <2> HIDE DEF m, g
  <2> QED
    BY <1>0, <1>g, <2>1, <2>2, SyncSideTurn
<1> QED
  BY <1>1, <1>2, <1>3, <1>4 DEF SyncLoop

(* A step that writes nothing and ends no write. *)
LEMMA SyncSideStill ==
  ASSUME SyncSide(syn), syn.op = "detect", NEW t, t.mem = syn.mem, t.was = syn.was,
         t.pc = "write" => t.addr = 0 /\ Len(t.todo) = 1
  PROVE  SyncSide(t)
BY DEF SyncSide, SyncTail

LEMMA SyncSideKind ==
  ASSUME NEW t, syn \in SyncRecord, t = SyncNextKind(syn)
  PROVE  t.mem = syn.mem /\ t.was = syn.was /\ t.pc \in {"idle", "probe"}
BY DEF SyncNextKind, SyncRecord

LEMMA SyncSideWrite ==
  ASSUME NEW t, syn \in SyncRecord, NEW as, NEW b, NEW then, t = SyncWrite(syn, as, 0, <<b>>, then)
  PROVE  t.mem = syn.mem /\ t.was = syn.was /\ t.addr = 0 /\ Len(t.todo) = 1
BY DEF SyncWrite, SyncRecord

LEMMA SyncSideNext ==
  ASSUME SyncGood(syn), SyncSide(syn), SyncNext
  PROVE  SyncSide(syn')
<1>0. syn \in SyncRecord
  BY DEF SyncGood
<1>1. ASSUME NEW a, NEW data, sync_write(a, data) PROVE SyncSide(syn')
  <2>1. syn'.op = "write"
    BY <1>0, <1>1 DEF sync_write, SyncWrite, SyncRecord
  <2> QED
    BY <2>1 DEF SyncSide
<1>2. CASE ifd_sync_detect_icc
  <2>1. syn'.mem = syn.mem /\ syn'.was = syn.mem /\ syn'.pc = "probe"
    BY <1>0, <1>2 DEF ifd_sync_detect_icc, SyncRecord
  <2> QED
    BY <2>1 DEF SyncSide, SyncTail
<1>3. CASE SyncProbe
  <2>1. syn.op = "detect"
    BY <1>3 DEF SyncProbe, SyncGood, SyncRecord
  <2>2. \/ syn' = SyncNextKind(syn)
        \/ \E b : syn' = SyncWrite(syn, SyncKinds[syn.k], 0, <<Complement[b]>>, "inverted")
        \/ syn' = [syn EXCEPT !.pc = "atr", !.as = SyncKinds[syn.k]]
    BY <1>3 DEF SyncProbe
  <2>3. CASE syn' = SyncNextKind(syn)
    BY <1>0, <2>1, <2>3, SyncSideKind, SyncSideStill
  <2>4. CASE \E b : syn' = SyncWrite(syn, SyncKinds[syn.k], 0, <<Complement[b]>>, "inverted")
    BY <1>0, <2>1, <2>4, SyncSideWrite, SyncSideStill
  <2>5. CASE syn' = [syn EXCEPT !.pc = "atr", !.as = SyncKinds[syn.k]]
    <3>1. syn'.mem = syn.mem /\ syn'.was = syn.was /\ syn'.pc = "atr"
      BY <1>0, <2>5 DEF SyncRecord
    <3> QED
      BY <2>1, <3>1, SyncSideStill
  <2> QED
    BY <2>2, <2>3, <2>4, <2>5
<1>4. CASE SyncInverted
  <2>1. syn.op = "detect"
    BY <1>4 DEF SyncInverted, SyncGood, SyncRecord
  <2>2. CASE syn' = SyncNextKind(syn)
    BY <1>0, <2>1, <2>2, SyncSideKind, SyncSideStill
  <2>3. CASE syn' = SyncWrite(syn, syn.as, 0, <<Complement[syn.data[1]]>>, "restored")
    BY <1>0, <2>1, <2>3, SyncSideWrite, SyncSideStill
  <2> QED
    BY <1>4, <2>2, <2>3 DEF SyncInverted
<1>5. CASE SyncFound \/ SyncAtr
  <2>1. syn.op = "detect"
    BY <1>5 DEF SyncFound, SyncAtr, SyncGood, SyncRecord
  <2>2. syn'.mem = syn.mem /\ syn'.was = syn.was /\ syn'.pc = "idle"
    BY <1>0, <1>5 DEF SyncFound, SyncAtr, SyncRecord
  <2> QED
    BY <2>1, <2>2, SyncSideStill
<1> QED
  BY <1>1, <1>2, <1>3, <1>4, <1>5, SyncSideLoop DEF SyncNext

(* What the invariant says of a call that ended. *)
LEMMA SyncGoodSuffices ==
  ASSUME SyncGood(syn), SyncSide(syn)
  PROVE  SyncWritten /\ SyncProbeKeeps
<1>1. SyncProbeKeeps
  <2>1. DOMAIN syn.mem = SyncAddrs
    BY DEF SyncGood, SyncRecord, SyncMems
  <2> QED
    BY <2>1 DEF SyncGood, SyncProbing, SyncSide, SyncTail, SyncProbeKeeps
<1>2. SyncWritten
  <2> DEFINE n == Len(syn.data)
             first == (syn.addr + SyncSize - (n % SyncSize)) % SyncSize
  <2>1. SUFFICES ASSUME syn.pc = "idle", syn.op = "write", syn.ret = "ok", ~syn.blind
                 PROVE  /\ \A i \in 0 .. n - 1 : syn.mem[(first + i) % SyncSize] = syn.data[i + 1]
                        /\ \A a \in DOMAIN syn.mem \ Cells(first, n) : syn.mem[a] = syn.was[a]
    BY DEF SyncWritten
  <2>2. SyncPart(syn) /\ syn.todo = <<>> /\ syn \in SyncRecord
    BY <2>1 DEF SyncGood
  <2>3. PICK f \in SyncAddrs : SyncFrom(syn, f)
    BY <2>2 DEF SyncPart
  <2>4. n \in Nat /\ n <= SyncSize /\ SyncSize \in Nat /\ DOMAIN syn.mem = SyncAddrs
    BY <2>2, SyncAssumption DEF SyncPart, SyncRecord, SyncMems
  <2> DEFINE d == n
  <2>5. d = Len(syn.data) - Len(syn.todo) /\ d = n /\ n = Len(syn.data)
    BY <2>2, <2>4
  <2> HIDE DEF d
  <2>a. /\ syn.addr = (f + d) % SyncSize
        /\ \A i \in 0 .. d - 1 : syn.mem[(f + i) % SyncSize] = syn.data[i + 1]
        /\ \A a \in SyncAddrs \ Cells(f, Len(syn.data)) : syn.mem[a] = syn.was[a]
    <3>1. d = Len(syn.data) - Len(syn.todo)
      BY <2>5
    <3> QED
      BY ONLY <2>3, <3>1 DEF SyncFrom
  <2> HIDE DEF first, n
  <2>6. /\ syn.addr = (f + n) % SyncSize
        /\ \A i \in 0 .. n - 1 : syn.mem[(f + i) % SyncSize] = syn.data[i + 1]
        /\ \A a \in SyncAddrs \ Cells(f, n) : syn.mem[a] = syn.was[a]
    BY <2>5, <2>a
  <2>7. first = f
    <3>1. n \in 0 .. SyncSize
      BY <2>4
    <3>2. first = (((f + n) % SyncSize) + SyncSize - (n % SyncSize)) % SyncSize
      BY <2>6 DEF first
    <3> QED
      BY <3>1, <3>2, SyncFirst
  <2> QED
    BY <2>4, <2>6, <2>7
<1> QED
  BY <1>1, <1>2

-----------------------------------------------------------------------------
(* The CT-API front end: CaGood *)

CaFiles == {"mf"} \cup {c.id : c \in Commands}
CaTerm == [ctn : Ctns, h : Nat \ {0}, sync : SUBSET CaSlot, atr : [CaSlot -> Int], cwd : CaFiles]

CaIs(s) == s = [terms |-> s.terms, lock |-> s.lock, conns |-> s.conns, card |-> s.card,
                running |-> s.running, res |-> s.res]

(* A flag of a synchronous card is that of the last reset which succeeded. *)
CaFlags(t) == \A slot \in t.sync : t.atr[slot] = 4

(* What may be in the list: its terminals hold the lock that was given. *)
CaListed(lock) == {t \in CaTerm : t.h = lock /\ CaFlags(t)}
CaHold(terms, lock) == terms \in Seq(CaListed(lock))

CaRes(a, terms) ==
    a.call = "memory" => a.slot = a.dad /\ \E i \in DOMAIN terms : terms[i].atr[a.slot] = 4

CaLive(s) ==
    /\ CaHold(s.terms, s.lock) /\ s.lock \in Nat /\ s.conns \in Nat
    /\ s.card \in [0 .. CaSlots - 1 -> DOMAIN CaAtrLen]
    /\ CaRes(s.res, s.terms)

CaGood(s) == CaIs(s) /\ (s.running = "yes" => CaLive(s))

LEMMA CaNoCallIs ==
    /\ DOMAIN CaNoCall = {"call", "rc", "len", "room", "sw", "slot", "dad", "off", "want", "data"}
    /\ CaNoCall.call = "none" /\ CaNoCall.len = 0
  BY DEF CaNoCall

LEMMA CaInitGood == ASSUME CaInit PROVE CaGood(ca)
<1>1. CaIs(ca)
  BY DEF CaInit, CaIs
<1>2. ca.terms = <<>> /\ ca.lock = 0 /\ ca.conns = 0 /\ ca.card \in [0 .. CaSlots - 1 -> {"none", "async"}]
      /\ ca.res = CaNoCall
  BY DEF CaInit
<1>3. ca.res.call = "none"
  BY <1>2, CaNoCallIs
<1>4. ca.card \in [0 .. CaSlots - 1 -> DOMAIN CaAtrLen]
  BY <1>2 DEF CaAtrLen
<1>5. CaHold(<<>>, 0)
  <2>1. \A S : <<>> \in Seq(S)
    OBVIOUS
  <2> QED
    BY <2>1 DEF CaHold
<1> QED
  BY <1>1, <1>2, <1>3, <1>4, <1>5 DEF CaGood, CaLive, CaRes

LEMMA CaLeast == ASSUME NEW T \in SUBSET Nat, T # {} PROVE \E x \in T : \A y \in T : x <= y
<1>1. PICK R : IsWellFoundedOn(R, Nat) /\ \A x, y \in Nat : x < y <=> <<x, y>> \in R
  <2> DEFINE R == OpToRel(<, Nat)
  <2>1. IsWellFoundedOn(R, Nat)
    BY NatLessThanWellFounded
  <2>2. \A x, y \in Nat : x < y <=> <<x, y>> \in R
    BY DEF OpToRel
  <2> QED
    BY <2>1, <2>2
<1>2. \E x \in T : \A y \in T : ~(<<y, x>> \in R)
  <2>1. IsWellFoundedOn(R, Nat) /\ T \subseteq Nat /\ T # {}
    BY <1>1
  <2> QED
    BY <2>1, WFMin, ZenonT(30)
<1>3. PICK x \in T : \A y \in T : ~(<<y, x>> \in R)
  BY <1>2
<1>4. ASSUME NEW y \in T PROVE x <= y
  <2>1. ~(<<y, x>> \in R) /\ x \in Nat /\ y \in Nat
    BY <1>3
  <2>2. ~(y < x)
    BY <2>1, <1>1
  <2> QED
    BY <2>1, <2>2
<1> QED
  BY <1>4

LEMMA CaMin ==
    ASSUME NEW T \in SUBSET Nat, T # {}
    PROVE  Min(T) \in T /\ \A y \in T : Min(T) <= y
<1>1. PICK m \in T : \A y \in T : m <= y
  BY CaLeast
<1> QED
  BY <1>1 DEF Min

(* The place of the first terminal with a number, as SelectInSeq has it *)
CaPlaces(terms, ctn) == {i \in 1 .. Len(terms) : terms[i].ctn = ctn}
CaPlace(terms, ctn) == IF CaPlaces(terms, ctn) # {} THEN Min(CaPlaces(terms, ctn)) ELSE 0

LEMMA CaFirst ==
    ASSUME NEW S, NEW terms \in Seq(S), NEW ctn, NEW f, f = CaPlace(terms, ctn)
    PROVE  /\ f \in 0 .. Len(terms) /\ Len(terms) \in Nat /\ DOMAIN terms = 1 .. Len(terms)
           /\ f # 0 => terms[f].ctn = ctn /\ \A i \in 1 .. f - 1 : terms[i].ctn # ctn
           /\ f = 0 => \A i \in 1 .. Len(terms) : terms[i].ctn # ctn
<1> DEFINE I == CaPlaces(terms, ctn)
<1>1. Len(terms) \in Nat /\ DOMAIN terms = 1 .. Len(terms)
  BY LenProperties
<1>2. I \in SUBSET Nat /\ \A i : i \in I <=> i \in 1 .. Len(terms) /\ terms[i].ctn = ctn
  BY <1>1 DEF CaPlaces
<1>3. f = IF I # {} THEN Min(I) ELSE 0
  BY DEF CaPlace
<1> HIDE DEF I
<1>4. I # {} => f \in I /\ \A y \in I : f <= y
  BY <1>2, <1>3, CaMin
<1>5. f # 0 => \A i \in 1 .. f - 1 : i \in 1 .. Len(terms) /\ ~(f <= i)
  BY <1>1, <1>2, <1>3, <1>4
<1>6. CASE I = {}
  BY <1>1, <1>2, <1>3, <1>6
<1>7. CASE I # {}
  <2>1. f \in I /\ f \in 1 .. Len(terms)
    BY <1>2, <1>4, <1>7
  <2>2. \A i \in 1 .. f - 1 : terms[i].ctn # ctn
    <3>1. f # 0
      BY <1>1, <2>1
    <3>2. \A i \in 1 .. f - 1 : i \in 1 .. Len(terms) /\ ~(f <= i)
      BY <1>5, <3>1
    <3>3. \A i \in 1 .. f - 1 : i \notin I
      BY <1>4, <1>7, <3>2
    <3> QED
      BY <1>2, <3>2, <3>3
  <2> QED
    BY <1>1, <1>2, <2>1, <2>2
<1> QED
  BY <1>6, <1>7

LEMMA CaRemove ==
    ASSUME NEW S, NEW s \in Seq(S), NEW i \in 1 .. Len(s)
    PROVE  RemoveAt(s, i) \in Seq(S)
<1>1. Len(s) \in Nat
  BY LenProperties
<1>2. \A j \in 1 .. Len(s) : s[j] \in S
  BY ElementOfSeq
<1>3. /\ 1 \in Int /\ i - 1 \in Int /\ i + 1 \in Int /\ Len(s) \in Int
      /\ \A j \in 1 .. i - 1 : s[j] \in S
      /\ \A j \in i + 1 .. Len(s) : s[j] \in S
  BY <1>1, <1>2
<1>4. SubSeq(s, 1, i - 1) \in Seq(S) /\ SubSeq(s, i + 1, Len(s)) \in Seq(S)
  BY <1>3, SubSeqProperties
<1> QED
  BY <1>4, ConcatProperties DEF RemoveAt

LEMMA CaRemoveFirst ==
    ASSUME NEW S, NEW s \in Seq(S), NEW t
    PROVE  RemoveAt(<<t>> \o s, 1) \in Seq(S)
<1> DEFINE r == <<t>> \o s
<1>1. Len(r) = Len(s) + 1 /\ Len(s) \in Nat /\ \A i \in 1 .. Len(s) : r[i + 1] = s[i]
  <2>1. <<t>> \in Seq(S \cup {t}) /\ s \in Seq(S \cup {t}) /\ Len(<<t>>) = 1
    BY SeqMonotonic
  <2>2. Len(s) \in Nat
    BY LenProperties
  <2> QED
    BY <2>1, <2>2, ConcatProperties
<1> HIDE DEF r
<1>2. SubSeq(r, 1, 0) = <<>>
  BY SubSeqEmpty
<1>3. SubSeq(r, 2, Len(r)) \in Seq(S)
  <2>1. \A i \in 1 .. Len(s) : s[i] \in S
    BY ElementOfSeq
  <2>2. \A i \in 2 .. Len(r) : i - 1 \in 1 .. Len(s) /\ r[i] = s[i - 1]
    BY <1>1
  <2>3. 2 \in Int /\ Len(r) \in Int /\ \A i \in 2 .. Len(r) : r[i] \in S
    BY <1>1, <2>1, <2>2
  <2> QED
    BY <2>3, SubSeqProperties
<1>4. RemoveAt(r, 1) = <<>> \o SubSeq(r, 2, Len(r))
  BY <1>2 DEF RemoveAt
<1> QED
  BY <1>3, <1>4, ConcatEmptySeq DEF r

LEMMA CaClosedIs ==
    ASSUME NEW terms, NEW ctn, NEW o \in Closed(terms, ctn)
    PROVE  o.terms = IF CaPlace(terms, ctn) = 0 THEN terms ELSE RemoveAt(terms, CaPlace(terms, ctn))
  BY DEF Closed, SelectInSeq, CaPlace, CaPlaces

(* CT_close() only takes terminals out of the list. *)
LEMMA CaClosed ==
    ASSUME NEW S, NEW terms \in Seq(S), NEW ctn, NEW o \in Closed(terms, ctn)
    PROVE  o.terms \in Seq(S)
<1> DEFINE f == CaPlace(terms, ctn)
<1>1. f \in 0 .. Len(terms) /\ Len(terms) \in Nat
  BY CaFirst
<1>2. f # 0 => RemoveAt(terms, f) \in Seq(S)
  <2> HIDE DEF f
  <2>1. f # 0 => f \in 1 .. Len(terms)
    BY <1>1
  <2> QED
    BY <2>1, CaRemove
<1> QED
  BY <1>2, CaClosedIs

(* The terminal that CT_init() puts in front is the one it takes back. *)
LEMMA CaRefused ==
    ASSUME NEW S, NEW terms \in Seq(S), NEW t, NEW ctn, t.ctn = ctn,
           NEW o \in Refused(<<t>> \o terms, ctn)
    PROVE  o.terms \in Seq(S)
<1> DEFINE r == <<t>> \o terms
           f == CaPlace(r, ctn)
<1>1. r \in Seq(S \cup {t}) /\ 1 \in 1 .. Len(r) /\ r[1] = t
  <2>1. <<t>> \in Seq(S \cup {t}) /\ terms \in Seq(S \cup {t}) /\ Len(<<t>>) = 1 /\ <<t>>[1] = t
    BY SeqMonotonic
  <2>2. Len(terms) \in Nat
    BY LenProperties
  <2> QED
    BY <2>1, <2>2, ConcatProperties
<1> HIDE DEF r
<1>2. f \in 0 .. Len(r) /\ Len(r) \in Nat
      /\ (f # 0 => \A i \in 1 .. f - 1 : r[i].ctn # ctn)
      /\ (f = 0 => \A i \in 1 .. Len(r) : r[i].ctn # ctn)
  BY <1>1, CaFirst
<1> HIDE DEF f
<1>3. f # 0
  BY <1>1, <1>2
<1>4. ~(f > 1)
  <2>1. f > 1 => 1 \in 1 .. f - 1
    BY <1>2
  <2> QED
    BY <1>1, <1>2, <1>3, <2>1
<1>5. f = 1
  BY <1>2, <1>3, <1>4
<1>6. o.terms = RemoveAt(r, 1)
  <2>1. o \in Closed(r, ctn)
    BY DEF Refused, r
  <2> QED
    BY <1>5, <2>1, CaClosedIs DEF f
<1> QED
  BY <1>6, CaRemoveFirst DEF r

(* Answers that are not a memory card's *)
CaPlain(a) == "call" \in DOMAIN a /\ a.call # "memory"

LEMMA CaAnswersPlain ==
    /\ CaPlain(CaNoCall) /\ CaPlain(ErrInvalid)
    /\ \A sw : CaPlain(ctapi_error(sw))
    /\ \A n, room : CaPlain(ctapi_answer(n, room))
<1>1. CaPlain(CaNoCall)
  BY CaNoCallIs DEF CaPlain
<1>2. CaPlain(ErrInvalid)
  BY <1>1 DEF CaPlain, ErrInvalid
<1>3. ASSUME NEW sw PROVE CaPlain(ctapi_error(sw))
  BY <1>1 DEF CaPlain, ctapi_error
<1>4. ASSUME NEW n, NEW room PROVE CaPlain(ctapi_answer(n, room))
  BY <1>1, <1>3 DEF CaPlain, ctapi_answer
<1> QED
  BY <1>1, <1>2, <1>3, <1>4

LEMMA CaStillPlain ==
    ASSUME NEW a, CaPlain(a), NEW x
    PROVE  /\ CaPlain([a EXCEPT !.room = x]) /\ CaPlain([a EXCEPT !.sw = x])
           /\ CaPlain([a EXCEPT !.data = x]) /\ CaPlain(Limited(x, a))
<1>1. CaPlain([a EXCEPT !.room = x])
  BY DEF CaPlain
<1>2. CaPlain([a EXCEPT !.sw = x])
  BY DEF CaPlain
<1>3. CaPlain([a EXCEPT !.data = x])
  BY DEF CaPlain
<1>4. CaPlain(Limited(x, a))
  BY CaAnswersPlain DEF Limited
<1> QED
  BY <1>1, <1>2, <1>3, <1>4

LEMMA CaReadPlain ==
    ASSUME NEW f, NEW off, NEW len, NEW room, NEW a \in CardTerminalFile_read(f, off, len, room)
    PROVE  CaPlain(a)
<1>1. ASSUME NEW b, CaPlain(b)
      PROVE  CaPlain([b EXCEPT !.call = "file", !.off = off, !.want = len])
  BY <1>1 DEF CaPlain
<1>2. ASSUME NEW b, CaPlain(b), NEW x, NEW y PROVE CaPlain([b EXCEPT !.sw = x, !.data = y])
  BY <1>2 DEF CaPlain
<1>3. ASSUME NEW out, NEW size PROVE CaPlain(Ending(out, size, off, len, room))
  BY <1>1, <1>2, CaAnswersPlain DEF Ending
<1>4. \E out, size : a = Ending(out, size, off, len, room)
  BY DEF CardTerminalFile_read
<1> QED
  BY <1>3, <1>4

(* A command to the terminal changes what a reset or a selection changes. *)
CaCtl(o, h) == o.t \in CaListed(h) /\ CaPlain(o.a)

LEMMA CaResetCtl ==
    ASSUME NEW h, NEW t \in CaListed(h), NEW unit, NEW p2, NEW rc \in {-1, 0, 4, 6}, NEW room
    PROVE  CaCtl(ctapi_reset(t, unit, p2, rc, room), h)
<1> DEFINE u == [t EXCEPT !.sync = IF rc = 4 THEN @ \cup {unit} ELSE @ \ {unit}, !.atr[unit] = rc]
<1>1. ASSUME unit \in CaSlot PROVE u \in CaListed(h)
  <2>1. t \in CaTerm /\ t.h = h /\ CaFlags(t)
    BY DEF CaListed
  <2>2. /\ u.ctn = t.ctn /\ u.h = t.h /\ u.cwd = t.cwd
        /\ u.sync = (IF rc = 4 THEN t.sync \cup {unit} ELSE t.sync \ {unit})
        /\ u.atr = [t.atr EXCEPT ![unit] = rc]
        /\ u \in CaTerm
    <3> DEFINE n == IF rc = 4 THEN t.sync \cup {unit} ELSE t.sync \ {unit}
               r == [t.atr EXCEPT ![unit] = rc]
    <3>1. t = [ctn |-> t.ctn, h |-> t.h, sync |-> t.sync, atr |-> t.atr, cwd |-> t.cwd]
      BY <2>1 DEF CaTerm
    <3>2. u = [ctn |-> t.ctn, h |-> t.h, sync |-> n, atr |-> r, cwd |-> t.cwd]
      <4>1. u = [t EXCEPT !.sync = n, !.atr = r]
        BY Zenon
      <4> HIDE DEF u, n, r
      <4> QED
        BY <3>1, <4>1
    <3>3. /\ t.ctn \in Ctns /\ t.h \in Nat \ {0} /\ t.sync \in SUBSET CaSlot
          /\ t.atr \in [CaSlot -> Int] /\ t.cwd \in CaFiles
      BY <2>1 DEF CaTerm
    <3>4. n \in SUBSET CaSlot /\ r \in [CaSlot -> Int]
      BY <1>1, <3>3
    <3> HIDE DEF u, n, r
    <3>5. u.ctn = t.ctn /\ u.h = t.h /\ u.cwd = t.cwd /\ u.sync = n /\ u.atr = r
      BY <3>2
    <3>6. u \in CaTerm
      BY <3>2, <3>3, <3>4 DEF CaTerm
    <3> QED
      BY <3>5, <3>6 DEF n, r
  <2> HIDE DEF u
  <2>3. t.atr \in [CaSlot -> Int] /\ t.sync \subseteq CaSlot
    BY <2>1 DEF CaTerm
  <2>4. CaFlags(u)
    <3> SUFFICES ASSUME NEW slot \in u.sync PROVE u.atr[slot] = 4
      BY DEF CaFlags
    <3>1. CASE slot = unit
      BY <1>1, <2>2, <2>3, <3>1
    <3>2. CASE slot # unit
      <4>1. slot \in t.sync
        BY <2>2, <3>2
      <4> QED
        BY <2>1, <2>2, <2>3, <3>2, <4>1 DEF CaFlags
    <3> QED
      BY <3>1, <3>2
  <2> QED
    BY <2>1, <2>2, <2>4 DEF CaListed
<1> HIDE DEF u
<1>2. /\ ctapi_reset(t, unit, p2, rc, room).t \in {t, u}
      /\ unit \notin CaSlot => ctapi_reset(t, unit, p2, rc, room).t = t
  BY DEF ctapi_reset, u
<1>3. CaPlain(ctapi_reset(t, unit, p2, rc, room).a)
  BY CaAnswersPlain DEF ctapi_reset
<1> QED
  BY <1>1, <1>2, <1>3 DEF CaCtl

LEMMA CaResultsAre ==
    ASSUME ca.card \in [0 .. CaSlots - 1 -> DOMAIN CaAtrLen], NEW unit \in CaSlot \cup {UnitCT}
    PROVE  ResetResults(unit) \subseteq {-1, 0, 4, 6}
  BY CtApiAssumption DEF ResetResults, CaAtrLen, CaSlot, UnitCT

LEMMA CaResetsCtl ==
    ASSUME ca.card \in [0 .. CaSlots - 1 -> DOMAIN CaAtrLen], NEW h, NEW t \in CaListed(h), NEW c,
           NEW room, NEW o \in Reset(t, c, room)
    PROVE  CaCtl(o, h)
<1>1. CASE c.p1 \notin CaSlot \cup {UnitCT}
  BY <1>1, CaAnswersPlain DEF Reset, CaCtl
<1>2. CASE c.p1 \in CaSlot \cup {UnitCT}
  <2>1. PICK rc \in ResetResults(c.p1) : o = ctapi_reset(t, c.p1, c.p2, rc, room)
    BY <1>2 DEF Reset
  <2>2. rc \in {-1, 0, 4, 6}
    BY <1>2, CaResultsAre
  <2> QED
    BY <2>1, <2>2, CaResetCtl
<1> QED
  BY <1>1, <1>2

LEMMA CaRequestCtl ==
    ASSUME ca.card \in [0 .. CaSlots - 1 -> DOMAIN CaAtrLen], NEW h, NEW t \in CaListed(h), NEW c,
           NEW room, NEW o \in ctapi_request_icc(t, c, room)
    PROVE  CaCtl(o, h)
<1>1. \/ \E sw : o = [t |-> t, a |-> ctapi_error(sw)]
      \/ o \in Reset(t, c, room)
  BY DEF ctapi_request_icc
<1> QED
  BY <1>1, CaResetsCtl, CaAnswersPlain DEF CaCtl

LEMMA CaStatusPlain == ASSUME NEW room, NEW a \in ctapi_status(room) PROVE CaPlain(a)
  BY CaAnswersPlain DEF ctapi_status

LEMMA CaParameterPlain == ASSUME NEW c, NEW a \in ctapi_set_interface_parameter(c) PROVE CaPlain(a)
<1>1. \E sw : a = ctapi_error(sw)
  BY DEF ctapi_set_interface_parameter
<1> QED
  BY <1>1, CaAnswersPlain

LEMMA CaSelectCtl ==
    ASSUME NEW h, NEW t \in CaListed(h), NEW id \in CaFiles, NEW a, CaPlain(a)
    PROVE  CaCtl([t |-> [t EXCEPT !.cwd = id], a |-> a], h)
<1> DEFINE u == [t EXCEPT !.cwd = id]
<1>1. t \in CaTerm /\ t.h = h /\ CaFlags(t)
  BY DEF CaListed
<1>2. u \in CaTerm /\ u.h = t.h /\ u.sync = t.sync /\ u.atr = t.atr
  BY <1>1 DEF CaTerm
<1> HIDE DEF u
<1>3. u \in CaListed(h)
  BY <1>1, <1>2 DEF CaListed, CaFlags
<1> QED
  BY <1>3 DEF CaCtl, u

LEMMA CaHandledCtl ==
    ASSUME ca.card \in [0 .. CaSlots - 1 -> DOMAIN CaAtrLen], NEW h, NEW t \in CaListed(h),
           NEW c \in Commands, NEW room, NEW q \in Handled(t, c, room)
    PROVE  CaCtl(q, h)
<1>1. ASSUME NEW a, CaPlain(a) PROVE CaCtl([t |-> t, a |-> a], h)
  BY <1>1 DEF CaCtl
<1>2. ASSUME NEW sw, q = [t |-> t, a |-> ctapi_error(sw)] PROVE CaCtl(q, h)
  BY <1>1, <1>2, CaAnswersPlain
<1>3. CASE c.ins \in {"b1_reset", "reset"}
  <2>1. q \in Reset(t, c, room) \/ \E sw : q = [t |-> t, a |-> ctapi_error(sw)]
    BY <1>3 DEF Handled
  <2> QED
    BY <1>2, <2>1, CaResetsCtl
<1>4. CASE c.ins = "request_icc"
  <2>1. q \in ctapi_request_icc(t, c, room)
    BY <1>4 DEF Handled
  <2> QED
    BY <2>1, CaRequestCtl
<1>5. CASE c.ins = "status"
  <2>1. PICK a \in ctapi_status(room) : q = [t |-> t, a |-> a]
    BY <1>5 DEF Handled
  <2> QED
    BY <1>1, <2>1, CaStatusPlain
<1>6. CASE c.ins = "read"
  <2>1. PICK a \in CardTerminalFile_read(t.cwd, c.off, LeOf(c), room) : q = [t |-> t, a |-> a]
    BY <1>6 DEF Handled
  <2> QED
    BY <1>1, <2>1, CaReadPlain
<1>7. CASE c.ins = "set_param"
  <2>1. PICK a \in ctapi_set_interface_parameter(c) : q = [t |-> t, a |-> a]
    BY <1>7 DEF Handled
  <2> QED
    BY <1>1, <2>1, CaParameterPlain
<1>8. CASE c.ins = "select"
  <2>1. CardTerminalFile_select(t.cwd, c.id) \in {c.id, ""} /\ c.id \in CaFiles
    BY DEF CardTerminalFile_select, CaFiles
  <2> DEFINE a == IF room < 12 THEN ErrInvalid ELSE ctapi_answer(10, room)
  <2>2. \/ \E sw : q = [t |-> t, a |-> ctapi_error(sw)]
        \/ q = [t |-> [t EXCEPT !.cwd = c.id], a |-> a]
    BY <1>8, <2>1 DEF Handled
  <2>3. CaPlain(a)
    BY CaAnswersPlain
  <2> HIDE DEF a
  <2>4. CaCtl([t |-> [t EXCEPT !.cwd = c.id], a |-> a], h)
    BY <2>1, <2>3, CaSelectCtl
  <2> QED
    BY <1>2, <2>2, <2>4
<1>9. CASE c.ins \notin {"b1_reset", "reset", "request_icc", "status", "read", "set_param", "select"}
  <2>1. \E sw : q = [t |-> t, a |-> ctapi_error(sw)]
    BY <1>9 DEF Handled
  <2> QED
    BY <1>2, <2>1
<1> QED
  BY <1>3, <1>4, <1>5, <1>6, <1>7, <1>8, <1>9

LEMMA CaControlCtl ==
    ASSUME ca.card \in [0 .. CaSlots - 1 -> DOMAIN CaAtrLen], NEW h, NEW t \in CaListed(h),
           NEW c \in Commands, NEW room, NEW o \in ctapi_control(t, c, room)
    PROVE  CaCtl(o, h)
<1>1. PICK q \in Handled(t, c, room) :
        o = [t |-> q.t, a |-> [Limited(LeOf(c), q.a) EXCEPT !.room = room]]
  BY DEF ctapi_control
<1>2. o.t = q.t /\ o.a = [Limited(LeOf(c), q.a) EXCEPT !.room = room]
  BY <1>1
<1>3. CaCtl(q, h)
  BY CaHandledCtl
<1>4. CaPlain(Limited(LeOf(c), q.a))
  BY <1>3, CaStillPlain DEF CaCtl
<1>5. CaPlain([Limited(LeOf(c), q.a) EXCEPT !.room = room])
  BY <1>4, CaStillPlain
<1> QED
  BY <1>2, <1>3, <1>5 DEF CaCtl

(* ctapi_transact(): a memory command goes to a slot whose flag is set. *)
LEMMA CaTransactRes ==
    ASSUME NEW h, NEW t \in CaListed(h), NEW slot, NEW apdu, NEW n, NEW room,
           NEW a \in ctapi_transact(t, slot, apdu, n, room)
    PROVE  a.call = "memory" => a.slot = a.dad /\ t.atr[a.slot] = 4
<1> DEFINE asked == [CaNoCall EXCEPT !.dad = slot, !.room = room]
           sent == [asked EXCEPT !.call = "memory", !.slot = slot, !.rc = "INVALID"]
           done == [ctapi_answer(n, room) EXCEPT !.call = "memory", !.slot = slot, !.dad = slot, !.room = room]
<1>1. CASE ToMemory(t, slot, apdu)
  <2>1. t.atr[slot] = 4
    BY <1>1 DEF ToMemory, CaListed, CaFlags
  <2>2. asked.call = "none" /\ sent.slot = slot /\ sent.dad = slot
    BY CaNoCallIs
  <2>3. done.slot = slot /\ done.dad = slot
    <3>1. {"slot", "dad"} \subseteq DOMAIN ctapi_answer(n, room)
      BY CaNoCallIs DEF ctapi_answer, ctapi_error
    <3> QED
      BY <3>1
  <2>4. \/ a = [asked EXCEPT !.rc = "INVALID"] \/ a = [asked EXCEPT !.len = 2, !.sw = "9000"]
        \/ a = sent \/ a = done
    BY <1>1 DEF ctapi_transact
  <2>5. /\ [asked EXCEPT !.rc = "INVALID"].call = "none"
        /\ [asked EXCEPT !.len = 2, !.sw = "9000"].call = "none"
    BY CaNoCallIs
  <2> HIDE DEF asked, sent, done
  <2> QED
    BY <2>1, <2>2, <2>3, <2>4, <2>5
<1>2. CASE ~ ToMemory(t, slot, apdu)
  <2>1. \/ a = [asked EXCEPT !.rc = "INVALID"] \/ a = [asked EXCEPT !.len = 2, !.sw = "9000"]
        \/ a = [asked EXCEPT !.call = "apdu", !.rc = "INVALID"]
        \/ a = [asked EXCEPT !.call = "apdu", !.len = n + 2, !.sw = "9000"]
    BY <1>2 DEF ctapi_transact
  <2>2. a.call \in {"none", "apdu"}
    BY <2>1, CaNoCallIs
  <2> QED
    BY <2>2
<1> QED
  BY <1>1, <1>2

LEMMA CaNewGood ==
    ASSUME NEW s, CaIs(s), s.running = "yes" => CaLive(s) PROVE CaGood(s)
  BY DEF CaGood

LEMMA CaInitStepGood == ASSUME CaGood(ca), NEW ctn \in Ctns, CT_init(ctn) PROVE CaGood(ca')
<1> DEFINE h == ca.conns + 1
           t == [ctn |-> ctn, h |-> h, sync |-> {}, atr |-> [s \in CaSlot |-> 0], cwd |-> "mf"]
           terms == <<t>> \o ca.terms
           Ret(r) == [CaNoCall EXCEPT !.call = "init", !.rc = r]
<1>1. CaIs(ca) /\ CaLive(ca) /\ ca.conns \in Nat /\ h \in Nat \ {0} /\ CaHold(ca.terms, ca.lock)
  <2>1. Running
    BY DEF CT_init, CaIdle
  <2>2. CaIs(ca) /\ CaLive(ca)
    BY <2>1 DEF Running, CaGood
  <2> QED
    BY <2>2 DEF CaLive
<1>2. ASSUME NEW r PROVE CaPlain(Ret(r))
  BY CaAnswersPlain, CaNoCallIs DEF CaPlain
<1>3. t \in CaListed(h)
  <2>1. [s \in CaSlot |-> 0] \in [CaSlot -> Int] /\ {} \in SUBSET CaSlot /\ "mf" \in CaFiles
    BY DEF CaFiles
  <2>2. t \in CaTerm
    BY <1>1, <2>1 DEF CaTerm
  <2> QED
    BY <2>2 DEF CaListed, CaFlags
<1>4. \/ ca' = [ca EXCEPT !.res = Ret("INVALID")]
      \/ ca.lock = 0 /\ ca' = [ca EXCEPT !.terms = terms, !.conns = h, !.lock = h, !.res = Ret("OK")]
      \/ \E o \in Refused(terms, ctn) :
            ca' = [ca EXCEPT !.terms = o.terms, !.running = o.running, !.conns = h, !.res = Ret("HTSI")]
      \/ ca' = [ca EXCEPT !.running = "undefined", !.conns = h]
  BY DEF CT_init
<1>5. t.ctn = ctn
  OBVIOUS
<1> HIDE DEF h, t, Ret
<1>6. CASE ca' = [ca EXCEPT !.res = Ret("INVALID")]
  BY <1>1, <1>2, <1>6 DEF CaGood, CaLive, CaIs, CaRes, CaPlain
<1>7. CASE ca.lock = 0 /\ ca' = [ca EXCEPT !.terms = terms, !.conns = h, !.lock = h, !.res = Ret("OK")]
  <2>1. ca.terms = <<>>
    <3>1. CaListed(0) = {}
      BY DEF CaListed, CaTerm
    <3>2. ca.terms \in Seq({})
      BY <1>1, <1>7, <3>1 DEF CaHold
    <3>3. Len(ca.terms) \notin Nat \ {0}
      <4>1. Len(ca.terms) \in Nat
        BY <3>2, LenProperties
      <4>2. 1 \in 1 .. Len(ca.terms) => ca.terms[1] \in {}
        BY <3>2, ElementOfSeq
      <4> QED
        BY <4>1, <4>2
    <3> QED
      BY <3>2, <3>3, EmptySeq
  <2>2. CaHold(terms, h)
    <3>1. <<t>> \in Seq(CaListed(h)) /\ <<>> \in Seq(CaListed(h))
      BY <1>3, EmptySeq
    <3> QED
      BY <2>1, <3>1, ConcatProperties DEF CaHold
  <2>3. ca'.res = Ret("OK") /\ ca'.terms = terms /\ ca'.lock = h /\ ca'.conns = h /\ ca'.card = ca.card
        /\ CaIs(ca')
    BY <1>1, <1>7 DEF CaIs
  <2> QED
    BY <1>1, <1>2, <2>2, <2>3 DEF CaGood, CaLive, CaRes, CaPlain
<1>8. ASSUME NEW o \in Refused(terms, ctn),
             ca' = [ca EXCEPT !.terms = o.terms, !.running = o.running, !.conns = h, !.res = Ret("HTSI")]
      PROVE  CaGood(ca')
  <2>1. CaHold(o.terms, ca.lock)
    BY <1>1, <1>5, CaRefused DEF CaHold
  <2>2. ca'.res = Ret("HTSI") /\ ca'.terms = o.terms /\ ca'.lock = ca.lock /\ ca'.conns = h
        /\ ca'.card = ca.card /\ CaIs(ca')
    BY <1>1, <1>8 DEF CaIs
  <2> QED
    BY <1>1, <1>2, <2>1, <2>2 DEF CaGood, CaLive, CaRes, CaPlain
<1>9. CASE ca' = [ca EXCEPT !.running = "undefined", !.conns = h]
  BY <1>1, <1>9 DEF CaGood, CaIs
<1> QED
  BY <1>4, <1>6, <1>7, <1>8, <1>9

LEMMA CaCloseGood == ASSUME CaGood(ca), NEW ctn \in Ctns, CT_close(ctn) PROVE CaGood(ca')
<1> DEFINE r == [CaNoCall EXCEPT !.call = "close"]
<1>1. CaIs(ca) /\ CaLive(ca)
  BY DEF CT_close, CaIdle, Running, CaGood
<1>2. CaPlain(r)
  BY CaNoCallIs DEF CaPlain
<1>3. PICK o \in Closed(ca.terms, ctn) :
        ca' = [ca EXCEPT !.terms = o.terms, !.running = o.running, !.res = r]
  BY DEF CT_close
<1> HIDE DEF r
<1>4. CaHold(o.terms, ca.lock)
  BY <1>1, CaClosed DEF CaHold, CaLive
<1>5. ca'.res = r /\ ca'.terms = o.terms /\ ca'.lock = ca.lock /\ ca'.conns = ca.conns
      /\ ca'.card = ca.card /\ CaIs(ca')
  BY <1>1, <1>3 DEF CaIs
<1> QED
  BY <1>1, <1>2, <1>4, <1>5 DEF CaGood, CaLive, CaRes, CaPlain

LEMMA CaControlGood ==
    ASSUME CaGood(ca), NEW ctn, NEW c \in Commands, NEW room, CT_dataControl(ctn, c, room)
    PROVE  CaGood(ca')
<1>1. CaIs(ca) /\ CaLive(ca)
  BY DEF CT_dataControl, CaIdle, Running, CaGood
<1>2. Find(ctn) = CaPlace(ca.terms, ctn)
  BY DEF Find, SelectInSeq, CaPlace, CaPlaces
<1> DEFINE i == Find(ctn)
<1>3. i \in 0 .. Len(ca.terms) /\ ca.terms \in Seq(CaListed(ca.lock))
  BY <1>1, <1>2, CaFirst DEF CaLive, CaHold
<1>4. \/ ca' = [ca EXCEPT !.res = ErrInvalid]
      \/ ca' = [ca EXCEPT !.running = "undefined"]
      \/ i # 0 /\ \E o \in ctapi_control(ca.terms[i], c, room) :
                     ca' = [ca EXCEPT !.terms[i] = o.t, !.res = o.a]
  BY DEF CT_dataControl
<1> HIDE DEF i
<1>5. CASE ca' = [ca EXCEPT !.res = ErrInvalid]
  BY <1>1, <1>5, CaAnswersPlain DEF CaGood, CaLive, CaIs, CaRes, CaPlain
<1>6. CASE ca' = [ca EXCEPT !.running = "undefined"]
  BY <1>1, <1>6 DEF CaGood, CaIs
<1>7. ASSUME i # 0, NEW o \in ctapi_control(ca.terms[i], c, room),
             ca' = [ca EXCEPT !.terms[i] = o.t, !.res = o.a]
      PROVE  CaGood(ca')
  <2> DEFINE n == [ca.terms EXCEPT ![i] = o.t]
  <2>1. Len(ca.terms) \in Nat
    BY <1>3, LenProperties
  <2>2. i \in 1 .. Len(ca.terms)
    BY <1>3, <1>7, <2>1
  <2>3. ca.terms[i] \in CaListed(ca.lock)
    BY <1>3, <2>2, ElementOfSeq
  <2>4. ca.card \in [0 .. CaSlots - 1 -> DOMAIN CaAtrLen]
    BY <1>1 DEF CaLive
  <2>5. CaCtl(o, ca.lock)
    BY <1>7, <2>3, <2>4, CaControlCtl
  <2>6. n \in Seq(CaListed(ca.lock))
    BY <1>3, <2>2, <2>5, ExceptSeq DEF CaCtl
  <2>7. ca' = [ca EXCEPT !.terms = n, !.res = o.a]
    BY <1>7, Zenon
  <2> HIDE DEF n
  <2>8. ca'.terms = n /\ ca'.res = o.a /\ ca'.lock = ca.lock /\ ca'.conns = ca.conns
        /\ ca'.card = ca.card /\ CaIs(ca')
    BY <1>1, <2>7 DEF CaIs
  <2> QED
    BY <1>1, <2>5, <2>6, <2>8 DEF CaGood, CaLive, CaHold, CaRes, CaCtl, CaPlain
<1> QED
  BY <1>4, <1>5, <1>6, <1>7

LEMMA CaCardGood ==
    ASSUME CaGood(ca), NEW ctn, NEW slot, NEW apdu, NEW room, CT_dataCard(ctn, slot, apdu, room)
    PROVE  CaGood(ca')
<1>1. CaIs(ca) /\ CaLive(ca)
  BY DEF CT_dataCard, CaIdle, Running, CaGood
<1>2. Find(ctn) = CaPlace(ca.terms, ctn)
  BY DEF Find, SelectInSeq, CaPlace, CaPlaces
<1> DEFINE i == Find(ctn)
<1>3. i \in 0 .. Len(ca.terms) /\ ca.terms \in Seq(CaListed(ca.lock)) /\ DOMAIN ca.terms = 1 .. Len(ca.terms)
      /\ Len(ca.terms) \in Nat
  BY <1>1, <1>2, CaFirst DEF CaLive, CaHold
<1>4. \/ ca' = [ca EXCEPT !.res = ErrInvalid]
      \/ i # 0 /\ \E n \in {0, 4} : \E a \in ctapi_transact(ca.terms[i], slot, apdu, n, room) :
                     ca' = [ca EXCEPT !.res = a]
  BY DEF CT_dataCard
<1> HIDE DEF i
<1>5. CASE ca' = [ca EXCEPT !.res = ErrInvalid]
  BY <1>1, <1>5, CaAnswersPlain DEF CaGood, CaLive, CaIs, CaRes, CaPlain
<1>6. ASSUME i # 0, NEW n, NEW a \in ctapi_transact(ca.terms[i], slot, apdu, n, room),
             ca' = [ca EXCEPT !.res = a]
      PROVE  CaGood(ca')
  <2>1. i \in DOMAIN ca.terms
    BY <1>3, <1>6
  <2>2. ca.terms[i] \in CaListed(ca.lock)
    BY <1>3, <2>1, ElementOfSeq
  <2>3. CaRes(a, ca.terms)
    BY <1>6, <2>1, <2>2, CaTransactRes DEF CaRes
  <2> QED
    BY <1>1, <1>6, <2>3 DEF CaGood, CaLive, CaIs
<1> QED
  BY <1>4, <1>5, <1>6

LEMMA CaNextGood == ASSUME CaGood(ca), CaNext PROVE CaGood(ca')
<1>1. CASE CaReturn
  <2>1. CaIs(ca) /\ CaLive(ca) /\ ca' = [ca EXCEPT !.res = CaNoCall]
    BY <1>1 DEF CaReturn, Running, CaGood
  <2> QED
    BY <2>1, CaAnswersPlain DEF CaGood, CaLive, CaIs, CaRes, CaPlain
<1>2. CASE CaCardChanges
  <2>1. PICK s \in 0 .. CaSlots - 1, k \in DOMAIN CaAtrLen : ca' = [ca EXCEPT !.card[s] = k]
    BY <1>2 DEF CaCardChanges
  <2>2. CaIs(ca) /\ CaLive(ca)
    BY <1>2 DEF CaCardChanges, CaIdle, Running, CaGood
  <2> DEFINE n == [ca.card EXCEPT ![s] = k]
  <2>3. ca' = [ca EXCEPT !.card = n]
    BY <2>1, Zenon
  <2>4. n \in [0 .. CaSlots - 1 -> DOMAIN CaAtrLen]
    BY <2>2 DEF CaLive
  <2> HIDE DEF n
  <2> QED
    BY <2>2, <2>3, <2>4 DEF CaGood, CaLive, CaIs
<1> QED
  BY <1>1, <1>2, CaInitStepGood, CaCloseGood, CaControlGood, CaCardGood DEF CaNext

LEMMA CaGoodSuffices == ASSUME CaGood(ca) PROVE CaHeld /\ CaMemory
<1>1. ASSUME Running PROVE CaLive(ca)
  BY <1>1 DEF Running, CaGood
<1>2. ASSUME Running, NEW i \in DOMAIN ca.terms PROVE ca.terms[i].h = ca.lock
  <2>1. ca.terms \in Seq(CaListed(ca.lock))
    BY <1>1, <1>2 DEF CaLive, CaHold
  <2>2. ca.terms[i] \in CaListed(ca.lock)
    BY <1>2, <2>1, LenProperties, ElementOfSeq
  <2> QED
    BY <2>2 DEF CaListed
<1>3. CaMemory
  BY <1>1 DEF CaMemory, CaLive, CaRes
<1> QED
  BY <1>2, <1>3 DEF CaHeld

-----------------------------------------------------------------------------
(* The run *)

(* The drivers and protocols that have an invariant of their own, under the
   names part has for them. *)
PartsInv ==
    /\ part \in {"t0", "gbp", "sync", "pertosmart", "ccid", "kaan", "calls", "atr", "ctapi"}
    /\ part = "t0" => T0Good(t0) /\ T0Side(t0)
    /\ part = "gbp" => GbpGood(gbp)
    /\ part = "sync" => SyncGood(syn) /\ SyncSide(syn)
    /\ part = "pertosmart" => PsGood(ps)
    /\ part = "ccid" => CcGood(cc)
    /\ part = "kaan" => KnGood(kn)
    /\ part = "ctapi" => CaGood(ca)

LEMMA PartsInitInv == ASSUME Init PROVE PartsInv
<1>1. part \in {"t0", "gbp", "sync", "pertosmart", "ccid", "kaan", "calls", "atr", "ctapi"}
  BY DEF Init
<1>2. part = "t0" => T0Good(t0) /\ T0Side(t0)
  BY T0InitGood DEF Init, T0Init, T0New, T0Side, T0Span
<1>3. part = "gbp" => GbpGood(gbp)
  BY GbpInitGood DEF Init
<1>4. part = "sync" => SyncGood(syn) /\ SyncSide(syn)
  BY SyncInitGood DEF Init, SyncInit, SyncSide
<1>5. part = "pertosmart" => PsGood(ps)
  BY PsInitGood DEF Init
<1>6. part = "ccid" => CcGood(cc)
  BY CcInitGood DEF Init
<1>7. part = "kaan" => KnGood(kn)
  BY KnInitGood DEF Init
<1>8. part = "ctapi" => CaGood(ca)
  BY CaInitGood DEF Init
<1> QED
  BY <1>1, <1>2, <1>3, <1>4, <1>5, <1>6, <1>7, <1>8 DEF PartsInv

(* A behaviour stays with its part, and the part keeps its invariant. *)
LEMMA PartsNextInv == ASSUME PartsInv, [Next]_vars PROVE PartsInv'
<1>1. CASE part = "t0" /\ T0Next /\ UNCHANGED <<part, gbp, syn, ps, cc, kn, rp, at, ca>>
  <2>1. T0Good(t0') /\ T0Side(t0')
    BY <1>1, T0NextGood, T0SideNext DEF PartsInv
  <2> QED
    BY <1>1, <2>1 DEF PartsInv
<1>2. CASE part = "gbp" /\ GbpNext /\ UNCHANGED <<part, t0, syn, ps, cc, kn, rp, at, ca>>
  <2>1. GbpGood(gbp')
    BY <1>2, GbpNextGood DEF PartsInv
  <2> QED
    BY <1>2, <2>1 DEF PartsInv
<1>3. CASE part = "sync" /\ SyncNext /\ UNCHANGED <<part, t0, gbp, ps, cc, kn, rp, at, ca>>
  <2>1. SyncGood(syn') /\ SyncSide(syn')
    BY <1>3, SyncNextGood, SyncSideNext DEF PartsInv
  <2> QED
    BY <1>3, <2>1 DEF PartsInv
<1>4. CASE part = "pertosmart" /\ PsNext /\ UNCHANGED <<part, t0, gbp, syn, cc, kn, rp, at, ca>>
  <2>1. PsGood(ps')
    BY <1>4, PsNextGood DEF PartsInv
  <2> QED
    BY <1>4, <2>1 DEF PartsInv
<1>5. CASE part = "ccid" /\ CcNext /\ UNCHANGED <<part, t0, gbp, syn, ps, kn, rp, at, ca>>
  <2>1. CcGood(cc')
    BY <1>5, CcNextGood DEF PartsInv
  <2> QED
    BY <1>5, <2>1 DEF PartsInv
<1>6. CASE part = "kaan" /\ KnNext /\ UNCHANGED <<part, t0, gbp, syn, ps, cc, rp, at, ca>>
  <2>1. KnGood(kn')
    BY <1>6, KnNextGood DEF PartsInv
  <2> QED
    BY <1>6, <2>1 DEF PartsInv
<1>7. CASE part = "ctapi" /\ CaNext /\ UNCHANGED <<part, t0, gbp, syn, ps, cc, kn, rp, at>>
  <2>1. CaGood(ca')
    BY <1>7, CaNextGood DEF PartsInv
  <2> QED
    BY <1>7, <2>1 DEF PartsInv
<1>8. CASE part \in {"calls", "atr"} /\ part' = part
  BY <1>8 DEF PartsInv
<1>9. CASE UNCHANGED vars
  BY <1>9 DEF PartsInv, vars
<1> QED
  BY <1>1, <1>2, <1>3, <1>4, <1>5, <1>6, <1>7, <1>8, <1>9 DEF Next

(* The properties of the run follow, part by part. *)
LEMMA PartsSuffices ==
  ASSUME PartsInv
  PROVE  AnswerIsOwn /\ EndsAgree /\ MemoryKept /\ CardChangeKept /\ TerminalSound
<1>1. CASE part = "t0"
  BY <1>1, T0GoodSuffices DEF PartsInv, AnswerIsOwn, EndsAgree, MemoryKept, CardChangeKept, TerminalSound
<1>2. CASE part = "gbp"
  BY <1>2, GbpGoodSuffices DEF PartsInv, AnswerIsOwn, EndsAgree, MemoryKept, CardChangeKept, TerminalSound
<1>3. CASE part = "sync"
  BY <1>3, SyncGoodSuffices DEF PartsInv, AnswerIsOwn, EndsAgree, MemoryKept, CardChangeKept, TerminalSound
<1>4. CASE part = "pertosmart"
  BY <1>4, PsGoodSuffices DEF PartsInv, AnswerIsOwn, EndsAgree, MemoryKept, CardChangeKept, TerminalSound
<1>5. CASE part = "ccid"
  BY <1>5, CcGoodSuffices DEF PartsInv, AnswerIsOwn, EndsAgree, MemoryKept, CardChangeKept, TerminalSound
<1>6. CASE part = "kaan"
  BY <1>6, KnGoodSuffices DEF PartsInv, AnswerIsOwn, EndsAgree, MemoryKept, CardChangeKept, TerminalSound
<1>7. CASE part = "ctapi"
  BY <1>7, CaGoodSuffices DEF PartsInv, AnswerIsOwn, EndsAgree, MemoryKept, CardChangeKept, TerminalSound
<1>8. CASE part \in {"calls", "atr"}
  BY <1>8 DEF AnswerIsOwn, EndsAgree, MemoryKept, CardChangeKept, TerminalSound
<1> QED
  BY <1>1, <1>2, <1>3, <1>4, <1>5, <1>6, <1>7, <1>8 DEF PartsInv

LEMMA PartsInvariant == Spec => []PartsInv
<1>1. Init => PartsInv
  BY PartsInitInv
<1>2. PartsInv /\ [Next]_vars => PartsInv'
  BY PartsNextInv
<1> QED
  BY <1>1, <1>2, PTL DEF Spec

(* For any number of calls, bytes, faults and retries: t0_transceive() and
   gbp_transceive() that find the line clear return the answer to their own
   command, also when exchanges before them failed and left late answers that
   have been read since; an APDU of the PertoSmart readers never gets what was
   left of an earlier answer, though the 1030 may cut its own short; and
   ccid_command() takes no late answer for its own while fewer commands in a
   row fail than there are sequence numbers (CcAssumption). *)
THEOREM AnswersAreOwn == Spec => []AnswerIsOwn
<1>1. PartsInv => AnswerIsOwn
  BY PartsSuffices
<1> QED
  BY <1>1, PartsInvariant, PTL

(* A driver and what it drives agree on where they are after every path
   through resets, resyncs and protocol selection (t0_transceive, gbp_resync,
   ps_set_protocol, ccid_card_reset and ccid_open_usb, kaan_set_protocol). *)
THEOREM DriversAgree == Spec => []EndsAgree
<1>1. PartsInv => EndsAgree
  BY PartsSuffices
<1> QED
  BY <1>1, PartsInvariant, PTL

(* For every size of page, memory, chunk, command and answer: sync_write()
   returns 0 only when the card holds exactly the bytes asked for, over page
   ends and the end of the address space, unless a verifying read failed;
   ifd_sync_detect_icc() touches no byte but the first, whichever of its calls
   fail, and puts that back when none does.  t0_xcv() and kaan_read_binary() do
   write behind a buffer, and the theorem says how far: one SW2 behind le + 2
   bytes, and less than a block when more than a block that is no multiple of
   one was asked for. *)
THEOREM CardMemoryKept == Spec => []MemoryKept
<1>1. PartsInv => MemoryKept
  BY PartsSuffices
<1> QED
  BY <1>1, PartsInvariant, PTL

(* Where a change of cards goes, for any number of cards, notifications and
   sleeps.  ps_card_status() of the 1038 and ccid_card_status() report it unless
   a reset, or the status call for the other slot, has read the notification
   away; the 1030 reports a card that is gone, and may miss one that has been
   replaced; a Kaan that sleeps wakes for every change. *)
THEOREM CardChangesAccounted == Spec => []CardChangeKept
<1>1. PartsInv => CardChangeKept
  BY PartsSuffices
<1> QED
  BY <1>1, PartsInvariant, PTL

(* Every terminal CT_init() left in the list has the lock on its reader, and
   READ BINARY goes to ct_card_read_memory() only for the slot addressed and
   only if the last reset of it that succeeded found a synchronous card, after
   any calls of CT_init(), CT_data() and CT_close() and changes of cards. *)
THEOREM TerminalsAreSound == Spec => []TerminalSound
<1>1. PartsInv => TerminalSound
  BY PartsSuffices
<1> QED
  BY <1>1, PartsInvariant, PTL
=============================================================================
