-------------------------- MODULE Business_proofs --------------------------
(***************************************************************************)
(* Proofs about the other components of MCBusiness - registrars, affiliates, *)
(* the catalogue - and of the whole of it; then that the accounts of         *)
(* affiliates agree.                                                         *)
(***************************************************************************)
EXTENDS BusinessOffice_proofs, Sums

-----------------------------------------------------------------------------
(* Registrars: v1 tick, v2 tldDoc, v3 tldCache, v4 standard, v5 snapshot,   *)
(* v6 ask, v7 routing, v8 heldAt, v9 config, v10 saver, v11 bulk,           *)
(* v12 registered. Lookups, settings and bulk requests do not meet.         *)

LEMMA RegBounds == Ttl \in Nat /\ LastTick \in Nat /\ MaxItems \in Nat \ {0} /\ Nobody \notin Firsts /\ "absent" \in TldValues
BY RegistrarAssumption DEF Reg!RegistrarNulls, Reg!RegistrarBounds

LEMMA RegStays ==
    Reg!LookupsOK =>
        /\ v1 \in 0..LastTick /\ v2 \in TldValues /\ v4 \in Reg!Implemented /\ v3 \in [Firsts -> Reg!EntryDoc]
        /\ v5 \in [Firsts -> Reg!Implemented] /\ v6 \in [Seconds -> Reg!RequestDoc] /\ v7 \in Reg!RouteDoc
        /\ v8 \in [TldValues -> -1..LastTick] /\ v8[v2] = v1 /\ \A v \in TldValues : v8[v] <= v1
BY DEF Reg!LookupsOK

LEMMA RegInts ==
    Reg!LookupsOK =>
        /\ v1 \in Int /\ v1 >= 0 /\ \A v \in TldValues : v8[v] \in Int /\ v8[v] <= v1
        /\ \A p \in Firsts : v3[p].value \in TldValues /\ v3[p].until \in Int
        /\ \A q \in Seconds : v6[q].began \in 0..LastTick /\ v6[q].began \in Int
        /\ v7.by \in TldValues /\ v7.began \in Int
BY RegBounds, RegStays DEF Reg!EntryDoc, Reg!RequestDoc, Reg!RouteDoc

\* What the TLD document said stays said: only requests, caches and decisions change.
LEMMA RegKeeps ==
    ASSUME Reg!LookupsOK, UNCHANGED <<v1, v2, v8>>, v4' \in Reg!Implemented, v3' \in [Firsts -> Reg!EntryDoc],
           v5' \in [Firsts -> Reg!Implemented], v6' \in [Seconds -> Reg!RequestDoc], v7' \in Reg!RouteDoc,
           \A p \in Firsts : Reg!EntryOK(v3'[p]), \A q \in Seconds : Reg!RequestOK(v6'[q]), Reg!RoutedFresh'
    PROVE  Reg!LookupsOK'
<1>1. \A p \in Firsts : Reg!EntryOK(v3[p])'
    BY DEF Reg!EntryOK, Reg!HeldSince
<1>2. \A q \in Seconds : Reg!RequestOK(v6[q])'
    BY DEF Reg!RequestOK, Reg!HeldSince
<1> QED BY <1>1, <1>2, RegStays DEF Reg!LookupsOK, Reg!EntryDoc, Reg!RequestDoc, Reg!RouteDoc

\* The TLD document is said to hold, of more or of longer.
LEMMA RegHolds ==
    ASSUME Reg!LookupsOK, UNCHANGED <<v3, v4, v5, v7>>, v1' \in 0..LastTick, v1' >= v1, v2' \in TldValues,
           v8' \in [TldValues -> -1..LastTick], v8'[v2'] = v1', \A v \in TldValues : v8'[v] >= v8[v] /\ v8'[v] <= v1',
           v6' \in [Seconds -> Reg!RequestDoc],
           \A q \in Seconds : v6'[q] = v6[q] \/ (v6'[q].at = "forget" /\ v6'[q].on \in Firsts /\ v6'[q].began = 0)
    PROVE  Reg!LookupsOK'
<1>0. /\ \A v \in TldValues : v8[v] \in Int /\ v8'[v] \in Int
      /\ \A p \in Firsts : v3[p].value \in TldValues /\ v3[p].until \in Int
      /\ v1 \in Int /\ v1' \in Int /\ v1' >= 0 /\ Ttl \in Int
    BY RegInts, RegBounds
<1>1. ASSUME NEW p \in Firsts PROVE Reg!EntryOK(v3[p])'
    <2>1. Reg!EntryOK(v3[p])
        BY DEF Reg!LookupsOK
    <2>2. v3'[p] = v3[p] /\ v3[p].value \in TldValues
        BY RegInts
    <2> QED BY <1>0, <2>1, <2>2 DEF Reg!EntryOK, Reg!HeldSince
<1>2. ASSUME NEW q \in Seconds PROVE Reg!RequestOK(v6[q])'
    <2>1. Reg!RequestOK(v6[q]) /\ v6[q].began \in Int
        BY RegInts DEF Reg!LookupsOK
    <2>2. CASE v6'[q] = v6[q]
        <3>1. v6[q].at = "keep" => v6[q].value \in TldValues /\ v8'[v6[q].value] >= v6[q].began
            BY <1>0, <2>1 DEF Reg!RequestOK, Reg!HeldSince
        <3> QED BY <1>0, <2>1, <2>2, <3>1 DEF Reg!RequestOK, Reg!HeldSince
    <2>3. CASE v6'[q].at = "forget" /\ v6'[q].on \in Firsts /\ v6'[q].began = 0
        BY <1>0, <2>3 DEF Reg!RequestOK
    <2> QED BY <2>2, <2>3
<1>3. Reg!RoutedFresh'
    <2>1. Reg!RoutedFresh /\ v7.by \in TldValues /\ v7.began \in Int
        BY RegInts DEF Reg!LookupsOK
    <2> QED BY <1>0, <2>1 DEF Reg!RoutedFresh
<1> QED BY <1>1, <1>2, <1>3, RegStays DEF Reg!LookupsOK, Reg!EntryDoc, Reg!RequestDoc, Reg!RouteDoc

\* A decision by what was said so late, or later, is fresh.
LEMMA RegRouted ==
    ASSUME Reg!LookupsOK, NEW p \in Firsts, NEW value \in TldValues, NEW began \in 0..LastTick, Reg!Routed(p, value, began),
           v8[value] > began - Ttl \/ v8[value] >= began, UNCHANGED v8
    PROVE  v7' \in Reg!RouteDoc /\ Reg!RoutedFresh'
<1> DEFINE k == Reg!Route(value, v5[p])
<1>1. v7' = [key |-> k, by |-> value, began |-> began]
    BY DEF Reg!Routed
<1>2. k \in Reg!Implemented \cup {"refused", "none"}
    BY DEF Reg!Route
<1> HIDE DEF k
<1>3. v7'.by = value /\ v7'.began = began /\ v7' \in Reg!RouteDoc
    BY <1>1, <1>2 DEF Reg!RouteDoc
<1> QED BY <1>3 DEF Reg!RoutedFresh

LEMMA RegRequests ==
    /\ Reg!NoAsk \in Reg!RequestDoc /\ Reg!NoAsk.at = "idle" /\ Reg!NoAsk.began = 0
    /\ Reg!NoEntry \in Reg!EntryDoc /\ Reg!NoEntry.until = 0
<1>1. 0 \in 0..LastTick /\ 0 \in 0..LastTick + Ttl
    BY RegBounds
<1> QED BY <1>1, RegBounds DEF Reg!NoAsk, Reg!NoEntry, Reg!RequestDoc, Reg!EntryDoc

LEMMA RegRequest ==
    ASSUME NEW n \in Firsts, NEW a \in {"find", "forget", "reread"}, NEW b \in 0..LastTick
    PROVE  /\ [Reg!NoAsk EXCEPT !.at = a, !.on = n, !.began = b] \in Reg!RequestDoc
           /\ [Reg!NoAsk EXCEPT !.at = a, !.on = n, !.began = b].at = a
           /\ [Reg!NoAsk EXCEPT !.at = a, !.on = n, !.began = b].on = n
           /\ [Reg!NoAsk EXCEPT !.at = a, !.on = n, !.began = b].began = b
           /\ [Reg!NoAsk EXCEPT !.at = a, !.on = n] \in Reg!RequestDoc
           /\ [Reg!NoAsk EXCEPT !.at = a, !.on = n].at = a
           /\ [Reg!NoAsk EXCEPT !.at = a, !.on = n].on = n
           /\ [Reg!NoAsk EXCEPT !.at = a, !.on = n].began = 0
<1> DEFINE x == [Reg!NoAsk EXCEPT !.at = a, !.on = n, !.began = b]
           y == [Reg!NoAsk EXCEPT !.at = a, !.on = n]
<1>1. x \in Reg!RequestDoc /\ x.at = a /\ x.on = n /\ x.began = b
    BY RegRequests DEF Reg!RequestDoc
<1>2. y \in Reg!RequestDoc /\ y.at = a /\ y.on = n /\ y.began = 0
    BY RegRequests DEF Reg!RequestDoc
<1> QED BY <1>1, <1>2

\* A request goes on; it may leave an entry in a cache.
LEMMA RegAsks ==
    ASSUME Reg!LookupsOK, UNCHANGED <<v1, v2, v8>>, NEW q \in Seconds, NEW r \in Reg!RequestDoc, Reg!RequestOK(r),
           v6' = [v6 EXCEPT ![q] = r],
           \/ UNCHANGED v3
           \/ \E p \in Firsts, e \in Reg!EntryDoc : Reg!EntryOK(e) /\ v3' = [v3 EXCEPT ![p] = e],
           v4' \in Reg!Implemented, v5' \in [Firsts -> Reg!Implemented], v7' \in Reg!RouteDoc, Reg!RoutedFresh'
    PROVE  Reg!LookupsOK'
<1>1. v6' \in [Seconds -> Reg!RequestDoc] /\ \A a \in Seconds : Reg!RequestOK(v6'[a])
    BY RegStays DEF Reg!LookupsOK
<1>2. v3' \in [Firsts -> Reg!EntryDoc] /\ \A p \in Firsts : Reg!EntryOK(v3'[p])
    BY RegStays DEF Reg!LookupsOK
<1> QED BY <1>1, <1>2, RegKeeps

LEMMA RegFresh == Reg!LookupsOK /\ UNCHANGED <<v7, v8>> => v7' \in Reg!RouteDoc /\ Reg!RoutedFresh'
BY DEF Reg!LookupsOK, Reg!RoutedFresh

LEMMA RegLooks ==
    ASSUME Reg!LookupsOK, NEW q \in Seconds, NEW p \in Firsts, Reg!LookUpCached(q, p) \/ Reg!LookUp(q, p) \/ Reg!ShowStandard(q, p)
                                                               \/ Reg!SetStandard(q, p)
    PROVE  Reg!LookupsOK'
<1>1. CASE Reg!LookUpCached(q, p)
    <2>1. UNCHANGED <<v1, v2, v8>> /\ UNCHANGED <<v3, v4, v5, v6>> /\ v3[p].until > v1 /\ Reg!Routed(p, v3[p].value, v1)
        BY <1>1 DEF Reg!LookUpCached, Reg!Cached
    <2>2. v3[p].value \in TldValues /\ v8[v3[p].value] >= v3[p].until - Ttl
        BY <2>1, RegInts DEF Reg!LookupsOK, Reg!EntryOK, Reg!HeldSince
    <2>3. v8[v3[p].value] > v1 - Ttl
        BY <2>1, <2>2, RegInts, RegBounds
    <2>4. v7' \in Reg!RouteDoc /\ Reg!RoutedFresh'
        BY <2>1, <2>2, <2>3, RegStays, RegRouted
    <2> QED BY <2>1, <2>4, RegStays, RegKeeps DEF Reg!LookupsOK
<1>2. CASE ~Reg!LookUpCached(q, p)
    <2>1. 0 \in 0..LastTick /\ v1 \in 0..LastTick /\ v1 \in Int /\ v1 >= 0
        BY RegStays, RegInts, RegBounds
    <2>2. PICK r \in Reg!RequestDoc : /\ v6' = [v6 EXCEPT ![q] = r] /\ r.at \in {"find", "reread"} /\ r.on = p
                                      /\ r.began <= v1
        <3>1. CASE Reg!LookUp(q, p)
            <4> DEFINE r == [Reg!NoAsk EXCEPT !.at = "find", !.on = p, !.began = v1]
            <4>1. v6' = [v6 EXCEPT ![q] = r]
                BY <3>1 DEF Reg!LookUp
            <4>2. r \in Reg!RequestDoc /\ r.at = "find" /\ r.on = p /\ r.began = v1
                BY <2>1, RegRequests DEF Reg!RequestDoc
            <4> HIDE DEF r
            <4>3. r.at \in {"find", "reread"} /\ r.began <= v1
                BY <2>1, <4>2
            <4> QED BY <4>1, <4>2, <4>3
        <3>2. CASE ~Reg!LookUp(q, p)
            <4> DEFINE r == [Reg!NoAsk EXCEPT !.at = "reread", !.on = p]
            <4>1. v6' = [v6 EXCEPT ![q] = r]
                BY <1>2, <3>2 DEF Reg!ShowStandard, Reg!SetStandard
            <4>2. r \in Reg!RequestDoc /\ r.at = "reread" /\ r.on = p /\ r.began = 0
                BY <2>1, RegRequest
            <4> HIDE DEF r
            <4> QED BY <2>1, <4>1, <4>2
        <3> QED BY <3>1, <3>2
    <2>3. UNCHANGED <<v1, v2, v8>> /\ UNCHANGED v3 /\ v4' \in Reg!Implemented /\ UNCHANGED v5 /\ UNCHANGED v7
        BY <1>2, RegStays DEF Reg!LookUp, Reg!ShowStandard, Reg!SetStandard
    <2>4. Reg!RequestOK(r)
        BY <2>1, <2>2 DEF Reg!RequestOK
    <2> QED BY <2>2, <2>3, <2>4, RegStays, RegFresh, RegAsks
<1> QED BY <1>1, <1>2

LEMMA RegReads ==
    ASSUME Reg!LookupsOK, NEW q \in Seconds, Reg!FindTld(q) \/ Reg!ReadStandard(q)
    PROVE  Reg!LookupsOK'
<1> DEFINE m == v6[q]
<1>0. m \in Reg!RequestDoc /\ Reg!RequestOK(m) /\ m.at # "idle" /\ m.on \in Firsts /\ m.began \in 0..LastTick /\ m.began <= v1
    BY RegStays, RegInts DEF Reg!LookupsOK, Reg!RequestOK, Reg!FindTld, Reg!ReadStandard
<1>1. UNCHANGED <<v1, v2, v8>> /\ UNCHANGED v3 /\ UNCHANGED v4 /\ UNCHANGED v5
    BY DEF Reg!FindTld, Reg!ReadStandard
<1>2. CASE Reg!FindTld(q) /\ v2 = "absent"
    <2>1. v6' = [v6 EXCEPT ![q] = Reg!NoAsk] /\ Reg!Routed(m.on, "absent", m.began)
        BY <1>2 DEF Reg!FindTld
    <2>2. v8["absent"] >= m.began
        BY <1>0, <1>2, RegStays
    <2>3. v7' \in Reg!RouteDoc /\ Reg!RoutedFresh'
        BY <1>0, <1>1, <2>1, <2>2, RegRouted, RegBounds
    <2>4. Reg!RequestOK(Reg!NoAsk)
        BY RegRequests, RegInts DEF Reg!RequestOK
    <2> QED BY <1>1, <2>1, <2>3, <2>4, RegRequests, RegStays, RegAsks
<1>3. CASE Reg!FindTld(q) /\ v2 # "absent"
    <2> DEFINE r == [m EXCEPT !.at = "keep", !.value = v2]
    <2>1. v6' = [v6 EXCEPT ![q] = r] /\ UNCHANGED v7
        BY <1>3 DEF Reg!FindTld
    <2>2. r \in Reg!RequestDoc /\ r.at = "keep" /\ r.value = v2 /\ r.on = m.on /\ r.began = m.began
        BY <1>0, RegStays DEF Reg!RequestDoc
    <2> HIDE DEF r
    <2>3. Reg!RequestOK(r)
        BY <1>0, <2>2, RegStays DEF Reg!RequestOK, Reg!HeldSince
    <2> QED BY <1>1, <2>1, <2>2, <2>3, RegStays, RegFresh, RegAsks
<1>4. CASE Reg!ReadStandard(q)
    <2> DEFINE r == [m EXCEPT !.at = "remember", !.value = v4]
    <2>1. v6' = [v6 EXCEPT ![q] = r] /\ UNCHANGED v7
        BY <1>4 DEF Reg!ReadStandard
    <2>2. r \in Reg!RequestDoc /\ r.at = "remember" /\ r.value = v4 /\ r.on = m.on /\ r.began = m.began
        BY <1>0, RegStays DEF Reg!RequestDoc
    <2> HIDE DEF r
    <2>3. Reg!RequestOK(r)
        BY <1>0, <2>2, RegStays DEF Reg!RequestOK
    <2> QED BY <1>1, <2>1, <2>2, <2>3, RegStays, RegFresh, RegAsks
<1> QED BY <1>2, <1>3, <1>4

LEMMA RegLeaves ==
    ASSUME Reg!LookupsOK, NEW q \in Seconds, Reg!KeepTld(q) \/ Reg!ForgetTld(q) \/ Reg!RememberStandard(q)
    PROVE  Reg!LookupsOK'
<1> DEFINE m == v6[q]
<1>0. m \in Reg!RequestDoc /\ Reg!RequestOK(m) /\ m.on \in Firsts /\ m.began \in 0..LastTick /\ m.began \in Int /\ m.began <= v1
    BY RegStays, RegInts DEF Reg!LookupsOK, Reg!RequestOK, Reg!KeepTld, Reg!ForgetTld, Reg!RememberStandard
<1>1. UNCHANGED <<v1, v2, v8>> /\ UNCHANGED v4 /\ v6' = [v6 EXCEPT ![q] = Reg!NoAsk]
    BY DEF Reg!KeepTld, Reg!ForgetTld, Reg!RememberStandard
<1>2. Reg!RequestOK(Reg!NoAsk) /\ Reg!NoAsk \in Reg!RequestDoc
    BY RegRequests, RegInts DEF Reg!RequestOK
<1>3. CASE Reg!KeepTld(q)
    <2>1. m.value \in TldValues /\ v8[m.value] >= m.began
        BY <1>0, <1>3 DEF Reg!RequestOK, Reg!HeldSince, Reg!KeepTld
    <2> DEFINE e == [value |-> m.value, until |-> m.began + Ttl]
    <2>2. v3' = [v3 EXCEPT ![m.on] = e] /\ Reg!Routed(m.on, m.value, m.began) /\ UNCHANGED v5
        BY <1>3 DEF Reg!KeepTld, Reg!Until
    <2>3. e \in Reg!EntryDoc
        <3>1. m.began + Ttl \in 0..LastTick + Ttl
            BY <1>0, RegBounds
        <3> QED BY <2>1, <3>1 DEF Reg!EntryDoc
    <2>4. Reg!EntryOK(e)
        <3>1. v8[m.value] \in Int
            BY <2>1, RegInts
        <3> QED BY <1>0, <2>1, <3>1, RegBounds DEF Reg!EntryOK, Reg!HeldSince
    <2> HIDE DEF e
    <2>5. v7' \in Reg!RouteDoc /\ Reg!RoutedFresh'
        BY <1>0, <1>1, <2>1, <2>2, RegRouted
    <2> QED BY <1>0, <1>1, <1>2, <2>2, <2>3, <2>4, <2>5, RegStays, RegAsks
<1>4. CASE Reg!ForgetTld(q)
    <2>1. v3' = [v3 EXCEPT ![m.on] = Reg!NoEntry] /\ UNCHANGED v5 /\ UNCHANGED v7
        BY <1>4 DEF Reg!ForgetTld
    <2>2. Reg!NoEntry \in Reg!EntryDoc /\ Reg!EntryOK(Reg!NoEntry)
        BY RegRequests DEF Reg!EntryOK
    <2> QED BY <1>0, <1>1, <1>2, <2>1, <2>2, RegStays, RegFresh, RegAsks
<1>5. CASE Reg!RememberStandard(q)
    <2>1. UNCHANGED v3 /\ UNCHANGED v7 /\ v5' = [v5 EXCEPT ![m.on] = m.value] /\ m.value \in Reg!Implemented
        BY <1>0, <1>5 DEF Reg!RememberStandard, Reg!RequestOK
    <2>2. v5' \in [Firsts -> Reg!Implemented]
        BY <2>1, RegStays
    <2> QED BY <1>1, <1>2, <2>1, <2>2, RegStays, RegFresh, RegAsks
<1> QED BY <1>3, <1>4, <1>5

\* The TLD document is written, or another tick finds it as it is.
LEMMA RegWrites ==
    ASSUME Reg!LookupsOK,
           \/ \E q \in Seconds, p \in Firsts : Reg!CreateTLD(q, p) \/ Reg!UpdateTLD(q, p) \/ Reg!DeleteTLD(q, p)
           \/ Reg!Tick
    PROVE  Reg!LookupsOK'
<1>1. ASSUME NEW q \in Seconds, NEW p \in Firsts, NEW value \in TldValues, Reg!TldWritten(q, p, value) PROVE Reg!LookupsOK'
    <2> DEFINE r == [Reg!NoAsk EXCEPT !.at = "forget", !.on = p]
    <2>0. r \in Reg!RequestDoc /\ r.at = "forget" /\ r.on = p /\ r.began = 0
        <3>1. 0 \in 0..LastTick
            BY RegBounds
        <3> QED BY <3>1, RegRequest
    <2>1. /\ v2' = value /\ v8' = [v8 EXCEPT ![value] = v1] /\ v6' = [v6 EXCEPT ![q] = r] /\ UNCHANGED <<v3, v4, v5, v7>>
          /\ v1' = v1
        BY <1>1 DEF Reg!TldWritten
    <2> HIDE DEF r
    <2>3. v6' \in [Seconds -> Reg!RequestDoc]
          /\ \A a \in Seconds : v6'[a] = v6[a] \/ (v6'[a].at = "forget" /\ v6'[a].on \in Firsts /\ v6'[a].began = 0)
        BY <2>0, <2>1, RegStays
    <2>4. v1 \in -1..LastTick /\ v1 \in Int
        BY RegStays, RegBounds
    <2>5. v8' \in [TldValues -> -1..LastTick] /\ v8'[value] = v1 /\ \A v \in TldValues : v8'[v] = v8[v] \/ v8'[v] = v1
        BY <2>1, <2>4, RegStays
    <2>6. \A v \in TldValues : v8'[v] >= v8[v] /\ v8'[v] <= v1
        BY <2>4, <2>5, RegInts
    <2> QED BY <2>1, <2>3, <2>4, <2>5, <2>6, RegStays, RegHolds
<1>2. CASE Reg!Tick
    <2>0. PICK t \in 0..LastTick : t = v1 + 1
        BY <1>2, RegStays, RegBounds DEF Reg!Tick
    <2>1. v1' = t /\ v8' = [v8 EXCEPT ![v2] = t] /\ UNCHANGED <<v3, v4, v5, v7>> /\ UNCHANGED v2 /\ UNCHANGED v6
        BY <1>2, <2>0 DEF Reg!Tick
    <2>2. t \in -1..LastTick /\ t \in Int
        BY RegBounds
    <2>3. v8' \in [TldValues -> -1..LastTick] /\ v8'[v2] = t /\ \A v \in TldValues : v8'[v] = v8[v] \/ v8'[v] = t
        BY <2>1, <2>2, RegStays
    <2>4. \A v \in TldValues : v8'[v] >= v8[v] /\ v8'[v] <= t
        BY <2>0, <2>2, <2>3, RegInts
    <2> QED BY <2>0, <2>1, <2>2, <2>3, <2>4, RegStays, RegInts, RegHolds
<1> QED BY <1>1, <1>2, RegBounds DEF Reg!CreateTLD, Reg!UpdateTLD, Reg!DeleteTLD

LEMMA RegRestarts ==
    ASSUME Reg!LookupsOK, NEW p \in Firsts, Reg!RestartProcess(p)
    PROVE  Reg!LookupsOK'
<1>1. /\ UNCHANGED <<v1, v2, v8>> /\ UNCHANGED v4 /\ UNCHANGED v7 /\ v3' = [v3 EXCEPT ![p] = Reg!NoEntry]
      /\ v5' = [v5 EXCEPT ![p] = v4] /\ v6' = [q \in Seconds |-> IF v6[q].on = p THEN Reg!NoAsk ELSE v6[q]]
    BY DEF Reg!RestartProcess
<1>2. Reg!RequestOK(Reg!NoAsk) /\ Reg!NoAsk \in Reg!RequestDoc
    BY RegRequests, RegInts DEF Reg!RequestOK
<1>3. v6' \in [Seconds -> Reg!RequestDoc] /\ \A q \in Seconds : Reg!RequestOK(v6'[q])
    BY <1>1, <1>2, RegStays DEF Reg!LookupsOK
<1>4. Reg!NoEntry \in Reg!EntryDoc /\ Reg!EntryOK(Reg!NoEntry)
    BY RegRequests DEF Reg!EntryOK
<1>5. v3' \in [Firsts -> Reg!EntryDoc] /\ \A a \in Firsts : Reg!EntryOK(v3'[a])
    BY <1>1, <1>4, RegStays DEF Reg!LookupsOK
<1> QED BY <1>1, <1>3, <1>5, RegStays, RegFresh, RegKeeps

LEMMA RegSettings ==
    ASSUME Reg!ConfigOK, NEW s \in Thirds, Reg!MergeConfig(s) \/ Reg!WriteConfig(s)
    PROVE  Reg!ConfigOK'
<1> DEFINE Texts == {"unset", "blank", "given"}
           Saves == [at : {"idle", "write"}, secret : BOOLEAN, text : Texts, enabled : BOOLEAN]
<1>0. /\ v9 \in Reg!Settings /\ v10 \in [Thirds -> Saves] /\ Reg!NoSave \in Saves
      /\ v9.secret \in BOOLEAN /\ v9.text \in Texts /\ v9.enabled \in BOOLEAN
    BY DEF Reg!ConfigOK, Reg!NoSave, Reg!Settings
<1>1. CASE Reg!MergeConfig(s)
    <2>1. PICK secret \in {"none", "blank", "null", "given"}, text \in {"none", "blank", "null", "given"},
               enabled \in {v9.enabled, TRUE, FALSE} :
             v10' = [v10 EXCEPT ![s] = [at |-> "write", secret |-> Reg!SecretAfter(secret), text |-> Reg!TextAfter(text),
                                        enabled |-> enabled]]
        BY <1>1 DEF Reg!MergeConfig
    <2>2. Reg!SecretAfter(secret) \in BOOLEAN /\ Reg!TextAfter(text) \in Texts /\ enabled \in BOOLEAN
        BY <1>0 DEF Reg!SecretAfter, Reg!TextAfter
    <2>3. [at |-> "write", secret |-> Reg!SecretAfter(secret), text |-> Reg!TextAfter(text), enabled |-> enabled] \in Saves
        BY <2>2
    <2>4. UNCHANGED v9
        BY <1>1 DEF Reg!MergeConfig
    <2>5. v10' \in [Thirds -> Saves]
        BY <1>0, <2>1, <2>3
    <2> QED BY <1>0, <2>4, <2>5 DEF Reg!ConfigOK, Reg!Settings
<1>2. CASE Reg!WriteConfig(s)
    <2>1. /\ v9' = [secret |-> v10[s].secret, text |-> v10[s].text, enabled |-> v10[s].enabled]
          /\ v10' = [v10 EXCEPT ![s] = Reg!NoSave] /\ v10[s] \in Saves
        BY <1>0, <1>2 DEF Reg!WriteConfig
    <2>2. v9' \in Reg!Settings
        BY <2>1 DEF Reg!Settings
    <2>3. v10' \in [Thirds -> Saves]
        BY <1>0, <2>1
    <2> QED BY <2>2, <2>3 DEF Reg!ConfigOK, Reg!Settings
<1> QED BY <1>1, <1>2

-----------------------------------------------------------------------------

BulkItems == UNION {[1..n -> Thirds \X {1, 2}] : n \in 0..MaxItems}
BulkAnswers == UNION {[1..n -> {"none", "ok", "failed"}] : n \in 0..MaxItems}
Holders == Reg!Implemented \cup {"none"}

LEMMA RegBulkStays ==
    Reg!BulkOK => /\ v11 \in Reg!BulkDoc /\ v12 \in [Thirds -> Holders] /\ v11.items \in BulkItems /\ v11.out \in BulkAnswers
                  /\ v11.todo \in SUBSET (1..MaxItems) /\ v11.keys \in [Thirds -> Reg!Implemented]
                  /\ DOMAIN v11.items = DOMAIN v11.out /\ v11.todo \subseteq DOMAIN v11.out
                  /\ \A i \in DOMAIN v11.out : Reg!NameOf(i) \in Thirds /\ Reg!KeyOf(i) \in Reg!Implemented
<1> SUFFICES ASSUME Reg!BulkOK
             PROVE  /\ v11 \in Reg!BulkDoc /\ v12 \in [Thirds -> Holders] /\ v11.items \in BulkItems /\ v11.out \in BulkAnswers
                    /\ v11.todo \in SUBSET (1..MaxItems) /\ v11.keys \in [Thirds -> Reg!Implemented]
                    /\ DOMAIN v11.items = DOMAIN v11.out /\ v11.todo \subseteq DOMAIN v11.out
                    /\ \A i \in DOMAIN v11.out : Reg!NameOf(i) \in Thirds /\ Reg!KeyOf(i) \in Reg!Implemented
    OBVIOUS
<1>1. /\ v11 \in Reg!BulkDoc /\ v12 \in [Thirds -> Holders] /\ v11.items \in BulkItems /\ v11.out \in BulkAnswers
      /\ v11.todo \in SUBSET (1..MaxItems) /\ v11.keys \in [Thirds -> Reg!Implemented]
    BY DEF Reg!BulkOK, Reg!BulkDoc, Holders, BulkItems, BulkAnswers
<1>2. DOMAIN v11.items = DOMAIN v11.out /\ v11.todo \subseteq DOMAIN v11.out
    BY DEF Reg!BulkOK
<1>3. \A i \in DOMAIN v11.items : v11.items[i] \in Thirds \X {1, 2}
    BY <1>1 DEF BulkItems
<1>4. \A i \in DOMAIN v11.out : Reg!NameOf(i) \in Thirds
    BY <1>2, <1>3 DEF Reg!NameOf
<1> QED BY <1>1, <1>2, <1>4 DEF Reg!KeyOf

LEMMA RegNothing ==
    /\ Reg!NoBulk \in Reg!BulkDoc /\ Reg!NoBulk.at = "idle" /\ Reg!NoBulk.items = << >> /\ Reg!NoBulk.out = << >>
    /\ Reg!NoBulk.todo = {}
<1>1. << >> \in BulkItems /\ << >> \in BulkAnswers
    <2>1. 0 \in 0..MaxItems /\ << >> \in [1..0 -> Thirds \X {1, 2}] /\ << >> \in [1..0 -> {"none", "ok", "failed"}]
        BY RegBounds
    <2> QED BY <2>1 DEF BulkItems, BulkAnswers
<1>2. [n \in Thirds |-> "dynadot"] \in [Thirds -> Reg!Implemented]
      /\ [n \in Thirds |-> "unknown"] \in [Thirds -> {"yes", "no", "unknown"}]
    BY DEF Reg!Implemented
<1> QED BY <1>1, <1>2 DEF Reg!NoBulk, Reg!BulkDoc, BulkItems, BulkAnswers

\* A new search or request: nothing is answered yet.
LEMMA RegBegins ==
    ASSUME Reg!BulkOK, Reg!SearchDomains \/ Reg!StartBulk \/ Reg!RegisterDomain
    PROVE  Reg!BulkOK'
<1>0. UNCHANGED v12
    BY DEF Reg!SearchDomains, Reg!StartBulk, Reg!RegisterDomain, Reg!Started
<1>1. CASE Reg!SearchDomains
    <2>1. PICK says \in [Thirds -> {"yes", "no", "unknown"}] : v11' = [Reg!NoBulk EXCEPT !.found = says]
        BY <1>1 DEF Reg!SearchDomains
    <2>2. /\ v11' \in Reg!BulkDoc /\ v11'.at = "idle" /\ v11'.items = << >> /\ v11'.out = << >> /\ v11'.todo = {}
        BY <2>1, RegNothing DEF Reg!BulkDoc
    <2> QED BY <1>0, <2>2, RegBulkStays DEF Reg!BulkOK, Reg!BulkDoc, Holders
<1>2. ASSUME NEW n \in 1..MaxItems, NEW a \in {"group", "single"}, a = "single" => n = 1, Reg!Started(a, n)
      PROVE  Reg!BulkOK'
    <2>1. PICK items \in [1..n -> Thirds \X {1, 2}], keys \in [Thirds -> Reg!Implemented] :
             v11' = [Reg!NoBulk EXCEPT !.at = a, !.items = items, !.keys = keys, !.todo = 1..n,
                                       !.key = keys[items[1][1]], !.out = [i \in 1..n |-> "none"]]
        BY <1>2 DEF Reg!Started
    <2> DEFINE out == [i \in 1..n |-> "none"]
               k == keys[items[1][1]]
    <2>2. 1 \in 1..n /\ 1..n \subseteq 1..MaxItems /\ n \in 0..MaxItems
        BY RegBounds
    <2>3. items \in BulkItems /\ out \in BulkAnswers /\ k \in Reg!Implemented /\ DOMAIN items = 1..n /\ DOMAIN out = 1..n
        BY <2>2 DEF BulkItems, BulkAnswers
    <2>4. \A i \in 1..n : out[i] = "none"
        OBVIOUS
    <2>5. v11' = [Reg!NoBulk EXCEPT !.at = a, !.items = items, !.keys = keys, !.todo = 1..n, !.key = k, !.out = out]
        BY <2>1
    <2> HIDE DEF out
    <2>6. k = keys[items[1][1]]
        OBVIOUS
    <2> HIDE DEF k
    <2>7. /\ v11' \in Reg!BulkDoc /\ v11'.at = a /\ v11'.items = items /\ v11'.keys = keys /\ v11'.todo = 1..n
          /\ v11'.key = k /\ v11'.out = out
        BY <2>2, <2>3, <2>5, RegNothing DEF Reg!BulkDoc, BulkItems, BulkAnswers
    <2>8. a = "single" => Reg!Group(k)' # {}
        <3> SUFFICES ASSUME a = "single" PROVE 1 \in Reg!Group(k)'
            OBVIOUS
        <3> QED BY <2>2, <2>6, <2>7 DEF Reg!Group, Reg!KeyOf, Reg!NameOf
    <2> QED BY <1>0, <2>3, <2>4, <2>7, <2>8, RegBulkStays DEF Reg!BulkOK, Holders
<1>3. 1 \in 1..MaxItems
    BY RegBounds
<1>4. CASE Reg!RegisterDomain
    BY <1>2, <1>3, <1>4 DEF Reg!RegisterDomain
<1>5. CASE Reg!StartBulk
    BY <1>2, <1>5 DEF Reg!StartBulk
<1> QED BY <1>1, <1>4, <1>5

LEMMA RegTakes ==
    ASSUME Reg!BulkOK, Reg!TakeGroup \/ Reg!EndBulk
    PROVE  Reg!BulkOK'
<1>0. UNCHANGED v12 /\ v11.at = "group"
    BY DEF Reg!TakeGroup, Reg!EndBulk
<1>1. CASE Reg!TakeGroup
    <2>1. PICK i \in v11.todo : \E a \in {"bulk", "single"} : v11' = [v11 EXCEPT !.key = Reg!KeyOf(i), !.at = a]
        BY <1>1 DEF Reg!TakeGroup, Reg!First
    <2>2. PICK a \in {"bulk", "single"}, k \in Reg!Implemented : k = Reg!KeyOf(i) /\ v11' = [v11 EXCEPT !.key = k, !.at = a]
        BY <2>1, RegBulkStays
    <2>3. /\ v11' \in Reg!BulkDoc /\ v11'.at = a /\ v11'.items = v11.items /\ v11'.keys = v11.keys /\ v11'.todo = v11.todo
          /\ v11'.key = k /\ v11'.out = v11.out
        BY <2>2, RegBulkStays DEF Reg!BulkDoc
    <2>4. i \in Reg!Group(k)'
        BY <2>2, <2>3 DEF Reg!Group, Reg!KeyOf, Reg!NameOf
    <2> QED BY <1>0, <2>3, <2>4 DEF Reg!BulkOK, Reg!NameOf, Reg!KeyOf
<1>2. CASE Reg!EndBulk
    <2>1. v11' = [v11 EXCEPT !.at = "answered"] /\ v11.todo = {}
        BY <1>2 DEF Reg!EndBulk
    <2>2. /\ v11' \in Reg!BulkDoc /\ v11'.at = "answered" /\ v11'.items = v11.items /\ v11'.keys = v11.keys
          /\ v11'.todo = v11.todo /\ v11'.out = v11.out
        BY <2>1, RegBulkStays DEF Reg!BulkDoc
    <2> QED BY <1>0, <2>1, <2>2 DEF Reg!BulkOK, Reg!NameOf, Reg!KeyOf
<1> QED BY <1>1, <1>2

\* An answer takes its rows' places, and leaves the others as they were.
LEMMA RegReported ==
    ASSUME Reg!BulkOK, NEW G \in SUBSET v11.todo, NEW rows \in [G -> {"ok", "failed"}]
    PROVE  /\ Reg!Reported(G, rows) \in BulkAnswers /\ DOMAIN Reg!Reported(G, rows) = DOMAIN v11.out
           /\ \A i \in DOMAIN v11.out : Reg!Reported(G, rows)[i] = IF i \in G THEN rows[i] ELSE v11.out[i]
<1>1. \A i \in G : (\E j \in G : j = i) /\ (CHOOSE j \in G : j = i) = i
    OBVIOUS
<1>2. \A i \in DOMAIN v11.out : Reg!Reported(G, rows)[i] = IF i \in G THEN rows[i] ELSE v11.out[i]
    BY <1>1 DEF Reg!Reported, Reg!Place
<1>3. PICK n \in 0..MaxItems : v11.out \in [1..n -> {"none", "ok", "failed"}]
    BY RegBulkStays DEF BulkAnswers
<1>4. Reg!Reported(G, rows) \in [1..n -> {"none", "ok", "failed"}]
    <2>1. Reg!Reported(G, rows) = [i \in 1..n |-> Reg!Reported(G, rows)[i]]
        BY <1>3 DEF Reg!Reported
    <2>2. \A i \in 1..n : Reg!Reported(G, rows)[i] \in {"none", "ok", "failed"}
        BY <1>2, <1>3
    <2> QED BY <2>1, <2>2
<1>5. DOMAIN Reg!Reported(G, rows) = DOMAIN v11.out
    BY <1>3, <1>4
<1> QED BY <1>2, <1>4, <1>5 DEF BulkAnswers

\* A call registers what nobody holds.
LEMMA RegObtained ==
    ASSUME Reg!BulkOK, NEW S, NEW k \in Reg!Implemented, \A n \in S : n \in Thirds /\ v12[n] = "none", Reg!Obtained(S, k)
    PROVE  /\ v12' \in [Thirds -> Holders] /\ \A n \in S : v12'[n] = k
           /\ \A n \in Thirds : v12[n] # "none" => v12'[n] = v12[n]
BY RegBulkStays DEF Reg!Obtained, Holders

\* A call is answered, and what it calls registered is; or it throws.
LEMMA RegAnswers ==
    ASSUME Reg!BulkOK, NEW G \in SUBSET v11.todo, NEW rows \in [G -> {"ok", "failed"}], NEW a \in {"group", "single"},
           v12' \in [Thirds -> Holders], \A n \in Thirds : v12[n] # "none" => v12'[n] = v12[n],
           \A i \in G : rows[i] = "ok" => v12'[Reg!NameOf(i)] = Reg!KeyOf(i),
           a = "single" => Reg!Group(v11.key) \ G # {} /\ v11.key \in Reg!Implemented,
           v11' = [v11 EXCEPT !.at = a, !.todo = v11.todo \ G, !.out = Reg!Reported(G, rows)]
    PROVE  Reg!BulkOK'
<1> DEFINE out == Reg!Reported(G, rows)
           todo == v11.todo \ G
<1>1. /\ out \in BulkAnswers /\ DOMAIN out = DOMAIN v11.out
      /\ \A i \in DOMAIN v11.out : out[i] = IF i \in G THEN rows[i] ELSE v11.out[i]
    BY RegReported
<1>2. todo \in SUBSET (1..MaxItems) /\ todo \subseteq DOMAIN v11.out
    BY RegBulkStays
<1>3. v11' = [v11 EXCEPT !.at = a, !.todo = todo, !.out = out]
    OBVIOUS
<1>4. \A i \in DOMAIN v11.out : i \notin todo => i \in G \/ i \notin v11.todo
    OBVIOUS
<1>5. Reg!Group(v11.key) \ G = {i \in todo : Reg!KeyOf(i) = v11.key}
    BY DEF Reg!Group
<1> HIDE DEF out, todo
<1>6. /\ v11' \in Reg!BulkDoc /\ v11'.at = a /\ v11'.items = v11.items /\ v11'.keys = v11.keys
      /\ v11'.todo = todo /\ v11'.key = v11.key /\ v11'.out = out
    BY <1>1, <1>2, <1>3, RegBulkStays DEF Reg!BulkDoc, BulkAnswers
<1>7. \A i : Reg!NameOf(i)' = Reg!NameOf(i) /\ Reg!KeyOf(i)' = Reg!KeyOf(i)
    BY <1>6 DEF Reg!NameOf, Reg!KeyOf
<1>8. a = "single" => Reg!Group(v11.key)' # {}
    <2> SUFFICES ASSUME a = "single" PROVE Reg!Group(v11.key)' # {}
        OBVIOUS
    <2>1. PICK i \in todo : Reg!KeyOf(i) = v11.key
        BY <1>5
    <2>2. Reg!KeyOf(i)' = v11'.key /\ i \in v11'.todo
        BY <1>6, <1>7, <2>1
    <2> QED BY <2>2 DEF Reg!Group
<1>9. \A i \in DOMAIN out : /\ i \notin todo => out[i] # "none"
                            /\ out[i] = "ok" => v12'[Reg!NameOf(i)] = Reg!KeyOf(i)
    <2> SUFFICES ASSUME NEW i \in DOMAIN out
                 PROVE  /\ i \notin todo => out[i] # "none"
                        /\ out[i] = "ok" => v12'[Reg!NameOf(i)] = Reg!KeyOf(i)
        OBVIOUS
    <2>1. i \in DOMAIN v11.out /\ Reg!NameOf(i) \in Thirds /\ Reg!KeyOf(i) \in Reg!Implemented
        BY <1>1, RegBulkStays
    <2>2. CASE i \in G
        <3>1. out[i] = rows[i] /\ rows[i] \in {"ok", "failed"}
            BY <1>1, <2>1, <2>2
        <3> QED BY <2>2, <3>1
    <2>3. CASE i \notin G
        <3>1. out[i] = v11.out[i]
            BY <1>1, <2>1, <2>3
        <3>2. v11.out[i] = "ok" => v12[Reg!NameOf(i)] = Reg!KeyOf(i)
            BY <2>1 DEF Reg!BulkOK
        <3>3. i \notin todo => v11.out[i] # "none"
            BY <1>4, <2>1, <2>3 DEF Reg!BulkOK
        <3>4. "none" \notin Reg!Implemented
            BY DEF Reg!Implemented
        <3> QED BY <2>1, <3>1, <3>2, <3>3, <3>4
    <2> QED BY <2>2, <2>3
<1> QED BY <1>1, <1>2, <1>6, <1>7, <1>8, <1>9, RegBulkStays DEF Reg!BulkOK, Holders

LEMMA RegThrows ==
    ASSUME Reg!BulkOK, Reg!Thrown, v12' \in [Thirds -> Holders], \A n \in Thirds : v12[n] # "none" => v12'[n] = v12[n]
    PROVE  Reg!BulkOK'
<1>1. v11' = [v11 EXCEPT !.at = "thrown"]
    BY DEF Reg!Thrown
<1>2. /\ v11' \in Reg!BulkDoc /\ v11'.at = "thrown" /\ v11'.items = v11.items /\ v11'.keys = v11.keys
      /\ v11'.todo = v11.todo /\ v11'.out = v11.out
    BY <1>1, RegBulkStays DEF Reg!BulkDoc
<1>3. \A i : Reg!NameOf(i)' = Reg!NameOf(i) /\ Reg!KeyOf(i)' = Reg!KeyOf(i)
    BY <1>2 DEF Reg!NameOf, Reg!KeyOf
<1>4. \A i \in DOMAIN v11.out : v11.out[i] = "ok" => v12'[Reg!NameOf(i)] = Reg!KeyOf(i)
    <2>1. "none" \notin Reg!Implemented
        BY DEF Reg!Implemented
    <2> QED BY <2>1, RegBulkStays DEF Reg!BulkOK
<1> QED BY <1>2, <1>3, <1>4 DEF Reg!BulkOK, Holders

LEMMA RegBulkCall ==
    ASSUME Reg!BulkOK, Reg!BulkCall
    PROVE  Reg!BulkOK'
<1> DEFINE G == Reg!Group(v11.key)
<1>1. PICK answer \in Reg!DynadotAnswers, S \in SUBSET {n \in {Reg!NameOf(i) : i \in G} : v12[n] = "none"} :
         /\ Reg!Obtained(S, v11.key)
         /\ IF answer # "done" THEN Reg!Thrown
            ELSE \E shown \in SUBSET S :
                    v11' = [v11 EXCEPT !.at = "group", !.todo = v11.todo \ G,
                                       !.out = Reg!Reported(G, [i \in G |-> IF Reg!NameOf(i) \in shown THEN "ok" ELSE "failed"])]
    BY DEF Reg!BulkCall
<1>2. G \in SUBSET v11.todo /\ v11.key \in Reg!Implemented /\ \A i \in G : Reg!KeyOf(i) = v11.key /\ Reg!NameOf(i) \in Thirds
    BY RegBulkStays DEF Reg!Group, Reg!BulkOK, Reg!BulkCall
<1> HIDE DEF G
<1>3. \A n \in S : n \in Thirds /\ v12[n] = "none"
    BY <1>2
<1>4. /\ v12' \in [Thirds -> Holders] /\ \A n \in S : v12'[n] = v11.key
      /\ \A n \in Thirds : v12[n] # "none" => v12'[n] = v12[n]
    BY <1>1, <1>2, <1>3, RegObtained
<1>5. CASE answer # "done"
    BY <1>1, <1>4, <1>5, RegThrows
<1>6. CASE answer = "done"
    <2>1. PICK shown \in SUBSET S :
             v11' = [v11 EXCEPT !.at = "group", !.todo = v11.todo \ G,
                                !.out = Reg!Reported(G, [i \in G |-> IF Reg!NameOf(i) \in shown THEN "ok" ELSE "failed"])]
        BY <1>1, <1>6
    <2> DEFINE rows == [i \in G |-> IF Reg!NameOf(i) \in shown THEN "ok" ELSE "failed"]
    <2>2. rows \in [G -> {"ok", "failed"}] /\ \A i \in G : rows[i] = "ok" => v12'[Reg!NameOf(i)] = Reg!KeyOf(i)
        BY <1>2, <1>4
    <2>3. v11' = [v11 EXCEPT !.at = "group", !.todo = v11.todo \ G, !.out = Reg!Reported(G, rows)]
        BY <2>1
    <2> HIDE DEF rows
    <2> QED BY <1>2, <1>4, <2>2, <2>3, RegAnswers
<1> QED BY <1>5, <1>6

LEMMA RegSingleCall ==
    ASSUME Reg!BulkOK, Reg!SingleCall
    PROVE  Reg!BulkOK'
<1> DEFINE k == v11.key
<1>1. PICK i \in Reg!Group(k) : \E r \in Reg!OneResults(Reg!NameOf(i), k) :
         /\ Reg!Obtained(IF r[2] THEN {Reg!NameOf(i)} ELSE {}, k)
         /\ IF r[1] # "done" THEN Reg!Thrown
            ELSE v11' = [v11 EXCEPT !.at = IF Reg!Group(k) = {i} THEN "group" ELSE "single", !.todo = v11.todo \ {i},
                                    !.out = Reg!Reported({i}, [j \in {i} |-> "ok"])]
    BY DEF Reg!SingleCall, Reg!First
<1>2. PICK done \in BOOLEAN, got \in BOOLEAN :
         /\ got => v12[Reg!NameOf(i)] = "none"
         /\ done => got
         /\ Reg!Obtained(IF got THEN {Reg!NameOf(i)} ELSE {}, k)
         /\ IF ~done THEN Reg!Thrown
            ELSE v11' = [v11 EXCEPT !.at = IF Reg!Group(k) = {i} THEN "group" ELSE "single", !.todo = v11.todo \ {i},
                                    !.out = Reg!Reported({i}, [j \in {i} |-> "ok"])]
    BY <1>1 DEF Reg!OneResults
<1>3. k \in Reg!Implemented /\ i \in v11.todo /\ Reg!KeyOf(i) = k /\ Reg!NameOf(i) \in Thirds
    BY RegBulkStays DEF Reg!Group, Reg!BulkOK, Reg!SingleCall
<1> DEFINE S == IF got THEN {Reg!NameOf(i)} ELSE {}
<1>4. \A n \in S : n \in Thirds /\ v12[n] = "none"
    BY <1>2, <1>3
<1>5. Reg!Obtained(S, k) /\ (got => Reg!NameOf(i) \in S)
    BY <1>2
<1> HIDE DEF S, k
<1>6. /\ v12' \in [Thirds -> Holders] /\ \A n \in S : v12'[n] = k
      /\ \A n \in Thirds : v12[n] # "none" => v12'[n] = v12[n]
    BY <1>3, <1>4, <1>5, RegObtained
<1>7. CASE ~done
    BY <1>2, <1>6, <1>7, RegThrows
<1>8. CASE done
    <2> DEFINE a == IF Reg!Group(k) = {i} THEN "group" ELSE "single"
               rows == [j \in {i} |-> "ok"]
    <2>1. v11' = [v11 EXCEPT !.at = a, !.todo = v11.todo \ {i}, !.out = Reg!Reported({i}, rows)]
        BY <1>2, <1>8
    <2>2. rows \in [{i} -> {"ok", "failed"}] /\ \A j \in {i} : rows[j] = "ok" => v12'[Reg!NameOf(j)] = Reg!KeyOf(j)
        BY <1>2, <1>3, <1>5, <1>6, <1>8
    <2>3. a \in {"group", "single"} /\ (a = "single" => Reg!Group(v11.key) \ {i} # {} /\ v11.key \in Reg!Implemented)
        BY <1>1, <1>3 DEF k
    <2>4. {i} \in SUBSET v11.todo
        BY <1>3
    <2> HIDE DEF a, rows
    <2> QED BY <1>6, <2>1, <2>2, <2>3, <2>4, RegAnswers
<1> QED BY <1>7, <1>8

LEMMA RegInit == Reg!RegistrarInit => Reg!RegistrarInv
<1> SUFFICES ASSUME Reg!RegistrarInit PROVE Reg!RegistrarInv
    OBVIOUS
<1>1. Reg!LookupsOK
    <2>1. 0 \in 0..LastTick /\ 0 \in -1..LastTick /\ -1 \in -1..LastTick
        BY RegBounds
    <2>2. v7 \in Reg!RouteDoc /\ v7.key = "none"
        BY <2>1, RegBounds DEF Reg!RegistrarInit, Reg!RouteDoc
    <2>3. v8 \in [TldValues -> -1..LastTick] /\ v8[v2] = 0 /\ \A v \in TldValues : v8[v] <= 0
        BY <2>1 DEF Reg!RegistrarInit
    <2>4. Reg!EntryOK(Reg!NoEntry) /\ Reg!RequestOK(Reg!NoAsk)
        BY RegRequests DEF Reg!EntryOK, Reg!RequestOK, Reg!RegistrarInit
    <2> QED BY <2>1, <2>2, <2>3, <2>4, RegRequests DEF Reg!RegistrarInit, Reg!LookupsOK, Reg!RoutedFresh
<1>2. Reg!ConfigOK
    BY DEF Reg!RegistrarInit, Reg!ConfigOK, Reg!NoSave
<1>3. Reg!BulkOK
    BY RegNothing DEF Reg!RegistrarInit, Reg!BulkOK
<1> QED BY <1>1, <1>2, <1>3 DEF Reg!RegistrarInv

LEMMA RegIdle ==
    ASSUME Reg!RegistrarInv
    PROVE  /\ UNCHANGED <<v1, v2, v3, v4, v5, v6, v7, v8>> => Reg!LookupsOK'
           /\ UNCHANGED <<v9, v10>> => Reg!ConfigOK'
           /\ UNCHANGED <<v11, v12>> => Reg!BulkOK'
<1>1. ASSUME UNCHANGED <<v1, v2, v3, v4, v5, v6, v7, v8>> PROVE Reg!LookupsOK'
    <2>1. UNCHANGED <<v1, v2, v8>> /\ UNCHANGED <<v3, v4, v5>> /\ UNCHANGED v6 /\ UNCHANGED <<v7, v8>>
        BY <1>1
    <2>2. Reg!LookupsOK
        BY DEF Reg!RegistrarInv
    <2> QED BY <2>1, <2>2, RegStays, RegFresh, RegKeeps DEF Reg!LookupsOK
<1>2. ASSUME UNCHANGED <<v9, v10>> PROVE Reg!ConfigOK'
    BY <1>2 DEF Reg!RegistrarInv, Reg!ConfigOK, Reg!Settings
<1>3. ASSUME UNCHANGED <<v11, v12>> PROVE Reg!BulkOK'
    BY <1>3 DEF Reg!RegistrarInv, Reg!BulkOK, Reg!BulkDoc, Reg!Group, Reg!NameOf, Reg!KeyOf
<1> QED BY <1>1, <1>2, <1>3

LEMMA RegNext == Reg!RegistrarInv /\ (Reg!RegistrarNext \/ UNCHANGED shared) => Reg!RegistrarInv'
<1> SUFFICES ASSUME Reg!RegistrarInv, Reg!RegistrarNext \/ UNCHANGED shared PROVE Reg!RegistrarInv'
    OBVIOUS
<1>0. Reg!LookupsOK /\ Reg!ConfigOK /\ Reg!BulkOK
    BY DEF Reg!RegistrarInv
<1>1. CASE Reg!TldNext
    <2>1. Reg!LookupsOK'
        BY <1>0, <1>1, RegLooks, RegReads, RegLeaves, RegWrites DEF Reg!TldNext
    <2> QED BY <1>1, <2>1, RegIdle DEF Reg!TldNext, Reg!RegistrarInv
<1>2. CASE Reg!StandardNext
    <2>1. Reg!LookupsOK'
        BY <1>0, <1>2, RegLooks, RegReads, RegLeaves DEF Reg!StandardNext
    <2> QED BY <1>2, <2>1, RegIdle DEF Reg!StandardNext, Reg!RegistrarInv
<1>3. CASE Reg!RestartNext
    <2>1. Reg!LookupsOK'
        BY <1>0, <1>3, RegRestarts DEF Reg!RestartNext
    <2> QED BY <1>3, <2>1, RegIdle DEF Reg!RestartNext, Reg!RegistrarInv
<1>4. CASE Reg!ConfigNext
    <2>1. Reg!ConfigOK'
        BY <1>0, <1>4, RegSettings DEF Reg!ConfigNext
    <2>2. UNCHANGED <<v1, v2, v3, v4, v5, v6, v7, v8>> /\ UNCHANGED <<v11, v12>>
        BY <1>4 DEF Reg!ConfigNext, Reg!MergeConfig, Reg!WriteConfig, Reg!lookupVars
    <2> QED BY <2>1, <2>2, RegIdle DEF Reg!RegistrarInv
<1>5. CASE Reg!BulkNext
    <2>1. Reg!BulkOK'
        BY <1>0, <1>5, RegBegins, RegTakes, RegBulkCall, RegSingleCall DEF Reg!BulkNext
    <2>2. UNCHANGED <<v1, v2, v3, v4, v5, v6, v7, v8>> /\ UNCHANGED <<v9, v10>>
        BY <1>5 DEF Reg!BulkNext, Reg!SearchDomains, Reg!StartBulk, Reg!RegisterDomain, Reg!Started, Reg!TakeGroup,
           Reg!BulkCall, Reg!SingleCall, Reg!EndBulk, Reg!lookupVars
    <2> QED BY <2>1, <2>2, RegIdle DEF Reg!RegistrarInv
<1>6. CASE UNCHANGED shared
    BY <1>6, RegIdle DEF shared, Reg!RegistrarInv
<1> QED BY <1>1, <1>2, <1>3, <1>4, <1>5, <1>6 DEF Reg!RegistrarNext

LEMMA RegImplies == Reg!RegistrarInv => Reg!RoutedFresh /\ Reg!ReportedTrue
BY DEF Reg!RegistrarInv, Reg!LookupsOK, Reg!BulkOK, Reg!ReportedTrue

LEMMA RegTyped == Reg!RegistrarInv => Reg!RegistrarTypeOK
BY DEF Reg!RegistrarInv, Reg!LookupsOK, Reg!ConfigOK, Reg!BulkOK, Reg!RegistrarTypeOK, Reg!EntryDoc, Reg!RequestDoc,
       Reg!RouteDoc, Reg!BulkDoc

\* A domain is routed by what its TLD document said less than a TTL ago, however lookups and changes of
\* several processes cross, and what a bulk registration reports as registered is (tld.service.ts:71,
\* domain-registrar.service.ts:137).
THEOREM BusinessRegistrationsSound == BusinessSpec => []RegistrationsSound
<1> DEFINE I == scenario \in Routers => Reg!RegistrarInv
<1>1. BusinessInit => I
    BY RegInit DEF BusinessInit, Senders, Routers, Shelves, Machinery
<1>2. I /\ [BusinessNext]_businessVars => I'
    <2> SUFFICES ASSUME I, [BusinessNext]_businessVars, scenario' \in Routers PROVE Reg!RegistrarInv'
        OBVIOUS
    <2>1. scenario \in Routers
        BY DEF BusinessNext, businessVars
    <2>2. Reg!RegistrarNext \/ UNCHANGED shared
        BY <2>1 DEF BusinessNext, BusinessStep, businessVars, Senders, Routers, Shelves, Machinery, Reg!RegistrarNext
    <2> QED BY <2>1, <2>2, RegNext
<1>3. I => RegistrationsSound
    BY RegImplies DEF RegistrationsSound
<1> QED BY <1>1, <1>2, <1>3, PTL DEF BusinessSpec
-----------------------------------------------------------------------------
(* Affiliates: v1 buyer, v2 referral, v3 active, v4 paid, v5 commission,    *)
(* v6 credit, v7 payout, v8 call, v9 begun, v10 mark.                       *)

Marks == [raced : SUBSET Ones, over : BOOLEAN, cut : BOOLEAN, crossed : BOOLEAN]
PayoutDoc == [status : Aff!PayoutStates, amount : Nat]

LEMMA AffBounds == Earned \in Nat /\ MaxDocs \in Nat /\ MaxCalls \in Nat /\ Nobody \notin Seconds /\ Nobody \notin Ones
BY AffiliateAssumption DEF Aff!AffiliateNulls, Aff!AffiliateBounds

LEMMA AffStays ==
    Aff!AffiliateInv =>
        /\ v1 \in [Seconds -> Ones] /\ v2 \in [Ones -> Seconds \cup {Nobody}] /\ v3 \in BOOLEAN /\ v4 \in SUBSET Seconds
        /\ v5 \in [Aff!Docs -> Aff!Commission] /\ v6 \in Nat /\ v7 \in [Ones -> PayoutDoc]
        /\ v8 \in [Firsts -> Aff!CallDoc] /\ v9 \in 0..MaxCalls /\ v10 \in Marks
        /\ (\A c \in Firsts : Aff!CallOK(c)) /\ Aff!ReversalsOK
BY DEF Aff!AffiliateInv, Aff!AffiliateTypeOK, Marks, PayoutDoc

\* The types, given those of what a step writes.
LEMMA AffTyped ==
    ASSUME v1' \in [Seconds -> Ones], v2' \in [Ones -> Seconds \cup {Nobody}], v3' \in BOOLEAN, v4' \in SUBSET Seconds,
           v5' \in [Aff!Docs -> Aff!Commission], v6' \in Nat, v7' \in [Ones -> PayoutDoc],
           v8' \in [Firsts -> Aff!CallDoc], v9' \in 0..MaxCalls, v10' \in Marks
    PROVE  Aff!AffiliateTypeOK'
BY DEF Aff!AffiliateTypeOK, Marks, PayoutDoc, Aff!CallDoc

\* A set of documents that is not empty has a first and a last one.
LEMMA AffMin == ASSUME NEW S \in SUBSET Aff!Docs, S # {} PROVE Aff!Min(S) \in S
<1>1. S \subseteq Nat
    BY AffBounds DEF Aff!Docs
<1>2. \E x \in S : \A y \in S : ~(<<y, x>> \in OpToRel(<, Nat))
    BY <1>1, WFMin, NatLessThanWellFounded, Zenon
<1>3. \E x \in S : \A y \in S : ~(y < x)
    BY <1>1, <1>2, Zenon DEF OpToRel
<1>4. \E x \in S : \A y \in S : x <= y
    BY <1>1, <1>3
<1> QED BY <1>4 DEF Aff!Min

LEMMA LastOf ==
    ASSUME NEW n \in Nat, NEW S \in SUBSET (0..n), S # {}
    PROVE  \E x \in S : \A y \in S : x >= y
<1> DEFINE T == {n - x : x \in S}
<1>0. S \subseteq Nat /\ \A x \in S : x <= n
    OBVIOUS
<1>1. T \subseteq Nat /\ T # {}
    <2>1. \A x \in S : n - x \in Nat
        BY <1>0
    <2> QED BY <2>1
<1> HIDE DEF T
<1>2. \E x \in T : \A y \in T : ~(<<y, x>> \in OpToRel(<, Nat))
    BY <1>1, WFMin, NatLessThanWellFounded, Zenon
<1>3. \E x \in T : \A y \in T : ~(y < x)
    BY <1>1, <1>2, Zenon DEF OpToRel
<1>4. \E x \in S : \A y \in S : ~(n - y < n - x)
    BY <1>3 DEF T
<1> QED BY <1>0, <1>4

LEMMA AffMax == ASSUME NEW S \in SUBSET Aff!Docs, S # {} PROVE Aff!Max(S) \in S /\ \A y \in S : y <= Aff!Max(S)
<1>1. S \in SUBSET (0..MaxDocs) /\ S \subseteq Nat
    BY AffBounds DEF Aff!Docs
<1>2. \E x \in S : \A y \in S : x >= y
    BY <1>1, AffBounds, LastOf
<1>3. Aff!Max(S) \in S /\ \A y \in S : Aff!Max(S) >= y
    BY <1>2, Zenon DEF Aff!Max
<1> QED BY <1>1, <1>3

\* A document is made where none was.
LEMMA AffNextDoc == Aff!NextDoc \notin Aff!Made
<1>1. Aff!Made \in SUBSET Aff!Docs
    BY DEF Aff!Made
<1>2. CASE Aff!Made # {}
    <2> DEFINE m == Aff!Max(Aff!Made)
    <2>1. m \in Aff!Made /\ \A y \in Aff!Made : y <= m
        BY <1>1, <1>2, AffMax
    <2>2. Aff!NextDoc = m + 1
        BY <1>2 DEF Aff!NextDoc
    <2> HIDE DEF m
    <2>3. m \in Nat
        BY <1>1, <2>1, AffBounds DEF Aff!Docs
    <2> QED BY <2>1, <2>2, <2>3
<1> QED BY <1>2 DEF Aff!NextDoc

\* What is said of a call's record alone.
AffCallDocOK(r) ==
    /\ r.at \in {"look", "create"} => r.op = "paid"
    /\ r.op = "paid" => r.order \in Seconds
    /\ r.at \in {"debit", "split"} => r.todo # {}
    /\ r.at \in {"debit", "reversed"} => r.op = "reverse"
    /\ r.at \in {"request", "split"} => r.op \in {"redeem", "payout"}

AffLive(d, docs) == d \in Aff!Docs /\ docs[d].status \notin {"none", "REVERSED"}

AffSpends(r, docs) ==
    /\ r.op = "paid" => r.order \in v4
    /\ \A d \in r.todo : r.op \in Aff!Spends /\ r.at \in {"change", "split"}
          => AffLive(d, docs) /\ r.doc[d].order = docs[d].order
    /\ \A d \in r.todo : r.at = "approve" => r.doc[d].status = "QUALIFIED"

AffReverses(r, d) ==
    /\ r.op = "reverse"
    /\ \/ r.at = "find" /\ r.order = v5[d].order
       \/ r.at \in {"change", "debit", "reversed"} /\ d \in r.todo

LEMMA AffLives == \A d \in Aff!Docs : /\ d \in Aff!Live <=> AffLive(d, v5)
                                      /\ d \in Aff!Live' <=> AffLive(d, v5')
BY DEF Aff!Live, Aff!Made, Aff!Of, AffLive

LEMMA AffIdle ==
    /\ Aff!Ready \in Aff!CallDoc /\ AffCallDocOK(Aff!Ready) /\ Aff!Ready.op = "none" /\ Aff!Ready.at = "idle"
    /\ Aff!Ready.todo = {} /\ Aff!NoCommission \in Aff!Commission /\ Aff!NoCommission.status = "none"
    /\ \A docs : AffSpends(Aff!Ready, docs)
<1>1. Aff!NoCommission \in Aff!Commission
    BY DEF Aff!NoCommission, Aff!Commission
<1>2. Aff!Ready \in Aff!CallDoc
    BY <1>1 DEF Aff!Ready, Aff!CallDoc, Aff!PayoutStates
<1> QED BY <1>1, <1>2 DEF Aff!Ready, AffCallDocOK, AffSpends, Aff!NoCommission

\* A call under way goes on or ends; what counts and its invoice stay, or nobody spends it.
LEMMA AffGoes ==
    ASSUME Aff!AffiliateInv, NEW c \in Firsts, NEW r \in Aff!CallDoc, v8' = [v8 EXCEPT ![c] = r], AffCallDocOK(r),
           r.op \in {v8[c].op, "none"},
           v5' \in [Aff!Docs -> Aff!Commission], v6' \in Nat, v7' \in [Ones -> PayoutDoc], v10' \in Marks,
           UNCHANGED <<v1, v2, v3, v4, v9>>,
           Aff!Straight' => /\ Aff!Straight
                            /\ \A d \in Aff!Docs : AffLive(d, v5) =>
                                  /\ v5'[d].order = v5[d].order
                                  /\ AffLive(d, v5') \/ v8[c].op = "reverse"
                            /\ \A d \in Aff!Docs : AffLive(d, v5') =>
                                  \/ AffLive(d, v5) /\ (AffReverses(v8[c], d) => AffReverses(r, d))
                                  \/ v5'[d].order \in v4
                            /\ AffSpends(r, v5')
    PROVE  Aff!AffiliateInv'
<1>1. v8' \in [Firsts -> Aff!CallDoc] /\ v8'[c] = r /\ \A b \in Firsts \ {c} : v8'[b] = v8[b]
    BY AffStays
<1>2. Aff!AffiliateTypeOK'
    BY <1>1, AffStays, AffTyped
<1>3. \A b \in Firsts : Aff!CallOK(b)'
    BY <1>1, AffStays DEF Aff!CallOK, AffCallDocOK
<1>4. ASSUME Aff!Straight' PROVE (\A b \in Firsts : Aff!SpendOK(b)')
                                 /\ \A d \in Aff!Live' : v5'[d].order \in v4' \/ \E a \in Firsts : Aff!Reversing(a, d)'
    <2>0. (\A b \in Firsts : Aff!SpendOK(b)) /\ \A d \in Aff!Live : v5[d].order \in v4 \/ \E a \in Firsts : Aff!Reversing(a, d)
        BY <1>4, AffStays DEF Aff!ReversalsOK
    <2>1. ASSUME NEW b \in Firsts PROVE Aff!SpendOK(b)'
        <3>1. \A a \in Firsts : ~(v8'[a].op = "reverse" /\ v8'[b].op \in Aff!Spends)
            BY <1>1, <2>0 DEF Aff!SpendOK, Aff!Spends
        <3>2. CASE b = c
            BY <1>1, <1>4, <3>1, <3>2, AffLives, AffStays DEF Aff!SpendOK, AffSpends, Aff!CallDoc
        <3>3. CASE b # c
            <4>1. v8'[b] = v8[b] /\ v8[b] \in Aff!CallDoc
                BY <1>1, <3>3, AffStays
            <4>2. ASSUME NEW d \in v8[b].todo, v8[b].op \in Aff!Spends, v8[b].at \in {"change", "split"}
                  PROVE  d \in Aff!Live' /\ v8[b].doc[d].order = v5'[d].order
                <5>1. d \in Aff!Docs /\ AffLive(d, v5) /\ v8[b].doc[d].order = v5[d].order
                    BY <2>0, <4>1, <4>2, AffLives DEF Aff!SpendOK, Aff!CallDoc
                <5>2. v8[c].op # "reverse"
                    BY <2>0, <4>2 DEF Aff!SpendOK
                <5> QED BY <1>4, <5>1, <5>2, AffLives
            <4> QED BY <2>0, <3>1, <4>1, <4>2 DEF Aff!SpendOK
        <3> QED BY <3>2, <3>3
    <2>2. ASSUME NEW d \in Aff!Live', v5'[d].order \notin v4 PROVE \E a \in Firsts : Aff!Reversing(a, d)'
        <3>0. d \in Aff!Docs /\ AffLive(d, v5')
            BY AffLives DEF Aff!Live, Aff!Made
        <3>1. d \in Aff!Live /\ (AffReverses(v8[c], d) => AffReverses(r, d)) /\ v5'[d].order = v5[d].order
            BY <1>4, <2>2, <3>0, AffLives
        <3>2. PICK a \in Firsts : Aff!Reversing(a, d)
            BY <2>0, <2>2, <3>1
        <3>3. Aff!Reversing(a, d)'
            <4>1. CASE a = c
                BY <1>1, <3>1, <3>2, <4>1 DEF Aff!Reversing, AffReverses
            <4>2. CASE a # c
                BY <1>1, <3>1, <3>2, <4>2 DEF Aff!Reversing
            <4> QED BY <4>1, <4>2
        <3> QED BY <3>3
    <2> QED BY <2>1, <2>2
<1> QED BY <1>1, <1>2, <1>3, <1>4 DEF Aff!AffiliateInv, Aff!ReversalsOK

\* A call begins: a reversal takes its invoice from the paid ones and will look for its commissions.
LEMMA AffBegins ==
    ASSUME Aff!AffiliateInv, NEW c \in Firsts, NEW r \in Aff!CallDoc, Aff!Opens(c, r), AffCallDocOK(r), r.todo = {},
           UNCHANGED <<v1, v2, v3, v5, v6, v7>>, v4' \in SUBSET Seconds,
           \/ r.op \notin {"paid", "reverse"} /\ v4' = v4
           \/ r.op = "paid" /\ v4' = v4 \cup {r.order}
           \/ r.op = "reverse" /\ r.at = "find" /\ v4' = v4 \ {r.order}
    PROVE  Aff!AffiliateInv'
<1> DEFINE others == {v8[b].op : b \in Firsts \ {c}}
<1>1. /\ v8[c] = Aff!Ready /\ v9 < MaxCalls /\ v9' = v9 + 1 /\ v8' = [v8 EXCEPT ![c] = r]
      /\ v10' = [v10 EXCEPT !.crossed = \/ @
                                        \/ r.op = "reverse" /\ (others \cap Aff!Spends) # {}
                                        \/ r.op \in Aff!Spends /\ "reverse" \in others]
    BY DEF Aff!Opens, Aff!Set
<1>2. v8' \in [Firsts -> Aff!CallDoc] /\ v8'[c] = r /\ \A b \in Firsts \ {c} : v8'[b] = v8[b]
    BY <1>1, AffStays
<1>3. v9' \in 0..MaxCalls
    BY <1>1, AffStays, AffBounds
<1>4. v10' \in Marks
    BY <1>1, AffStays DEF Marks
<1>5. Aff!AffiliateTypeOK'
    BY <1>2, <1>3, <1>4, AffStays, AffTyped
<1>6. \A b \in Firsts : Aff!CallOK(b)'
    BY <1>2, AffStays DEF Aff!CallOK, AffCallDocOK
<1>7. ASSUME Aff!Straight'
      PROVE  /\ Aff!Straight
             /\ \A b \in Firsts \ {c} : ~(r.op = "reverse" /\ v8[b].op \in Aff!Spends)
             /\ \A b \in Firsts \ {c} : ~(r.op \in Aff!Spends /\ v8[b].op = "reverse")
    BY <1>1, <1>7, AffStays DEF Aff!Straight, Marks
<1>8. ASSUME Aff!Straight' PROVE (\A b \in Firsts : Aff!SpendOK(b)')
                                 /\ \A d \in Aff!Live' : v5'[d].order \in v4' \/ \E a \in Firsts : Aff!Reversing(a, d)'
    <2>0. (\A b \in Firsts : Aff!SpendOK(b)) /\ \A d \in Aff!Live : v5[d].order \in v4 \/ \E a \in Firsts : Aff!Reversing(a, d)
        BY <1>7, <1>8, AffStays DEF Aff!ReversalsOK
    <2>1. ASSUME NEW b \in Firsts PROVE Aff!SpendOK(b)'
        <3>1. \A a \in Firsts : ~(v8'[a].op = "reverse" /\ v8'[b].op \in Aff!Spends)
            BY <1>2, <1>7, <1>8, <2>0 DEF Aff!SpendOK, Aff!Spends
        <3>2. CASE b = c
            BY <1>2, <3>1, <3>2 DEF Aff!SpendOK
        <3>3. CASE b # c
            <4>1. v8'[b] = v8[b] /\ v8[b] \in Aff!CallDoc /\ Aff!SpendOK(b)
                BY <1>2, <2>0, <3>3, AffStays
            <4>2. v8[b].op = "paid" => v8[b].order \in v4'
                <5>1. r.op = "reverse" => v8[b].op # "paid"
                    BY <1>7, <1>8, <3>3 DEF Aff!Spends
                <5> QED BY <4>1, <5>1 DEF Aff!SpendOK
            <4>3. \A d \in v8[b].todo : d \in Aff!Live <=> d \in Aff!Live'
                BY DEF Aff!Live, Aff!Made, Aff!Of
            <4> QED BY <3>1, <4>1, <4>2, <4>3 DEF Aff!SpendOK
        <3> QED BY <3>2, <3>3
    <2>2. ASSUME NEW d \in Aff!Live', v5'[d].order \notin v4' PROVE \E a \in Firsts : Aff!Reversing(a, d)'
        <3>1. d \in Aff!Live
            BY DEF Aff!Live, Aff!Made, Aff!Of
        <3>2. CASE v5[d].order \in v4
            <4>1. r.op = "reverse" /\ r.at = "find" /\ v5[d].order = r.order
                BY <2>2, <3>2
            <4> QED BY <1>2, <4>1 DEF Aff!Reversing
        <3>3. CASE v5[d].order \notin v4
            <4>1. PICK a \in Firsts : Aff!Reversing(a, d)
                BY <2>0, <3>1, <3>3
            <4>2. a # c
                BY <1>1, <4>1, AffIdle DEF Aff!Reversing
            <4> QED BY <1>2, <4>1, <4>2 DEF Aff!Reversing
        <3> QED BY <3>2, <3>3
    <2> QED BY <2>1, <2>2
<1> QED BY <1>2, <1>5, <1>6, <1>7, <1>8 DEF Aff!AffiliateInv, Aff!ReversalsOK

LEMMA AffOpening == ASSUME Aff!AffiliateInv, NEW c \in Firsts, Aff!Opening(c) PROVE Aff!AffiliateInv'
<1>1. ASSUME NEW o \in Seconds, Aff!PaidInvoice(c, o) PROVE Aff!AffiliateInv'
    <2> DEFINE r == [Aff!Ready EXCEPT !.op = "paid", !.at = "eligible", !.order = o]
    <2>1. Aff!Opens(c, r) /\ v4' = v4 \cup {o} /\ UNCHANGED <<v1, v2, v3, v5, v6, v7>>
        BY <1>1 DEF Aff!PaidInvoice
    <2>2. r \in Aff!CallDoc /\ r.op = "paid" /\ r.at = "eligible" /\ r.order = o /\ r.todo = {}
        BY AffIdle DEF Aff!CallDoc
    <2> HIDE DEF r
    <2>3. AffCallDocOK(r) /\ v4' \in SUBSET Seconds
        BY <2>1, <2>2, AffStays DEF AffCallDocOK
    <2> QED BY <2>1, <2>2, <2>3, AffBegins
<1>2. ASSUME NEW o \in Seconds, Aff!RevertInvoice(c, o) PROVE Aff!AffiliateInv'
    <2> DEFINE r == [Aff!Ready EXCEPT !.op = "reverse", !.at = "find", !.order = o]
    <2>1. Aff!Opens(c, r) /\ v4' = v4 \ {o} /\ UNCHANGED <<v1, v2, v3, v5, v6, v7>>
        BY <1>2 DEF Aff!RevertInvoice
    <2>2. r \in Aff!CallDoc /\ r.op = "reverse" /\ r.at = "find" /\ r.order = o /\ r.todo = {}
        BY AffIdle DEF Aff!CallDoc
    <2> HIDE DEF r
    <2>3. AffCallDocOK(r) /\ v4' \in SUBSET Seconds
        BY <2>1, <2>2, AffStays DEF AffCallDocOK
    <2> QED BY <2>1, <2>2, <2>3, AffBegins
<1>3. ASSUME NEW amount \in 1 .. Earned, Aff!Redeem(c, amount) \/ Aff!RequestPayout(c, amount) PROVE Aff!AffiliateInv'
    <2>0. amount \in Nat
        BY AffBounds
    <2>1. PICK op \in {"redeem", "payout"} :
             /\ Aff!Opens(c, [Aff!Ready EXCEPT !.op = op, !.at = "eligible", !.amount = amount, !.left = amount])
             /\ UNCHANGED <<v1, v2, v3, v4, v5, v6, v7>>
        BY <1>3 DEF Aff!Redeem, Aff!RequestPayout
    <2> DEFINE r == [Aff!Ready EXCEPT !.op = op, !.at = "eligible", !.amount = amount, !.left = amount]
    <2>2. r \in Aff!CallDoc /\ r.op = op /\ r.at = "eligible" /\ r.todo = {}
        BY <2>0, AffIdle DEF Aff!CallDoc
    <2>3. Aff!Opens(c, r)
        BY <2>1
    <2> HIDE DEF r
    <2>4. AffCallDocOK(r) /\ v4' \in SUBSET Seconds
        BY <2>1, <2>2, AffStays DEF AffCallDocOK
    <2> QED BY <2>1, <2>2, <2>3, <2>4, AffBegins
<1>4. CASE Aff!Dashboard(c)
    <2> DEFINE r == [Aff!Ready EXCEPT !.op = "view", !.at = "eligible"]
    <2>1. Aff!Opens(c, r) /\ UNCHANGED <<v1, v2, v3, v4, v5, v6, v7>>
        BY <1>4 DEF Aff!Dashboard
    <2>2. r \in Aff!CallDoc /\ r.op = "view" /\ r.at = "eligible" /\ r.todo = {}
        BY AffIdle DEF Aff!CallDoc
    <2> HIDE DEF r
    <2>3. AffCallDocOK(r) /\ v4' \in SUBSET Seconds
        BY <2>1, <2>2, AffStays DEF AffCallDocOK
    <2> QED BY <2>1, <2>2, <2>3, AffBegins
<1>5. ASSUME NEW p \in Ones, NEW act \in {"approve", "reject", "mark_paid"}, Aff!Review(c, p, act) PROVE Aff!AffiliateInv'
    <2> DEFINE s == v7[p].status
               r == [Aff!Ready EXCEPT !.op = "review", !.at = "save", !.payout = p, !.act = act, !.status = s]
    <2>1. Aff!Opens(c, r) /\ UNCHANGED <<v1, v2, v3, v4, v5, v6, v7>>
        BY <1>5 DEF Aff!Review
    <2>0. s \in Aff!PayoutStates
        BY AffStays DEF PayoutDoc
    <2> HIDE DEF s
    <2>2. r \in Aff!CallDoc /\ r.op = "review" /\ r.at = "save" /\ r.todo = {}
        BY <2>0, AffIdle DEF Aff!CallDoc
    <2> HIDE DEF r
    <2>3. AffCallDocOK(r) /\ v4' \in SUBSET Seconds
        BY <2>1, <2>2, AffStays DEF AffCallDocOK
    <2> QED BY <2>1, <2>2, <2>3, AffBegins
<1> QED BY <1>1, <1>2, <1>3, <1>4, <1>5 DEF Aff!Opening

LEMMA AffAside ==
    ASSUME Aff!AffiliateInv, UNCHANGED <<v1, v4, v5, v6, v7, v8, v10>>, v2' \in [Ones -> Seconds \cup {Nobody}],
           v3' \in BOOLEAN, v9' \in 0..MaxCalls
    PROVE  Aff!AffiliateInv'
<1>1. Aff!AffiliateTypeOK'
    BY AffStays, AffTyped
<1>2. \A c \in Firsts : Aff!CallOK(c)'
    BY AffStays DEF Aff!CallOK
<1>3. Aff!Live' = Aff!Live /\ (Aff!Straight' <=> Aff!Straight)
    BY DEF Aff!Live, Aff!Made, Aff!Of, Aff!Straight
<1>4. Aff!ReversalsOK'
    <2>1. \A c \in Firsts : Aff!SpendOK(c) => Aff!SpendOK(c)'
        BY <1>3 DEF Aff!SpendOK
    <2>2. \A c \in Firsts, d \in Aff!Docs : Aff!Reversing(c, d) => Aff!Reversing(c, d)'
        BY DEF Aff!Reversing
    <2>3. Aff!Live \subseteq Aff!Docs
        BY DEF Aff!Live, Aff!Made
    <2> QED BY <1>3, <2>1, <2>2, <2>3, AffStays DEF Aff!ReversalsOK
<1> QED BY <1>1, <1>2, <1>4, AffStays DEF Aff!AffiliateInv

\* A call goes on and leaves the commissions alone.
LEMMA AffQuiet ==
    ASSUME Aff!AffiliateInv, NEW c \in Firsts, NEW r \in Aff!CallDoc, v8' = [v8 EXCEPT ![c] = r], AffCallDocOK(r),
           r.op \in {v8[c].op, "none"}, v6' \in Nat, v7' \in [Ones -> PayoutDoc], v10' \in Marks,
           UNCHANGED <<v1, v2, v3, v4, v5, v9>>,
           Aff!Straight' => /\ Aff!Straight
                            /\ \A d \in Aff!Docs : AffLive(d, v5) /\ AffReverses(v8[c], d) => AffReverses(r, d)
                            /\ AffSpends(r, v5)
    PROVE  Aff!AffiliateInv'
BY AffStays, AffGoes

\* What of the marks a step can set.
LEMMA AffMarked ==
    ASSUME Aff!AffiliateInv, NEW b \in BOOLEAN, NEW S \in SUBSET Ones
    PROVE  /\ [v10 EXCEPT !.over = b] \in Marks /\ [v10 EXCEPT !.over = b].over = b
           /\ [v10 EXCEPT !.over = b].cut = v10.cut /\ [v10 EXCEPT !.over = b].crossed = v10.crossed
           /\ [v10 EXCEPT !.cut = TRUE] \in Marks /\ [v10 EXCEPT !.cut = TRUE].cut
           /\ [v10 EXCEPT !.raced = S] \in Marks /\ [v10 EXCEPT !.raced = S].over = v10.over
           /\ [v10 EXCEPT !.raced = S].cut = v10.cut /\ [v10 EXCEPT !.raced = S].crossed = v10.crossed
           /\ v10.over \in BOOLEAN /\ v10.raced \in SUBSET Ones /\ v10.crossed \in BOOLEAN /\ v10.cut \in BOOLEAN
BY AffStays DEF Marks

LEMMA AffEnds ==
    ASSUME Aff!AffiliateInv, NEW c \in Firsts, Aff!Done(c), v6' \in Nat, v7' \in [Ones -> PayoutDoc], v10' \in Marks,
           UNCHANGED <<v1, v2, v3, v4, v5, v9>>,
           Aff!Straight' => Aff!Straight /\ \A d \in Aff!Docs : AffLive(d, v5) => ~AffReverses(v8[c], d)
    PROVE  Aff!AffiliateInv'
<1> DEFINE r == Aff!Ready
<1>1. v8' = [v8 EXCEPT ![c] = r]
    BY DEF Aff!Done, Aff!Set
<1>2. r \in Aff!CallDoc /\ AffCallDocOK(r) /\ r.op = "none" /\ AffSpends(r, v5)
    BY AffIdle
<1> HIDE DEF r
<1> QED BY <1>1, <1>2, AffQuiet

LEMMA AffFails == ASSUME Aff!AffiliateInv, NEW c \in Firsts, Aff!CallDies(c) \/ Aff!AllocateShort(c) PROVE Aff!AffiliateInv'
<1>1. Aff!Done(c) /\ v10' = [v10 EXCEPT !.cut = TRUE] /\ UNCHANGED <<v1, v2, v3, v4, v5, v6, v7, v9>>
    BY DEF Aff!CallDies, Aff!AllocateShort, Aff!Cut
<1>2. v10' \in Marks /\ v10'.cut
    <2>1. TRUE \in BOOLEAN /\ {} \in SUBSET Ones
        OBVIOUS
    <2> QED BY <1>1, <2>1, AffMarked
<1> QED BY <1>1, <1>2, AffStays, AffEnds DEF Aff!Straight

\* approveEligibleCommissions.
LEMMA AffApproves == ASSUME Aff!AffiliateInv, NEW c \in Firsts, Aff!FindEligible(c) \/ Aff!ApproveNext(c) PROVE Aff!AffiliateInv'
<1> DEFINE m == v8[c]
<1>0. m \in Aff!CallDoc /\ AffCallDocOK(m) /\ (Aff!Straight => AffSpends(m, v5))
    BY AffStays, AffLives DEF Aff!CallOK, AffCallDocOK, Aff!ReversalsOK, Aff!SpendOK, AffSpends, Aff!CallDoc
<1>1. CASE Aff!FindEligible(c)
    <2>1. PICK ripe \in SUBSET Aff!Of("QUALIFIED") :
             v8' = [v8 EXCEPT ![c] = [m EXCEPT !.at = "approve", !.todo = ripe, !.doc = v5]]
        BY <1>1 DEF Aff!FindEligible, Aff!Set
    <2> DEFINE r == [m EXCEPT !.at = "approve", !.todo = ripe, !.doc = v5]
    <2>2. UNCHANGED <<v1, v2, v3, v4, v5, v6, v7, v9, v10>> /\ m.at = "eligible" /\ v8' = [v8 EXCEPT ![c] = r]
        BY <1>1, <2>1 DEF Aff!FindEligible
    <2>3. ripe \in SUBSET Aff!Docs /\ \A d \in ripe : v5[d].status = "QUALIFIED"
        BY DEF Aff!Of
    <2>4. /\ r \in Aff!CallDoc /\ r.at = "approve" /\ r.todo = ripe /\ r.doc = v5 /\ r.op = m.op /\ r.order = m.order
        BY <1>0, <2>3, AffStays DEF Aff!CallDoc
    <2> HIDE DEF r
    <2>5. AffCallDocOK(r) /\ (Aff!Straight => AffSpends(r, v5))
        BY <1>0, <2>3, <2>4 DEF AffCallDocOK, AffSpends
    <2>6. \A d \in Aff!Docs : ~AffReverses(m, d)
        BY <2>2 DEF AffReverses
    <2>7. Aff!Straight' => Aff!Straight
        BY <2>2 DEF Aff!Straight
    <2> QED BY <2>2, <2>4, <2>5, <2>6, <2>7, AffStays, AffQuiet
<1>2. CASE Aff!ApproveNext(c) /\ m.todo = {}
    <2>0. UNCHANGED <<v1, v2, v3, v4, v5, v6, v7, v9, v10>> /\ m.at = "approve"
        BY <1>2 DEF Aff!ApproveNext
    <2>1. (Aff!Straight' => Aff!Straight) /\ \A d \in Aff!Docs : ~AffReverses(m, d)
        BY <2>0 DEF Aff!Straight, AffReverses
    <2>2. CASE m.op = "view"
        BY <1>2, <2>0, <2>1, <2>2, AffStays, AffEnds DEF Aff!ApproveNext
    <2>3. CASE m.op # "view"
        <3> DEFINE a == Aff!AfterApproval(m.op)
                   r == [m EXCEPT !.at = a, !.doc = Aff!Ready.doc]
        <3>1. v8' = [v8 EXCEPT ![c] = r]
            BY <1>2, <2>3 DEF Aff!ApproveNext, Aff!Set
        <3>2. a \in {"look", "client", "pending", "idle"} /\ (a = "look" => m.op = "paid")
            BY DEF Aff!AfterApproval
        <3>3. Aff!Ready.doc \in [Aff!Docs -> Aff!Commission]
            BY AffIdle DEF Aff!CallDoc
        <3> HIDE DEF a
        <3>4. r \in Aff!CallDoc /\ r.at = a /\ r.todo = {} /\ r.op = m.op /\ r.order = m.order
            BY <1>0, <1>2, <3>2, <3>3 DEF Aff!CallDoc
        <3> HIDE DEF r
        <3>5. AffCallDocOK(r) /\ (Aff!Straight => AffSpends(r, v5))
            BY <1>0, <3>2, <3>4 DEF AffCallDocOK, AffSpends
        <3> QED BY <2>0, <2>1, <3>1, <3>4, <3>5, AffStays, AffQuiet
    <2> QED BY <2>2, <2>3
<1>3. CASE Aff!ApproveNext(c) /\ m.todo # {}
    <2> DEFINE d == Aff!Min(m.todo)
               r == [m EXCEPT !.todo = @ \ {d}]
    <2>1. d \in m.todo /\ d \in Aff!Docs
        <3>1. m.todo \in SUBSET Aff!Docs
            BY <1>0 DEF Aff!CallDoc
        <3> QED BY <1>3, <3>1, AffMin
    <2>2. /\ m.at = "approve" /\ v5' = [v5 EXCEPT ![d].status = "APPROVED"] /\ v8' = [v8 EXCEPT ![c] = r]
          /\ v10' = [v10 EXCEPT !.over = @ \/ Aff!SavedOver(c, d)] /\ UNCHANGED <<v1, v2, v3, v4, v6, v7, v9>>
        BY <1>3 DEF Aff!ApproveNext, Aff!Set
    <2> HIDE DEF d
    <2>3. r \in Aff!CallDoc /\ r.at = m.at /\ r.todo = m.todo \ {d} /\ r.op = m.op /\ r.order = m.order /\ r.doc = m.doc
        BY <1>0 DEF Aff!CallDoc
    <2> HIDE DEF r
    <2>4. v5' \in [Aff!Docs -> Aff!Commission] /\ v5'[d].status = "APPROVED" /\ v5'[d].order = v5[d].order
          /\ \A e \in Aff!Docs \ {d} : v5'[e] = v5[e]
        BY <2>1, <2>2, AffStays DEF Aff!Commission
    <2>5. v10' \in Marks /\ (Aff!Straight' => Aff!Straight /\ v5[d] = m.doc[d])
        <3>1. Aff!SavedOver(c, d) \in BOOLEAN
            BY DEF Aff!SavedOver
        <3> QED BY <2>2, <3>1, AffStays DEF Marks, Aff!Straight, Aff!SavedOver
    <2>6. ASSUME Aff!Straight'
          PROVE  /\ \A e \in Aff!Docs : AffLive(e, v5') <=> AffLive(e, v5)
                 /\ \A e \in Aff!Docs : v5'[e].order = v5[e].order /\ ~AffReverses(m, e)
                 /\ AffSpends(r, v5')
        <3>1. v5[d].status = "QUALIFIED"
            BY <1>0, <2>1, <2>2, <2>5, <2>6 DEF AffSpends
        <3>2. \A e \in Aff!Docs : AffLive(e, v5') <=> AffLive(e, v5)
            BY <2>4, <3>1 DEF AffLive
        <3>3. \A e \in Aff!Docs : v5'[e].order = v5[e].order /\ ~AffReverses(m, e)
            BY <2>2, <2>4 DEF AffReverses
        <3>4. AffSpends(r, v5')
            BY <1>0, <2>2, <2>3, <2>5, <2>6 DEF AffSpends
        <3> QED BY <3>2, <3>3, <3>4
    <2>7. AffCallDocOK(r)
        BY <1>0, <2>2, <2>3 DEF AffCallDocOK
    <2> QED BY <2>2, <2>3, <2>4, <2>5, <2>6, <2>7, AffStays, AffGoes
<1> QED BY <1>1, <1>2, <1>3

LEMMA AffCall ==
    ASSUME Aff!AffiliateInv, NEW c \in Firsts
    PROVE  v8[c] \in Aff!CallDoc /\ AffCallDocOK(v8[c]) /\ (Aff!Straight => AffSpends(v8[c], v5))
BY AffStays, AffLives DEF Aff!CallOK, AffCallDocOK, Aff!ReversalsOK, Aff!SpendOK, AffSpends, Aff!CallDoc

\* processPaidInvoice.
LEMMA AffLooks == ASSUME Aff!AffiliateInv, NEW c \in Firsts, Aff!Look(c) PROVE Aff!AffiliateInv'
<1> DEFINE m == v8[c]
<1>0. m \in Aff!CallDoc /\ AffCallDocOK(m) /\ (Aff!Straight => AffSpends(m, v5))
    BY AffCall
<1>1. m.at = "look" /\ UNCHANGED <<v1, v2, v3, v4, v5, v6, v7, v9>> /\ m.order \in Seconds
    BY <1>0 DEF Aff!Look, AffCallDocOK
<1>2. \A d \in Aff!Docs : ~AffReverses(m, d)
    BY <1>1 DEF AffReverses
<1>3. CASE Aff!Done(c) /\ UNCHANGED v10
    <2>1. Aff!Straight' => Aff!Straight
        BY <1>3 DEF Aff!Straight
    <2> QED BY <1>1, <1>2, <1>3, <2>1, AffStays, AffEnds
<1>4. CASE ~(Aff!Done(c) /\ UNCHANGED v10)
    <2> DEFINE r == [m EXCEPT !.at = "create"]
    <2>1. /\ v8' = [v8 EXCEPT ![c] = r]
          /\ v10' = v10 \/ v10' = [v10 EXCEPT !.raced = @ \cup {v1[m.order]}]
        BY <1>4 DEF Aff!Look, Aff!Set
    <2>2. r \in Aff!CallDoc /\ r.at = "create" /\ r.op = m.op /\ r.order = m.order /\ r.todo = m.todo /\ r.doc = m.doc
        BY <1>0 DEF Aff!CallDoc
    <2> HIDE DEF r
    <2>3. AffCallDocOK(r) /\ (Aff!Straight => AffSpends(r, v5))
        BY <1>0, <1>1, <2>2 DEF AffCallDocOK, AffSpends
    <2>4. v1[m.order] \in Ones
        BY <1>1, AffStays
    <2>5. v10' \in Marks /\ (Aff!Straight' => Aff!Straight)
        BY <2>1, <2>4, AffStays DEF Marks, Aff!Straight
    <2> QED BY <1>1, <1>2, <2>1, <2>2, <2>3, <2>5, AffStays, AffQuiet
<1> QED BY <1>3, <1>4

LEMMA AffCreates == ASSUME Aff!AffiliateInv, NEW c \in Firsts, Aff!Create(c) PROVE Aff!AffiliateInv'
<1> DEFINE m == v8[c]
           n == Aff!NextDoc
           doc == [Aff!NoCommission EXCEPT !.order = m.order, !.amount = Earned, !.status = "QUALIFIED"]
           r == Aff!Ready
<1>0. m \in Aff!CallDoc /\ AffCallDocOK(m) /\ (Aff!Straight => AffSpends(m, v5))
    BY AffCall
<1>1. /\ m.at = "create" /\ n \in Aff!Docs /\ v5' = [v5 EXCEPT ![n] = doc] /\ v8' = [v8 EXCEPT ![c] = r]
      /\ UNCHANGED <<v1, v2, v3, v4, v6, v7, v9, v10>>
    BY DEF Aff!Create, Aff!Done, Aff!Set
<1>2. m.op = "paid" /\ m.order \in Seconds
    BY <1>0, <1>1 DEF AffCallDocOK
<1>3. doc \in Aff!Commission /\ doc.order = m.order /\ doc.status = "QUALIFIED"
    BY <1>2, AffBounds, AffIdle DEF Aff!Commission
<1>4. r \in Aff!CallDoc /\ AffCallDocOK(r) /\ r.op = "none" /\ AffSpends(r, v5')
    BY AffIdle
<1>5. n \notin Aff!Made
    BY AffNextDoc
<1> HIDE DEF n, doc, r
<1>6. ~AffLive(n, v5)
    BY <1>1, <1>5 DEF AffLive, Aff!Made, Aff!Of
<1>7. v5' \in [Aff!Docs -> Aff!Commission] /\ v5'[n].order = m.order /\ \A d \in Aff!Docs \ {n} : v5'[d] = v5[d]
    BY <1>1, <1>3, AffStays
<1>8. \A d \in Aff!Docs : ~AffReverses(m, d)
    BY <1>1 DEF AffReverses
<1>9. (Aff!Straight' => Aff!Straight) /\ (Aff!Straight => m.order \in v4)
    BY <1>0, <1>1, <1>2 DEF Aff!Straight, AffSpends
<1>10. \A d \in Aff!Docs : AffLive(d, v5) => v5'[d] = v5[d] /\ AffLive(d, v5')
    BY <1>6, <1>7 DEF AffLive
<1>11. \A d \in Aff!Docs : AffLive(d, v5') => AffLive(d, v5) \/ d = n
    BY <1>7 DEF AffLive
<1> QED BY <1>1, <1>4, <1>7, <1>8, <1>9, <1>10, <1>11, AffStays, AffGoes

\* A call that goes on to look for something, or ends.
LEMMA AffSteps ==
    ASSUME Aff!AffiliateInv, NEW c \in Firsts, Aff!ReadClient(c) \/ Aff!CheckPending(c) \/ Aff!Collect(c)
    PROVE  Aff!AffiliateInv'
<1> DEFINE m == v8[c]
<1>0. m \in Aff!CallDoc /\ AffCallDocOK(m) /\ (Aff!Straight => AffSpends(m, v5))
    BY AffCall
<1>1. UNCHANGED <<v1, v2, v3, v4, v5, v6, v7, v9, v10>> /\ m.at \in {"client", "pending", "collect"}
    BY DEF Aff!ReadClient, Aff!CheckPending, Aff!Collect
<1>2. (Aff!Straight' => Aff!Straight) /\ \A d \in Aff!Docs : ~AffReverses(m, d)
    BY <1>1 DEF AffReverses, Aff!Straight
<1>3. CASE Aff!Done(c)
    BY <1>1, <1>2, <1>3, AffStays, AffEnds
<1>4. ASSUME NEW a \in {"collect", "request", "find"}, a = "request" => m.op = "payout",
             NEW r \in Aff!CallDoc, v8' = [v8 EXCEPT ![c] = r], r.at = a, r.op = m.op, r.order = m.order
      PROVE  Aff!AffiliateInv'
    <2>1. AffCallDocOK(r)
        BY <1>0, <1>4 DEF AffCallDocOK
    <2>2. Aff!Straight => AffSpends(r, v5)
        BY <1>0, <1>4 DEF AffSpends
    <2> QED BY <1>1, <1>2, <1>4, <2>1, <2>2, AffStays, AffQuiet
<1>5. CASE Aff!ReadClient(c)
    <2> DEFINE r == [m EXCEPT !.at = "collect", !.credit = v6]
    <2>1. v8' = [v8 EXCEPT ![c] = r]
        BY <1>5 DEF Aff!ReadClient, Aff!Set
    <2>2. r \in Aff!CallDoc /\ r.at = "collect" /\ r.op = m.op /\ r.order = m.order
        BY <1>0, AffStays DEF Aff!CallDoc
    <2> QED BY <1>4, <2>1, <2>2
<1>6. ASSUME NEW a \in {"collect", "request", "find"}, a = "request" => m.op = "payout", Aff!Set(c, [m EXCEPT !.at = a])
      PROVE  Aff!AffiliateInv'
    <2> DEFINE r == [m EXCEPT !.at = a]
    <2>1. v8' = [v8 EXCEPT ![c] = r]
        BY <1>6 DEF Aff!Set
    <2>2. r \in Aff!CallDoc /\ r.at = a /\ r.op = m.op /\ r.order = m.order
        BY <1>0 DEF Aff!CallDoc
    <2> HIDE DEF r
    <2> QED BY <1>4, <1>6, <2>1, <2>2
<1>7. CASE Aff!CheckPending(c)
    BY <1>3, <1>6, <1>7 DEF Aff!CheckPending
<1>8. CASE Aff!Collect(c)
    BY <1>3, <1>6, <1>8 DEF Aff!Collect
<1> QED BY <1>5, <1>7, <1>8

LEMMA AffRequests == ASSUME Aff!AffiliateInv, NEW c \in Firsts, NEW p \in Ones, Aff!CreateRequest(c, p) PROVE Aff!AffiliateInv'
<1> DEFINE m == v8[c]
           r == [m EXCEPT !.at = "find", !.payout = p]
           request == [status |-> "PENDING", amount |-> m.amount]
<1>0. m \in Aff!CallDoc /\ AffCallDocOK(m) /\ (Aff!Straight => AffSpends(m, v5))
    BY AffCall
<1>1. /\ UNCHANGED <<v1, v2, v3, v4, v5, v6, v9, v10>> /\ m.at = "request"
      /\ v7' = [v7 EXCEPT ![p] = request] /\ v8' = [v8 EXCEPT ![c] = r]
    BY DEF Aff!CreateRequest, Aff!Set
<1>2. (Aff!Straight' => Aff!Straight) /\ \A d \in Aff!Docs : ~AffReverses(m, d)
    BY <1>1 DEF AffReverses, Aff!Straight
<1>3. r \in Aff!CallDoc /\ r.at = "find" /\ r.op = m.op /\ r.order = m.order
    BY <1>0 DEF Aff!CallDoc
<1>4. request \in PayoutDoc
    BY <1>0 DEF PayoutDoc, Aff!CallDoc, Aff!PayoutStates
<1> HIDE DEF r, request
<1>5. AffCallDocOK(r) /\ (Aff!Straight => AffSpends(r, v5)) /\ v7' \in [Ones -> PayoutDoc]
    BY <1>0, <1>1, <1>3, <1>4, AffStays DEF AffCallDocOK, AffSpends
<1> QED BY <1>1, <1>2, <1>3, <1>5, AffStays, AffQuiet

LEMMA AffFinds == ASSUME Aff!AffiliateInv, NEW c \in Firsts, Aff!FindDocs(c) PROVE Aff!AffiliateInv'
<1> DEFINE m == v8[c]
           todo == IF m.op = "reverse" THEN {d \in Aff!Made \ Aff!Of("REVERSED") : v5[d].order = m.order}
                   ELSE Aff!Of("APPROVED")
           r == [m EXCEPT !.at = "change", !.doc = v5, !.todo = todo]
<1>0. m \in Aff!CallDoc /\ AffCallDocOK(m) /\ (Aff!Straight => AffSpends(m, v5))
    BY AffCall
<1>1. /\ UNCHANGED <<v1, v2, v3, v4, v5, v6, v7, v9, v10>> /\ m.at = "find" /\ v8' = [v8 EXCEPT ![c] = r]
    BY DEF Aff!FindDocs, Aff!Set
<1>2. /\ todo \in SUBSET Aff!Docs /\ (m.op # "reverse" => \A d \in todo : AffLive(d, v5))
      /\ m.op = "reverse" => \A d \in Aff!Docs : AffLive(d, v5) /\ v5[d].order = m.order => d \in todo
    BY DEF Aff!Made, Aff!Of, AffLive
<1> HIDE DEF todo
<1>3. r \in Aff!CallDoc /\ r.at = "change" /\ r.op = m.op /\ r.order = m.order /\ r.todo = todo /\ r.doc = v5
    BY <1>0, <1>2, AffStays DEF Aff!CallDoc
<1> HIDE DEF r
<1>4. AffCallDocOK(r) /\ (Aff!Straight => AffSpends(r, v5))
    BY <1>0, <1>2, <1>3 DEF AffCallDocOK, AffSpends, Aff!Spends
<1>5. \A d \in Aff!Docs : AffLive(d, v5) /\ AffReverses(m, d) => AffReverses(r, d)
    BY <1>1, <1>2, <1>3 DEF AffReverses
<1>6. Aff!Straight' => Aff!Straight
    BY <1>1 DEF Aff!Straight
<1> QED BY <1>1, <1>3, <1>4, <1>5, <1>6, AffStays, AffQuiet

\* One commission is saved, and stays one that counts.
LEMMA AffSaves ==
    ASSUME Aff!AffiliateInv, NEW c \in Firsts, NEW r \in Aff!CallDoc, v8' = [v8 EXCEPT ![c] = r], AffCallDocOK(r),
           r.op = v8[c].op, NEW d \in v8[c].todo, NEW doc \in Aff!Commission, v5' = [v5 EXCEPT ![d] = doc],
           d \in Aff!Docs => doc.order = v5[d].order,
           v8[c].op \in {"redeem", "payout"}, v8[c].at = "change", r.at \in {"change", "split"},
           r.todo \subseteq v8[c].todo, r.doc = v8[c].doc, r.at = "split" \/ d \notin r.todo,
           doc.status \in {v5[d].status, "PAYOUT_REQUESTED", "CREDITED"}, v10' \in Marks, Aff!Straight' => Aff!Straight,
           UNCHANGED <<v1, v2, v3, v4, v6, v7, v9>>
    PROVE  Aff!AffiliateInv'
<1>0. /\ v8[c] \in Aff!CallDoc /\ d \in Aff!Docs /\ (Aff!Straight => AffSpends(v8[c], v5))
      /\ v8[c].todo \in SUBSET Aff!Docs
    BY AffCall DEF Aff!CallDoc
<1>1. v5' \in [Aff!Docs -> Aff!Commission] /\ v5'[d] = doc /\ \A e \in Aff!Docs \ {d} : v5'[e] = v5[e]
    BY <1>0, AffStays
<1>2. ASSUME Aff!Straight
      PROVE  /\ \A e \in Aff!Docs : AffLive(e, v5) => v5'[e].order = v5[e].order /\ AffLive(e, v5')
             /\ \A e \in Aff!Docs : AffLive(e, v5') => AffLive(e, v5)
    <2>1. AffLive(d, v5)
        BY <1>0, <1>2 DEF AffSpends, Aff!Spends
    <2>2. AffLive(d, v5')
        BY <1>0, <1>1, <2>1 DEF AffLive
    <2> QED BY <1>0, <1>1, <2>1, <2>2 DEF AffLive
<1>3. ASSUME Aff!Straight PROVE AffSpends(r, v5')
    <2>1. \A e \in r.todo : e \in Aff!Docs /\ AffLive(e, v5) /\ v8[c].doc[e].order = v5[e].order
        BY <1>0, <1>3 DEF AffSpends, Aff!Spends
    <2> QED BY <1>2, <1>3, <2>1 DEF AffSpends
<1>4. \A e \in Aff!Docs : ~AffReverses(v8[c], e)
    BY DEF AffReverses
<1> QED BY <1>1, <1>2, <1>3, <1>4, AffStays, AffGoes

LEMMA AffTodo ==
    ASSUME Aff!AffiliateInv, NEW c \in Firsts, v8[c].todo # {}
    PROVE  /\ Aff!Min(v8[c].todo) \in v8[c].todo /\ Aff!Min(v8[c].todo) \in Aff!Docs
           /\ v8[c].doc[Aff!Min(v8[c].todo)] \in Aff!Commission /\ v5[Aff!Min(v8[c].todo)] \in Aff!Commission
<1>1. v8[c].todo \in SUBSET Aff!Docs /\ v8[c].doc \in [Aff!Docs -> Aff!Commission]
    BY AffStays DEF Aff!CallDoc
<1>2. Aff!Min(v8[c].todo) \in v8[c].todo
    BY <1>1, AffMin
<1> QED BY <1>1, <1>2, AffStays

LEMMA AffOver ==
    ASSUME Aff!AffiliateInv, NEW b \in BOOLEAN, v10' = [v10 EXCEPT !.over = @ \/ b]
    PROVE  v10' \in Marks /\ (Aff!Straight' => Aff!Straight /\ ~b)
BY AffStays DEF Marks, Aff!Straight

\* allocateApprovedAmount.
LEMMA AffAllocates ==
    ASSUME Aff!AffiliateInv, NEW c \in Firsts, Aff!AllocateWhole(c) \/ Aff!AllocateRest(c) PROVE Aff!AffiliateInv'
<1> DEFINE m == v8[c]
           d == Aff!Min(m.todo)
           available == m.doc[d].amount
<1>0. m \in Aff!CallDoc /\ AffCallDocOK(m) /\ m.left \in Nat /\ m.payout \in Ones \cup {Nobody}
    BY AffCall DEF Aff!CallDoc
<1>1. m.at = "change" /\ m.op \in {"redeem", "payout"} /\ m.todo # {} /\ UNCHANGED <<v1, v2, v3, v4, v6, v7, v9>>
    BY DEF Aff!AllocateWhole, Aff!AllocateRest
<1>2. d \in m.todo /\ d \in Aff!Docs /\ available \in Nat /\ v5[d] \in Aff!Commission
    BY <1>1, AffTodo DEF Aff!Commission
<1>3. v10' \in Marks /\ (Aff!Straight' => Aff!Straight)
    <2>1. Aff!SavedOver(c, d) \in BOOLEAN
        BY DEF Aff!SavedOver
    <2>2. v10' = [v10 EXCEPT !.over = @ \/ Aff!SavedOver(c, d)]
        BY DEF Aff!AllocateWhole, Aff!AllocateRest
    <2> HIDE DEF d
    <2> QED BY <2>1, <2>2, AffOver
<1>4. CASE Aff!AllocateWhole(c)
    <2> DEFINE s == Aff!Spent(m.op)
               q == IF m.op = "payout" THEN m.payout ELSE v5[d].payout
               r == [m EXCEPT !.todo = @ \ {d}, !.left = @ - available]
    <2>1. s \in {"PAYOUT_REQUESTED", "CREDITED"} /\ q \in Ones \cup {Nobody}
        BY <1>0, <1>2 DEF Aff!Spent, Aff!Commission
    <2>2. v5' = [v5 EXCEPT ![d].status = s, ![d].payout = IF m.op = "payout" THEN m.payout ELSE @]
        BY <1>4 DEF Aff!AllocateWhole
    <2>3. v8' = [v8 EXCEPT ![c] = r] /\ m.left >= available
        BY <1>4 DEF Aff!AllocateWhole, Aff!Set
    <2> HIDE DEF d, available
    <2>4. PICK n \in Nat : n = m.left - available
        BY <1>0, <1>2, <2>3
    <2>5. r = [m EXCEPT !.todo = m.todo \ {d}, !.left = n]
        BY <2>4
    <2>6. r \in Aff!CallDoc /\ r.at = m.at /\ r.op = m.op /\ r.order = m.order /\ r.todo = m.todo \ {d} /\ r.doc = m.doc
        BY <1>0, <2>5 DEF Aff!CallDoc
    <2> DEFINE doc == [v5[d] EXCEPT !.status = s, !.payout = q]
    <2>7. v5' = [v5 EXCEPT ![d] = doc]
        BY <1>2, <2>2, AffStays
    <2> HIDE DEF r, s, q
    <2>8. doc \in Aff!Commission /\ doc.order = v5[d].order /\ doc.status = s
        BY <1>2, <2>1 DEF Aff!Commission
    <2> HIDE DEF doc
    <2>9. AffCallDocOK(r)
        BY <1>0, <1>1, <2>6 DEF AffCallDocOK
    <2> QED BY <1>1, <1>2, <1>3, <2>1, <2>3, <2>6, <2>7, <2>8, <2>9, AffSaves
<1>5. CASE Aff!AllocateRest(c)
    <2> DEFINE r == [m EXCEPT !.at = "split", !.todo = {d}]
    <2>1. /\ v5' = [v5 EXCEPT ![d].amount = available - m.left] /\ v8' = [v8 EXCEPT ![c] = r] /\ m.left < available
        BY <1>5 DEF Aff!AllocateRest, Aff!Set
    <2> HIDE DEF d, available
    <2>2. PICK n \in Nat : n = available - m.left
        BY <1>0, <1>2, <2>1
    <2> DEFINE doc == [v5[d] EXCEPT !.amount = n]
    <2>3. v5' = [v5 EXCEPT ![d] = doc]
        BY <1>2, <2>1, <2>2, AffStays
    <2>4. doc \in Aff!Commission /\ doc.order = v5[d].order /\ doc.status = v5[d].status
        BY <1>2 DEF Aff!Commission
    <2> HIDE DEF doc
    <2>5. r \in Aff!CallDoc /\ r.at = "split" /\ r.op = m.op /\ r.order = m.order /\ r.todo = {d} /\ r.doc = m.doc
        BY <1>0, <1>2 DEF Aff!CallDoc
    <2> HIDE DEF r
    <2>6. AffCallDocOK(r)
        BY <1>0, <1>1, <2>5 DEF AffCallDocOK
    <2>7. r.todo \subseteq m.todo /\ r.at \in {"change", "split"} /\ doc.status \in {v5[d].status, "PAYOUT_REQUESTED", "CREDITED"}
        BY <1>2, <2>4, <2>5
    <2> QED BY <1>1, <1>2, <1>3, <2>1, <2>3, <2>4, <2>5, <2>6, <2>7, AffSaves
<1> QED BY <1>4, <1>5

LEMMA AffParts == ASSUME Aff!AffiliateInv, NEW c \in Firsts, Aff!AllocatePart(c) PROVE Aff!AffiliateInv'
<1> DEFINE m == v8[c]
           n == Aff!NextDoc
           d == Aff!Min(m.todo)
           s == Aff!Spent(m.op)
           source == m.doc[d]
           doc == [source EXCEPT !.status = s, !.payout = m.payout, !.amount = m.left]
           r == [m EXCEPT !.at = "change", !.todo = {}, !.left = 0]
<1>0. m \in Aff!CallDoc /\ AffCallDocOK(m) /\ m.left \in Nat /\ m.payout \in Ones \cup {Nobody}
      /\ (Aff!Straight => AffSpends(m, v5))
    BY AffCall DEF Aff!CallDoc
<1>1. /\ m.at = "split" /\ n \in Aff!Docs /\ v5' = [v5 EXCEPT ![n] = doc] /\ v8' = [v8 EXCEPT ![c] = r]
      /\ UNCHANGED <<v1, v2, v3, v4, v6, v7, v9, v10>>
    BY DEF Aff!AllocatePart, Aff!Part, Aff!Set
<1>2. m.op \in {"redeem", "payout"} /\ m.todo # {}
    BY <1>0, <1>1 DEF AffCallDocOK
<1>3. d \in m.todo /\ d \in Aff!Docs /\ source \in Aff!Commission
    BY <1>2, AffTodo
<1>4. n \notin Aff!Made
    BY AffNextDoc
<1>5. s \in {"PAYOUT_REQUESTED", "CREDITED"}
    BY <1>2 DEF Aff!Spent
<1> HIDE DEF s
<1>6. doc \in Aff!Commission /\ doc.order = source.order /\ doc.status = s
    <2> HIDE DEF source
    <2> QED BY <1>0, <1>3, <1>5 DEF Aff!Commission
<1> HIDE DEF doc
<1>7. r \in Aff!CallDoc /\ r.at = "change" /\ r.op = m.op /\ r.order = m.order /\ r.todo = {} /\ r.doc = m.doc
    BY <1>0 DEF Aff!CallDoc
<1> HIDE DEF n, r
<1>8. ~AffLive(n, v5)
    BY <1>1, <1>4 DEF AffLive, Aff!Made, Aff!Of
<1>9. v5' \in [Aff!Docs -> Aff!Commission] /\ v5'[n] = doc /\ \A e \in Aff!Docs \ {n} : v5'[e] = v5[e]
    BY <1>1, <1>6, AffStays
<1>10. \A e \in Aff!Docs : ~AffReverses(m, e)
    BY <1>1 DEF AffReverses
<1>11. ASSUME Aff!Straight PROVE doc.order \in v4
    <2>1. AffLive(d, v5) /\ source.order = v5[d].order
        BY <1>0, <1>1, <1>2, <1>3, <1>11 DEF AffSpends, Aff!Spends
    <2>2. v5[d].order \in v4 \/ \E a \in Firsts : Aff!Reversing(a, d)
        BY <1>3, <1>11, <2>1, AffStays, AffLives DEF Aff!ReversalsOK
    <2>3. \A a \in Firsts : ~Aff!Reversing(a, d)
        BY <1>2, <1>11, AffStays DEF Aff!ReversalsOK, Aff!SpendOK, Aff!Reversing, Aff!Spends
    <2> QED BY <1>6, <2>1, <2>2, <2>3
<1>12. Aff!Straight' => Aff!Straight
    BY <1>1 DEF Aff!Straight
<1>13. \A e \in Aff!Docs : AffLive(e, v5) => v5'[e] = v5[e] /\ AffLive(e, v5')
    BY <1>8, <1>9 DEF AffLive
<1>14. \A e \in Aff!Docs : AffLive(e, v5') => AffLive(e, v5) \/ e = n
    BY <1>9 DEF AffLive
<1>15. AffCallDocOK(r) /\ (Aff!Straight => AffSpends(r, v5'))
    BY <1>0, <1>2, <1>7 DEF AffCallDocOK, AffSpends
<1> QED BY <1>1, <1>7, <1>9, <1>10, <1>11, <1>12, <1>13, <1>14, <1>15, AffStays, AffGoes

LEMMA AffAllocated == ASSUME Aff!AffiliateInv, NEW c \in Firsts, Aff!Allocated(c) PROVE Aff!AffiliateInv'
<1>1. /\ UNCHANGED <<v1, v2, v3, v4, v5, v7, v9>> /\ Aff!Done(c) /\ v8[c].op \in {"redeem", "payout"}
    BY DEF Aff!Allocated
<1>2. v6' \in Nat
    <2>1. v8[c].credit \in Nat /\ v8[c].amount \in Nat
        BY AffStays DEF Aff!CallDoc
    <2>2. v6' = v8[c].credit + v8[c].amount \/ v6' = v6
        BY DEF Aff!Allocated
    <2> QED BY <2>1, <2>2, AffStays
<1>3. v10' \in Marks /\ (Aff!Straight' => Aff!Straight)
    <2> DEFINE b == v6 # v8[c].credit
    <2>1. v10' = [v10 EXCEPT !.over = @ \/ b] \/ v10' = v10
        BY DEF Aff!Allocated
    <2>2. b \in BOOLEAN
        OBVIOUS
    <2> HIDE DEF b
    <2> QED BY <2>1, <2>2, AffOver, AffStays DEF Aff!Straight
<1>4. \A d \in Aff!Docs : ~AffReverses(v8[c], d)
    BY <1>1 DEF AffReverses
<1> QED BY <1>1, <1>2, <1>3, <1>4, AffStays, AffEnds

\* reverseCommissionsForInvoice.
LEMMA AffReversals ==
    ASSUME Aff!AffiliateInv, NEW c \in Firsts, Aff!ReverseEnds(c) \/ Aff!ReverseReadClient(c) \/ Aff!ReverseDebit(c)
    PROVE  Aff!AffiliateInv'
<1> DEFINE m == v8[c]
<1>0. /\ m \in Aff!CallDoc /\ AffCallDocOK(m) /\ (Aff!Straight => AffSpends(m, v5))
      /\ UNCHANGED <<v1, v2, v3, v4, v5, v7, v9>>
    BY AffCall DEF Aff!ReverseEnds, Aff!ReverseReadClient, Aff!ReverseDebit
<1>1. CASE Aff!ReverseEnds(c)
    <2>1. \A d \in Aff!Docs : ~AffReverses(m, d)
        BY <1>1 DEF Aff!ReverseEnds, AffReverses
    <2>2. Aff!Done(c) /\ UNCHANGED <<v6, v10>> /\ (Aff!Straight' => Aff!Straight)
        BY <1>1 DEF Aff!ReverseEnds, Aff!Straight
    <2> QED BY <1>0, <2>1, <2>2, AffStays, AffEnds
<1>2. ASSUME m.op = "reverse", m.at \in {"change", "debit"}, m.todo # {}, NEW a \in {"debit", "reversed"},
             NEW r \in Aff!CallDoc, v8' = [v8 EXCEPT ![c] = r], r.at = a, r.op = m.op, r.todo = m.todo, r.order = m.order,
             v6' \in Nat, v10' \in Marks, Aff!Straight' => Aff!Straight
      PROVE  Aff!AffiliateInv'
    <2>1. AffCallDocOK(r) /\ AffSpends(r, v5)
        BY <1>2 DEF AffCallDocOK, AffSpends, Aff!Spends
    <2>2. \A d \in Aff!Docs : AffReverses(m, d) => AffReverses(r, d)
        BY <1>2 DEF AffReverses
    <2> QED BY <1>0, <1>2, <2>1, <2>2, AffStays, AffQuiet
<1>3. CASE Aff!ReverseReadClient(c)
    <2> DEFINE r == [m EXCEPT !.at = "debit", !.credit = v6]
    <2>1. v8' = [v8 EXCEPT ![c] = r] /\ m.op = "reverse" /\ m.at = "change" /\ m.todo # {} /\ UNCHANGED <<v6, v10>>
        BY <1>3 DEF Aff!ReverseReadClient, Aff!Set
    <2>2. r \in Aff!CallDoc /\ r.at = "debit" /\ r.op = m.op /\ r.order = m.order /\ r.todo = m.todo
        BY <1>0, AffStays DEF Aff!CallDoc
    <2> HIDE DEF r
    <2>3. v6' \in Nat /\ v10' \in Marks /\ (Aff!Straight' => Aff!Straight)
        BY <2>1, AffStays DEF Aff!Straight
    <2> QED BY <1>2, <2>1, <2>2, <2>3
<1>4. CASE Aff!ReverseDebit(c)
    <2> DEFINE r == [m EXCEPT !.at = "reversed"]
               b == v6 # m.credit
    <2>1. v8' = [v8 EXCEPT ![c] = r] /\ m.at = "debit" /\ v10' = [v10 EXCEPT !.over = @ \/ b] /\ v6' = Aff!Debited(c)
        BY <1>4 DEF Aff!ReverseDebit, Aff!Set
    <2>2. m.op = "reverse" /\ m.todo # {}
        BY <1>0, <2>1 DEF AffCallDocOK
    <2>3. r \in Aff!CallDoc /\ r.at = "reversed" /\ r.op = m.op /\ r.order = m.order /\ r.todo = m.todo
        BY <1>0 DEF Aff!CallDoc
    <2>4. b \in BOOLEAN
        OBVIOUS
    <2> HIDE DEF r, b
    <2>5. v10' \in Marks /\ (Aff!Straight' => Aff!Straight)
        BY <2>1, <2>4, AffOver
    <2>6. v6' \in Nat
        <3> DEFINE n == m.doc[Aff!Min(m.todo)].amount
        <3>1. n \in Nat /\ m.credit \in Nat
            BY <1>0, <2>2, AffTodo DEF Aff!Commission, Aff!CallDoc
        <3>2. v6' = IF m.credit - n > 0 THEN m.credit - n ELSE 0
            BY <2>1 DEF Aff!Debited
        <3> HIDE DEF n
        <3> QED BY <3>1, <3>2
    <2> QED BY <1>2, <2>1, <2>2, <2>3, <2>5, <2>6
<1> QED BY <1>1, <1>3, <1>4

LEMMA AffReverse == ASSUME Aff!AffiliateInv, NEW c \in Firsts, Aff!ReverseDoc(c) PROVE Aff!AffiliateInv'
<1> DEFINE m == v8[c]
           d == Aff!Min(m.todo)
           r == [m EXCEPT !.at = "change", !.todo = @ \ {d}]
           doc == [v5[d] EXCEPT !.status = "REVERSED"]
<1>0. m \in Aff!CallDoc /\ AffCallDocOK(m)
    BY AffCall
<1>1. /\ m.op = "reverse" /\ m.todo # {} /\ m.at \in {"change", "reversed"}
      /\ v5' = [v5 EXCEPT ![d] = doc] /\ v8' = [v8 EXCEPT ![c] = r]
      /\ v10' = [v10 EXCEPT !.over = @ \/ Aff!SavedOver(c, d)] /\ UNCHANGED <<v1, v2, v3, v4, v6, v7, v9>>
    BY DEF Aff!ReverseDoc, Aff!Set
<1>2. d \in m.todo /\ d \in Aff!Docs /\ v5[d] \in Aff!Commission
    BY <1>1, AffTodo
<1> HIDE DEF d
<1>3. doc \in Aff!Commission /\ doc.order = v5[d].order /\ doc.status = "REVERSED"
    BY <1>2 DEF Aff!Commission
<1>4. r \in Aff!CallDoc /\ r.at = "change" /\ r.op = m.op /\ r.order = m.order /\ r.todo = m.todo \ {d}
    BY <1>0 DEF Aff!CallDoc
<1> HIDE DEF doc, r
<1>5. v5' \in [Aff!Docs -> Aff!Commission] /\ v5'[d] = doc /\ \A e \in Aff!Docs \ {d} : v5'[e] = v5[e]
    BY <1>1, <1>2, <1>3, AffStays
<1>6. v10' \in Marks /\ (Aff!Straight' => Aff!Straight)
    <2>1. Aff!SavedOver(c, d) \in BOOLEAN
        BY DEF Aff!SavedOver
    <2> QED BY <1>1, <2>1, AffOver
<1>7. \A e \in Aff!Docs : v5'[e].order = v5[e].order
    BY <1>3, <1>5
<1>8. \A e \in Aff!Docs : AffLive(e, v5') => AffLive(e, v5) /\ e # d
    BY <1>3, <1>5 DEF AffLive
<1>9. \A e \in Aff!Docs : e # d /\ AffReverses(m, e) => AffReverses(r, e)
    BY <1>1, <1>4 DEF AffReverses
<1>10. AffCallDocOK(r) /\ AffSpends(r, v5')
    BY <1>1, <1>4 DEF AffCallDocOK, AffSpends, Aff!Spends
<1> QED BY <1>1, <1>4, <1>5, <1>6, <1>7, <1>8, <1>9, <1>10, AffStays, AffGoes

\* reviewPayoutRequest.
LEMMA AffReviews == ASSUME Aff!AffiliateInv, NEW c \in Firsts, Aff!ReviewSave(c) PROVE Aff!AffiliateInv'
<1> DEFINE m == v8[c]
           p == m.payout
<1>0. m \in Aff!CallDoc /\ AffCallDocOK(m)
    BY AffCall
<1>1. /\ m.op = "review" /\ m.at = "save" /\ UNCHANGED <<v1, v2, v3, v4, v5, v6, v9>>
    BY DEF Aff!ReviewSave
<1>2. \A d \in Aff!Docs : ~AffReverses(m, d)
    BY <1>1 DEF AffReverses
<1>3. CASE ~Aff!Allowed(m.act, m.status)
    <2>1. Aff!Done(c) /\ UNCHANGED <<v7, v10>>
        BY <1>3 DEF Aff!ReviewSave
    <2>2. Aff!Straight' => Aff!Straight
        BY <2>1 DEF Aff!Straight
    <2> QED BY <1>1, <1>2, <2>1, <2>2, AffStays, AffEnds
<1>4. CASE Aff!Allowed(m.act, m.status)
    <2> DEFINE b == v7[p].status # m.status
               s == Aff!Outcome(m.act)
    <2>1. v7' = [v7 EXCEPT ![p].status = s] /\ v10' = [v10 EXCEPT !.over = @ \/ b]
        BY <1>4 DEF Aff!ReviewSave
    <2>2. b \in BOOLEAN /\ s \in Aff!PayoutStates
        BY DEF Aff!Outcome, Aff!PayoutStates
    <2> HIDE DEF b, s, p
    <2>3. v10' \in Marks /\ (Aff!Straight' => Aff!Straight)
        BY <2>1, <2>2, AffOver
    <2>4. v7' \in [Ones -> PayoutDoc]
        BY <2>1, <2>2, AffStays DEF PayoutDoc
    <2>5. CASE Aff!Done(c)
        BY <1>1, <1>2, <2>3, <2>4, <2>5, AffStays, AffEnds
    <2>6. CASE ~Aff!Done(c)
        <3> DEFINE r == [m EXCEPT !.at = "settle"]
        <3>1. v8' = [v8 EXCEPT ![c] = r]
            BY <1>4, <2>6 DEF Aff!ReviewSave, Aff!Set
        <3>2. r \in Aff!CallDoc /\ r.at = "settle" /\ r.op = m.op
            BY <1>0 DEF Aff!CallDoc
        <3> HIDE DEF r
        <3>3. AffCallDocOK(r) /\ AffSpends(r, v5)
            BY <1>1, <3>2 DEF AffCallDocOK, AffSpends, Aff!Spends
        <3> QED BY <1>1, <1>2, <2>3, <2>4, <3>1, <3>2, <3>3, AffStays, AffQuiet
    <2> QED BY <2>5, <2>6
<1> QED BY <1>3, <1>4

LEMMA AffSettles == ASSUME Aff!AffiliateInv, NEW c \in Firsts, Aff!Settle(c) PROVE Aff!AffiliateInv'
<1> DEFINE m == v8[c]
           p == m.payout
           s == IF m.act = "reject" THEN "APPROVED" ELSE "PAID_OUT"
           q == IF m.act = "reject" THEN Nobody ELSE p
           r == Aff!Ready
           b == \E o \in Firsts \ {c} : v8[o].payout = p
<1>0. m \in Aff!CallDoc /\ p \in Ones \cup {Nobody}
    BY AffCall DEF Aff!CallDoc
<1>1. /\ m.op = "review" /\ v8' = [v8 EXCEPT ![c] = r] /\ UNCHANGED <<v1, v2, v3, v4, v6, v7, v9>>
      /\ v10' = [v10 EXCEPT !.over = @ \/ b]
      /\ v5' = [d \in Aff!Docs |-> IF v5[d].payout # p \/ v5[d].status # "PAYOUT_REQUESTED" THEN v5[d]
                                   ELSE [v5[d] EXCEPT !.status = s, !.payout = q]]
    BY DEF Aff!Settle, Aff!Done, Aff!Set
<1>2. b \in BOOLEAN /\ s \in {"APPROVED", "PAID_OUT"} /\ q \in Ones \cup {Nobody}
    BY <1>0
<1> HIDE DEF b, s, q
<1>3. v10' \in Marks /\ (Aff!Straight' => Aff!Straight)
    BY <1>1, <1>2, AffOver
<1>4. ASSUME NEW d \in Aff!Docs
      PROVE  v5'[d] \in Aff!Commission /\ v5'[d].order = v5[d].order /\ (AffLive(d, v5) <=> AffLive(d, v5'))
    <2>0. v5[d] \in Aff!Commission
        BY AffStays
    <2>1. CASE v5'[d] = v5[d]
        BY <2>0, <2>1 DEF AffLive
    <2>2. CASE v5'[d] # v5[d]
        <3> DEFINE doc == [v5[d] EXCEPT !.status = s, !.payout = q]
        <3>1. v5'[d] = doc /\ v5[d].status = "PAYOUT_REQUESTED"
            BY <1>1, <2>2
        <3>2. doc \in Aff!Commission /\ doc.order = v5[d].order /\ doc.status = s
            BY <1>2, <2>0 DEF Aff!Commission
        <3> HIDE DEF doc
        <3> QED BY <1>2, <3>1, <3>2 DEF AffLive
    <2> QED BY <2>1, <2>2
<1>5. v5' \in [Aff!Docs -> Aff!Commission]
    BY <1>1, <1>4
<1>6. r \in Aff!CallDoc /\ AffCallDocOK(r) /\ r.op = "none" /\ AffSpends(r, v5')
    BY AffIdle
<1>7. \A d \in Aff!Docs : ~AffReverses(m, d)
    BY <1>1 DEF AffReverses
<1> HIDE DEF r
<1> QED BY <1>1, <1>3, <1>4, <1>5, <1>6, <1>7, AffStays, AffGoes

LEMMA AffInit == Aff!AffiliateInit => Aff!AffiliateInv
<1> SUFFICES ASSUME Aff!AffiliateInit PROVE Aff!AffiliateInv
    OBVIOUS
<1>1. 0 \in 0..MaxCalls /\ "none" \in Aff!PayoutStates
    BY AffBounds DEF Aff!PayoutStates
<1>2. v8 \in [Firsts -> Aff!CallDoc] /\ \A c \in Firsts : v8[c] = Aff!Ready
    BY AffIdle DEF Aff!AffiliateInit
<1>3. v5 \in [Aff!Docs -> Aff!Commission] /\ \A d \in Aff!Docs : v5[d].status = "none"
    BY AffIdle DEF Aff!AffiliateInit
<1>4. v7 \in [Ones -> PayoutDoc] /\ v10 \in Marks
    BY <1>1 DEF Aff!AffiliateInit, PayoutDoc, Marks
<1>5. Aff!AffiliateTypeOK
    BY <1>1, <1>2, <1>3, <1>4 DEF Aff!AffiliateInit, Aff!AffiliateTypeOK, Marks, PayoutDoc, Aff!CallDoc
<1>6. \A c \in Firsts : Aff!CallOK(c)
    BY <1>2, AffIdle DEF Aff!CallOK
<1>7. Aff!ReversalsOK
    BY <1>2, <1>3, AffIdle DEF Aff!ReversalsOK, Aff!SpendOK, Aff!Live, Aff!Made, Aff!Of, Aff!Spends
<1> QED BY <1>2, <1>5, <1>6, <1>7 DEF Aff!AffiliateInv

\* Every step keeps the invariant.
LEMMA AffNext == Aff!AffiliateInv /\ [Aff!AffiliateNext]_Aff!affiliateVars => Aff!AffiliateInv'
<1> SUFFICES ASSUME Aff!AffiliateInv, [Aff!AffiliateNext]_Aff!affiliateVars PROVE Aff!AffiliateInv'
    OBVIOUS
<1>1. ASSUME NEW o \in Seconds, Aff!TrackReferral(o) PROVE Aff!AffiliateInv'
    <2>1. v2' \in [Ones -> Seconds \cup {Nobody}] /\ UNCHANGED <<v1, v3, v4, v5, v6, v7, v8, v9, v10>>
        BY <1>1, AffStays DEF Aff!TrackReferral
    <2> QED BY <2>1, AffStays, AffAside
<1>2. CASE Aff!SetProfileStatus
    <2>1. v9' \in 0..MaxCalls /\ v3' \in BOOLEAN /\ UNCHANGED <<v1, v2, v4, v5, v6, v7, v8, v10>>
        BY <1>2, AffStays, AffBounds DEF Aff!SetProfileStatus
    <2> QED BY <2>1, AffStays, AffAside
<1>3. ASSUME NEW c \in Firsts, Aff!Proceeding(c) PROVE Aff!AffiliateInv'
    BY <1>3, AffApproves, AffLooks, AffCreates, AffSteps, AffRequests, AffFinds, AffAllocates, AffParts, AffFails,
       AffAllocated, AffReversals, AffReverse, AffReviews, AffSettles DEF Aff!Proceeding
<1>4. CASE UNCHANGED Aff!affiliateVars
    BY <1>4, AffStays, AffAside DEF Aff!affiliateVars
<1> QED BY <1>1, <1>2, <1>3, <1>4, AffOpening, AffFails DEF Aff!AffiliateNext

LEMMA AffImplies == Aff!AffiliateInv => Aff!AffiliateTypeOK /\ Aff!PaidAgree
<1> SUFFICES ASSUME Aff!AffiliateInv, \A c \in Firsts : v8[c] = Aff!Ready, Aff!Straight PROVE Aff!CommissionsOfPaid
    BY DEF Aff!PaidAgree, Aff!AffiliateInv
<1>1. \A d \in Aff!Live : v5[d].order \in v4
    BY AffStays, AffIdle DEF Aff!ReversalsOK, Aff!Reversing
<1> QED BY <1>1 DEF Aff!CommissionsOfPaid, Aff!Live
-----------------------------------------------------------------------------
(* Catalogue: v1 product, v2 edit, v3 currency, v4 naming, v5 rateOf,       *)
(* v6 rate, v7 quote. Products, currencies and rates do not meet.           *)

EditDoc == [at : {"idle", "looked", "copied", "numbered"}, doc : Cat!ProductRecord]
Renaming == [at : {"renaming"}, id : Firsts, name : Cat!Titles]
Money == [known : BOOLEAN, enabled : BOOLEAN, default : BOOLEAN]
Naming == [code : Codes \cup {"none"}, default : BOOLEAN]

LEMMA CatBounds == Nobody \notin Seconds /\ DefaultCode \in Codes /\ QuoteDay \in Nat /\ Rates \subseteq Nat \ {0}
BY CatalogueAssumption DEF Cat!CatalogueNulls, Cat!CatalogueBounds

LEMMA CatStays ==
    Cat!CatalogueTypeOK <=>
        /\ v1 \in [Firsts -> Cat!ProductRecord]
        /\ \A p, q \in Firsts : Cat!Sold(p) /\ Cat!Sold(q) /\ p # q => v1[p].name # v1[q].name /\ v1[p].pid # v1[q].pid
        /\ v2 \in [Thirds -> EditDoc \cup Renaming] /\ v3 \in [Codes -> Money] /\ v4 \in [Thirds -> Naming]
        /\ v5 \in [0..QuoteDay -> Rates \cup {0}] /\ v6 \in [stored : Rates, runtime : [Thirds -> Rates]]
        /\ v7 \in [held : Cat!Quote, built : [Thirds -> Cat!Quote]]
BY DEF Cat!CatalogueTypeOK, EditDoc, Renaming, Money, Naming

\* The products, and what a request is about to write, given the rest is left alone.
LEMMA CatShelf ==
    ASSUME Cat!CatalogueTypeOK, UNCHANGED Cat!notProducts, v1' \in [Firsts -> Cat!ProductRecord],
           v2' \in [Thirds -> EditDoc \cup Renaming],
           \A p, q \in Firsts : v1'[p].name # Cat!Untitled /\ v1'[q].name # Cat!Untitled /\ p # q
                                   => v1'[p].name # v1'[q].name /\ v1'[p].pid # v1'[q].pid
    PROVE  Cat!CatalogueTypeOK'
<1>1. UNCHANGED <<v3, v4, v5, v6, v7>>
    BY DEF Cat!notProducts
<1>2. Cat!Quote' = Cat!Quote /\ Cat!ProductRecord' = Cat!ProductRecord /\ Cat!Titles' = Cat!Titles /\ Cat!Untitled' = Cat!Untitled
    BY DEF Cat!Quote, Cat!ProductRecord, Cat!Titles, Cat!Untitled
<1> QED BY <1>1, <1>2, CatStays DEF Cat!CatalogueTypeOK, Cat!Sold, EditDoc, Renaming, Money, Naming

LEMMA CatNothing == Cat!NoProduct \in Cat!ProductRecord /\ Cat!NoProduct.name = Cat!Untitled /\ Cat!NoEdit \in EditDoc
<1>1. Cat!Untitled \in Cat!Titles
    BY DEF Cat!Untitled, Cat!Titles
<1>2. Cat!NoProduct \in Cat!ProductRecord /\ Cat!NoProduct.name = Cat!Untitled
    BY <1>1 DEF Cat!NoProduct, Cat!ProductRecord
<1> QED BY <1>2 DEF Cat!NoEdit, EditDoc

LEMMA CatProducts == Cat!CatalogueTypeOK /\ Cat!ProductNext => Cat!CatalogueTypeOK'
<1> SUFFICES ASSUME Cat!CatalogueTypeOK, Cat!ProductNext PROVE Cat!CatalogueTypeOK'
    OBVIOUS
<1>0. /\ v1 \in [Firsts -> Cat!ProductRecord] /\ v2 \in [Thirds -> EditDoc \cup Renaming]
      /\ \A p, q \in Firsts : v1[p].name # Cat!Untitled /\ v1[q].name # Cat!Untitled /\ p # q
                                 => v1[p].name # v1[q].name /\ v1[p].pid # v1[q].pid
    BY CatStays DEF Cat!Sold
<1>a. ASSUME UNCHANGED v1, UNCHANGED Cat!notProducts, NEW e \in Thirds, NEW r \in EditDoc \cup Renaming,
             v2' = [v2 EXCEPT ![e] = r]
      PROVE  Cat!CatalogueTypeOK'
    BY <1>0, <1>a, CatShelf
<1>b. \A e \in Thirds : v2[e].at \in {"looked", "numbered"} => v2[e].doc \in Cat!ProductRecord
    BY <1>0 DEF EditDoc, Renaming
<1>c. \A e \in Thirds : v2[e].at = "renaming" => v2[e].id \in Firsts /\ v2[e].name \in Cat!Titles
    BY <1>0 DEF EditDoc, Renaming
<1>1. ASSUME NEW e \in Thirds, NEW doc \in [name : Cat!Titles \ {Cat!Untitled}, pid : {0}, free : BOOLEAN, cycle : BOOLEAN],
             Cat!ProposeProduct(e, doc)
      PROVE  Cat!CatalogueTypeOK'
    <2>1. doc \in Cat!ProductRecord
        BY DEF Cat!ProductRecord
    <2>2. [at |-> "looked", doc |-> doc] \in EditDoc
        BY <2>1 DEF EditDoc
    <2> QED BY <1>1, <1>a, <2>2 DEF Cat!ProposeProduct, Cat!Write
<1>2. ASSUME NEW e \in Thirds, NEW p \in Firsts, NEW name \in Cat!Titles, Cat!CopyProduct(e, p, name)
      PROVE  Cat!CatalogueTypeOK'
    <2> DEFINE doc == [v1[p] EXCEPT !.name = name, !.pid = 0]
    <2>1. doc \in Cat!ProductRecord
        BY <1>0 DEF Cat!ProductRecord
    <2>2. v2' = [v2 EXCEPT ![e] = [at |-> "looked", doc |-> doc]] /\ UNCHANGED v1 /\ UNCHANGED Cat!notProducts
        BY <1>2 DEF Cat!CopyProduct, Cat!Write
    <2> HIDE DEF doc
    <2>3. [at |-> "looked", doc |-> doc] \in EditDoc
        BY <2>1 DEF EditDoc
    <2> QED BY <1>a, <2>2, <2>3
<1>3. ASSUME NEW e \in Thirds, Cat!NumberProduct(e) PROVE Cat!CatalogueTypeOK'
    <2>1. CASE v2' = [v2 EXCEPT ![e] = Cat!NoEdit]
        BY <1>3, <1>a, <2>1, CatNothing DEF Cat!NumberProduct
    <2>2. CASE v2' # [v2 EXCEPT ![e] = Cat!NoEdit]
        <3>1. PICK n \in Pids : v2' = [v2 EXCEPT ![e] = [at |-> "numbered", doc |-> [v2[e].doc EXCEPT !.pid = n]]]
            BY <1>3, <2>2 DEF Cat!NumberProduct, Cat!Write
        <3> DEFINE doc == [v2[e].doc EXCEPT !.pid = n]
        <3>2. v2[e].doc \in Cat!ProductRecord
            BY <1>3, <1>b DEF Cat!NumberProduct
        <3>3. doc \in Cat!ProductRecord
            BY <3>2 DEF Cat!ProductRecord
        <3>4. v2' = [v2 EXCEPT ![e] = [at |-> "numbered", doc |-> doc]] /\ UNCHANGED v1 /\ UNCHANGED Cat!notProducts
            BY <1>3, <3>1 DEF Cat!NumberProduct
        <3> HIDE DEF doc
        <3>5. [at |-> "numbered", doc |-> doc] \in EditDoc
            BY <3>3 DEF EditDoc
        <3> QED BY <1>a, <3>4, <3>5
    <2> QED BY <2>1, <2>2
<1>4. ASSUME NEW e \in Thirds, Cat!InsertProduct(e) PROVE Cat!CatalogueTypeOK'
    <2> DEFINE doc == v2[e].doc
    <2>1. v2[e].at = "numbered" /\ v2' = [v2 EXCEPT ![e] = Cat!NoEdit] /\ UNCHANGED Cat!notProducts
        BY <1>4 DEF Cat!InsertProduct
    <2>2. doc \in Cat!ProductRecord
        BY <1>b, <2>1
    <2>3. CASE UNCHANGED v1
        BY <1>a, <2>1, <2>3, CatNothing
    <2>4. CASE v1' # v1
        <3>1. /\ \A p \in Firsts : v1[p].name # doc.name /\ v1[p].pid # doc.pid
              /\ \E p \in Firsts : v1' = [v1 EXCEPT ![p] = doc]
            BY <1>4, <2>4 DEF Cat!InsertProduct, Cat!Clashes
        <3>2. PICK p \in Firsts : v1' = [v1 EXCEPT ![p] = doc]
            BY <3>1
        <3> HIDE DEF doc
        <3>3. v1' \in [Firsts -> Cat!ProductRecord] /\ v1'[p] = doc /\ \A q \in Firsts \ {p} : v1'[q] = v1[q]
            BY <1>0, <2>2, <3>2
        <3>4. v2' \in [Thirds -> EditDoc \cup Renaming]
            BY <1>0, <2>1, CatNothing
        <3>5. \A q, s \in Firsts : v1'[q].name # Cat!Untitled /\ v1'[s].name # Cat!Untitled /\ q # s
                                 => v1'[q].name # v1'[s].name /\ v1'[q].pid # v1'[s].pid
            BY <1>0, <3>1, <3>3
        <3> QED BY <2>1, <3>3, <3>4, <3>5, CatShelf
    <2> QED BY <2>3, <2>4
<1>5. ASSUME NEW e \in Thirds, NEW p \in Firsts, NEW name \in Cat!Titles, Cat!LookForRename(e, p, name)
      PROVE  Cat!CatalogueTypeOK'
    <2>1. [at |-> "renaming", id |-> p, name |-> name] \in Renaming
        BY DEF Renaming
    <2> QED BY <1>5, <1>a, <2>1 DEF Cat!LookForRename
<1>6. ASSUME NEW e \in Thirds, Cat!RenameProduct(e) PROVE Cat!CatalogueTypeOK'
    <2> DEFINE i == v2[e].id
               name == v2[e].name
    <2>1. v2[e].at = "renaming" /\ v2' = [v2 EXCEPT ![e] = Cat!NoEdit] /\ UNCHANGED Cat!notProducts
        BY <1>6 DEF Cat!RenameProduct
    <2>2. i \in Firsts /\ name \in Cat!Titles
        BY <1>c, <2>1
    <2>3. CASE UNCHANGED v1
        BY <1>a, <2>1, <2>3, CatNothing
    <2>4. CASE v1' # v1
        <3>1. /\ \A p \in Firsts \ {i} : v1[p].name # name
              /\ v1' = [v1 EXCEPT ![i].name = name] /\ v1[i].name # Cat!Untitled
            BY <1>6, <2>4 DEF Cat!RenameProduct, Cat!Clashes, Cat!Sold
        <3> HIDE DEF i, name
        <3>2. /\ v1' \in [Firsts -> Cat!ProductRecord] /\ v1'[i].name = name /\ v1'[i].pid = v1[i].pid
              /\ \A q \in Firsts \ {i} : v1'[q] = v1[q]
            BY <1>0, <2>2, <3>1 DEF Cat!ProductRecord
        <3>3. v2' \in [Thirds -> EditDoc \cup Renaming]
            BY <1>0, <2>1, CatNothing
        <3>4. \A q, s \in Firsts : v1'[q].name # Cat!Untitled /\ v1'[s].name # Cat!Untitled /\ q # s
                                 => v1'[q].name # v1'[s].name /\ v1'[q].pid # v1'[s].pid
            BY <1>0, <2>2, <3>1, <3>2
        <3> QED BY <2>1, <3>2, <3>3, <3>4, CatShelf
    <2> QED BY <2>3, <2>4
<1>7. ASSUME NEW p \in Firsts, Cat!ChangeProduct(p) PROVE Cat!CatalogueTypeOK'
    <2>1. PICK b \in BOOLEAN : v1' = [v1 EXCEPT ![p].cycle = b]
        BY <1>7 DEF Cat!ChangeProduct
    <2>2. /\ v1' \in [Firsts -> Cat!ProductRecord]
          /\ \A q \in Firsts : v1'[q].name = v1[q].name /\ v1'[q].pid = v1[q].pid
        BY <1>0, <2>1 DEF Cat!ProductRecord
    <2>3. UNCHANGED v2 /\ UNCHANGED Cat!notProducts
        BY <1>7 DEF Cat!ChangeProduct
    <2> QED BY <1>0, <2>2, <2>3, CatShelf
<1>8. ASSUME NEW p \in Firsts, Cat!DeleteProduct(p) PROVE Cat!CatalogueTypeOK'
    <2>1. v1' = [v1 EXCEPT ![p] = Cat!NoProduct] /\ UNCHANGED v2 /\ UNCHANGED Cat!notProducts
        BY <1>8 DEF Cat!DeleteProduct
    <2>2. /\ v1' \in [Firsts -> Cat!ProductRecord] /\ v1'[p].name = Cat!Untitled
          /\ \A q \in Firsts \ {p} : v1'[q] = v1[q]
        BY <1>0, <2>1, CatNothing
    <2> QED BY <1>0, <2>1, <2>2, CatShelf
<1> QED BY <1>1, <1>2, <1>3, <1>4, <1>5, <1>6, <1>7, <1>8 DEF Cat!ProductNext

LEMMA CatCurrencies == Cat!CatalogueTypeOK /\ Cat!CurrencyNext => Cat!CatalogueTypeOK'
<1> SUFFICES ASSUME Cat!CatalogueTypeOK, Cat!CurrencyNext PROVE Cat!CatalogueTypeOK'
    OBVIOUS
<1>0. v3 \in [Codes -> Money] /\ v4 \in [Thirds -> Naming]
    BY CatStays
<1>a. ASSUME v3' \in [Codes -> Money], v4' \in [Thirds -> Naming], UNCHANGED Cat!notCurrencies PROVE Cat!CatalogueTypeOK'
    BY <1>a DEF Cat!notCurrencies, Cat!CatalogueTypeOK, Cat!Sold, Money, Naming
<1>b. ASSUME NEW c, NEW b \in BOOLEAN, NEW f \in BOOLEAN PROVE Cat!Upserted(c, b, f) \in [Codes -> Money]
    <2>1. [known |-> TRUE, enabled |-> b, default |-> f] \in Money
        BY DEF Money
    <2> QED BY <1>0, <2>1 DEF Cat!Upserted
<1>1. CASE Cat!EnsureDefaults
    <2>1. v3' \in [Codes -> Money] /\ UNCHANGED v4 /\ UNCHANGED Cat!notCurrencies
        BY <1>1 DEF Cat!EnsureDefaults, Money
    <2> QED BY <1>0, <1>a, <2>1
<1>2. ASSUME NEW e \in Thirds, NEW c \in Codes, Cat!ClearDefaults(e, c) PROVE Cat!CatalogueTypeOK'
    <2>1. [code |-> c, default |-> TRUE] \in Naming /\ \A d \in Codes : [v3[d] EXCEPT !.default = FALSE] \in Money
        BY <1>0 DEF Naming, Money
    <2>2. v3' \in [Codes -> Money] /\ v4' \in [Thirds -> Naming] /\ UNCHANGED Cat!notCurrencies
        BY <1>0, <1>2, <2>1 DEF Cat!ClearDefaults
    <2> QED BY <1>a, <2>2
<1>3. ASSUME NEW e \in Thirds, NEW b \in BOOLEAN, Cat!UpsertDefault(e, b) PROVE Cat!CatalogueTypeOK'
    <2>1. [code |-> "none", default |-> FALSE] \in Naming
        BY DEF Naming
    <2>2. v3' \in [Codes -> Money] /\ v4' \in [Thirds -> Naming] /\ UNCHANGED Cat!notCurrencies
        BY <1>0, <1>3, <1>b, <2>1 DEF Cat!UpsertDefault
    <2> QED BY <1>a, <2>2
<1>4. ASSUME NEW c \in Codes, NEW b \in BOOLEAN, NEW given \in BOOLEAN, Cat!UpsertCurrency(c, b, given) PROVE Cat!CatalogueTypeOK'
    <2>1. (~given /\ c = DefaultCode) \in BOOLEAN
        OBVIOUS
    <2>2. v3' \in [Codes -> Money] /\ UNCHANGED v4 /\ UNCHANGED Cat!notCurrencies
        BY <1>4, <1>b, <2>1 DEF Cat!UpsertCurrency
    <2> QED BY <1>0, <1>a, <2>2
<1> QED BY <1>1, <1>2, <1>3, <1>4 DEF Cat!CurrencyNext

\* The rate an invoice is reported by is one that was set, for a day or for the process.
LEMMA CatRateAt == ASSUME Cat!CatalogueTypeOK, NEW n \in Thirds PROVE Cat!RateAt(n, QuoteDay) \in Cat!Quote
<1> DEFINE days == {d \in 0..QuoteDay : v5[d] # 0}
           last == CHOOSE d \in days : \A e \in days : e <= d
<1>0. v5 \in [0..QuoteDay -> Rates \cup {0}] /\ v6.runtime[n] \in Rates
    BY CatStays
<1>1. CASE days = {}
    BY <1>0, <1>1 DEF Cat!RateAt, Cat!Quote
<1>2. CASE days # {}
    <2>1. days \in SUBSET (0..QuoteDay)
        OBVIOUS
    <2> HIDE DEF days
    <2>2. \E d \in days : \A e \in days : d >= e
        BY <1>2, <2>1, CatBounds, LastOf
    <2>3. \E d \in days : \A e \in days : e <= d
        <3>1. \A d, e \in days : d >= e => e <= d
            BY <2>1, CatBounds
        <3> QED BY <2>2, <3>1
    <2>4. last \in days
        BY <2>3, Zenon
    <2>5. Cat!RateAt(n, QuoteDay) = [rate |-> v5[last], legacy |-> FALSE]
        BY <1>2 DEF Cat!RateAt, days
    <2> HIDE DEF last
    <2> QED BY <1>0, <2>1, <2>4, <2>5 DEF Cat!Quote
<1> QED BY <1>1, <1>2

LEMMA CatRates == Cat!CatalogueTypeOK /\ Cat!RateNext => Cat!CatalogueTypeOK'
<1> SUFFICES ASSUME Cat!CatalogueTypeOK, Cat!RateNext PROVE Cat!CatalogueTypeOK'
    OBVIOUS
<1>0. /\ v5 \in [0..QuoteDay -> Rates \cup {0}] /\ v6 \in [stored : Rates, runtime : [Thirds -> Rates]]
      /\ v7 \in [held : Cat!Quote, built : [Thirds -> Cat!Quote]] /\ Cat!NoQuote \in Cat!Quote
    BY CatStays DEF Cat!NoQuote, Cat!Quote
<1>a. ASSUME v5' \in [0..QuoteDay -> Rates \cup {0}], v6' \in [stored : Rates, runtime : [Thirds -> Rates]],
             v7' \in [held : Cat!Quote, built : [Thirds -> Cat!Quote]], UNCHANGED Cat!notRates
      PROVE  Cat!CatalogueTypeOK'
    BY <1>a DEF Cat!notRates, Cat!CatalogueTypeOK, Cat!Sold
<1>1. ASSUME NEW n \in Thirds, NEW q \in Cat!Quote PROVE [v7 EXCEPT !.built[n] = q] \in [held : Cat!Quote, built : [Thirds -> Cat!Quote]]
    BY <1>0
<1>2. ASSUME NEW n \in Thirds, Cat!BuildQuote(n) PROVE Cat!CatalogueTypeOK'
    <2>1. PICK q \in Cat!Quote : q = Cat!RateAt(n, QuoteDay)
        BY CatRateAt
    <2>2. v7' = [v7 EXCEPT !.built[n] = q] /\ UNCHANGED <<v5, v6>> /\ UNCHANGED Cat!notRates
        BY <1>2, <2>1 DEF Cat!BuildQuote
    <2> QED BY <1>0, <1>1, <1>a, <2>2
<1>3. ASSUME NEW n \in Thirds, Cat!SaveQuote(n) PROVE Cat!CatalogueTypeOK'
    <2>1. v7' \in [held : Cat!Quote, built : [Thirds -> Cat!Quote]] /\ UNCHANGED <<v5, v6>> /\ UNCHANGED Cat!notRates
        BY <1>0, <1>3 DEF Cat!SaveQuote
    <2> QED BY <1>0, <1>a, <2>1
<1>4. ASSUME NEW n \in Thirds, Cat!NodeStarts(n) PROVE Cat!CatalogueTypeOK'
    <2>1. /\ v6' \in [stored : Rates, runtime : [Thirds -> Rates]] /\ v7' = [v7 EXCEPT !.built[n] = Cat!NoQuote]
          /\ UNCHANGED v5 /\ UNCHANGED Cat!notRates
        BY <1>0, <1>4 DEF Cat!NodeStarts
    <2> QED BY <1>0, <1>1, <1>a, <2>1
<1>5. ASSUME NEW n \in Thirds, NEW r \in Rates, Cat!SaveSettingsRate(n, r) PROVE Cat!CatalogueTypeOK'
    <2>1. /\ v6' \in [stored : Rates, runtime : [Thirds -> Rates]] /\ UNCHANGED <<v5, v7>> /\ UNCHANGED Cat!notRates
        BY <1>0, <1>5 DEF Cat!SaveSettingsRate
    <2> QED BY <1>0, <1>a, <2>1
<1>6. ASSUME NEW d \in 0..QuoteDay, NEW r \in Rates, Cat!SetRate(d, r) PROVE Cat!CatalogueTypeOK'
    <2>1. v5' \in [0..QuoteDay -> Rates \cup {0}] /\ UNCHANGED <<v6, v7>> /\ UNCHANGED Cat!notRates
        BY <1>0, <1>6 DEF Cat!SetRate
    <2> QED BY <1>0, <1>a, <2>1
<1> QED BY <1>2, <1>3, <1>4, <1>5, <1>6 DEF Cat!RateNext

LEMMA CatInit == Cat!CatalogueInit => Cat!CatalogueTypeOK
<1> SUFFICES ASSUME Cat!CatalogueInit PROVE Cat!CatalogueTypeOK
    OBVIOUS
<1>1. Cat!NoQuote \in Cat!Quote
    BY DEF Cat!NoQuote, Cat!Quote
<1>2. v1 \in [Firsts -> Cat!ProductRecord] /\ \A p \in Firsts : ~Cat!Sold(p)
    BY CatNothing DEF Cat!CatalogueInit, Cat!Sold
<1>3. v2 \in [Thirds -> EditDoc \cup Renaming] /\ v3 \in [Codes -> Money] /\ v4 \in [Thirds -> Naming]
    BY CatNothing DEF Cat!CatalogueInit, Money, Naming
<1>4. /\ v5 \in [0..QuoteDay -> Rates \cup {0}] /\ v6 \in [stored : Rates, runtime : [Thirds -> Rates]]
      /\ v7 \in [held : Cat!Quote, built : [Thirds -> Cat!Quote]]
    BY <1>1 DEF Cat!CatalogueInit
<1> QED BY <1>2, <1>3, <1>4, CatStays
-----------------------------------------------------------------------------
(* All the components at once: what holds of each of them in its scenario.  *)

BusinessInv ==
    /\ scenario = "affiliates" => Aff!AffiliateInv
    /\ scenario = "checkout" => Che!CheckoutInv
    /\ scenario = "invoices" => Boo!BookInv
    /\ scenario = "billables" => Bil!BillableInv
    /\ scenario = "hosting" => Hos!HostingInv
    /\ scenario = "accounts" => Acc!AccountInv /\ Acc!FailuresBegun
    /\ scenario = "tickets" => Tic!TicketInv /\ Tic!NumbersOK /\ Tic!NotesOK
    /\ scenario \in Senders => Not!NoticeInv
    /\ scenario \in Routers => Reg!RegistrarInv
    /\ scenario \in Machinery => PanInv
    /\ scenario = "services" => Des!DeskInv /\ v5.requests <= MaxRequests
    /\ scenario \in Shelves => Cat!CatalogueTypeOK

LEMMA DesStarts == Des!DeskInit => v5.requests <= MaxRequests
BY DeskAssumption DEF Des!DeskInit, Des!DeskBounds

LEMMA BusinessBegins == BusinessInit => BusinessInv
<1> SUFFICES ASSUME BusinessInit PROVE BusinessInv
    OBVIOUS
<1>1. scenario = "affiliates" => Aff!AffiliateInv
    BY AffInit DEF BusinessInit, Senders, Routers, Shelves
<1>2. scenario = "checkout" => Che!CheckoutInv
    BY CheInit DEF BusinessInit, Senders, Routers, Shelves
<1>3. scenario = "invoices" => Boo!BookInv
    BY BooInit DEF BusinessInit, Senders, Routers, Shelves
<1>4. scenario = "billables" => Bil!BillableInv
    BY BilInit DEF BusinessInit, Senders, Routers, Shelves
<1>5. scenario = "hosting" => Hos!HostingInv
    BY HosInit DEF BusinessInit, Senders, Routers, Shelves
<1>6. scenario = "accounts" => Acc!AccountInv /\ Acc!FailuresBegun
    BY AccInit, AccStarts DEF BusinessInit, Senders, Routers, Shelves
<1>7. scenario = "tickets" => Tic!TicketInv /\ Tic!NumbersOK /\ Tic!NotesOK
    BY TicInit, TicStarts DEF BusinessInit, Senders, Routers, Shelves
<1>8. scenario \in Senders => Not!NoticeInv
    BY NotInit DEF BusinessInit, Senders, Routers, Shelves
<1>9. scenario \in Routers => Reg!RegistrarInv
    BY RegInit DEF BusinessInit, Senders, Routers, Shelves
<1>10. scenario \in Machinery => PanInv
    BY PanInit DEF BusinessInit, Senders, Routers, Shelves, Machinery
<1>11. scenario = "services" => Des!DeskInv /\ v5.requests <= MaxRequests
    BY DesInit, DesStarts DEF BusinessInit, Senders, Routers, Shelves
<1>12. scenario \in Shelves => Cat!CatalogueTypeOK
    BY CatInit DEF BusinessInit, Senders, Routers, Shelves
<1> QED BY <1>1, <1>2, <1>3, <1>4, <1>5, <1>6, <1>7, <1>8, <1>9, <1>10, <1>11, <1>12 DEF BusinessInv

\* A step of the business is one of the component in its scenario.
LEMMA BusinessMoves ==
    ASSUME BusinessStep
    PROVE  /\ scenario = "affiliates" => Aff!AffiliateNext
           /\ scenario = "checkout" => Che!CheckoutNext
           /\ scenario = "invoices" => Boo!BookNext
           /\ scenario = "billables" => Bil!BillableNext
           /\ scenario = "hosting" => Hos!HostingNext
           /\ scenario = "accounts" => Acc!AccountNext
           /\ scenario = "tickets" => Tic!TicketNext
           /\ scenario \in Senders => Not!NoticeNext
           /\ scenario \in Routers => Reg!RegistrarNext
           /\ scenario \in Machinery => Pan!EditNext \/ Pan!CallNext
           /\ scenario = "services" => Des!DeskNext
           /\ scenario \in Shelves => Cat!ProductNext \/ Cat!CurrencyNext \/ Cat!RateNext
<1>1. scenario \in Senders => Not!NoticeNext
    BY DEF BusinessStep, Senders, Routers, Shelves, Machinery, Not!NoticeNext
<1>2. scenario \in Routers => Reg!RegistrarNext
    BY DEF BusinessStep, Senders, Routers, Shelves, Machinery, Reg!RegistrarNext
<1>3. Pan!MeanwhileNext => Pan!EditNext
    BY DEF Pan!MeanwhileNext, Pan!EditNext
<1>4. scenario \in Machinery => Pan!EditNext \/ Pan!CallNext
    BY <1>3 DEF BusinessStep, Senders, Routers, Shelves, Machinery
<1>5. scenario \in Shelves => Cat!ProductNext \/ Cat!CurrencyNext \/ Cat!RateNext
    BY DEF BusinessStep, Senders, Routers, Shelves, Machinery
<1>6. /\ scenario = "affiliates" => Aff!AffiliateNext
      /\ scenario = "checkout" => Che!CheckoutNext
      /\ scenario = "invoices" => Boo!BookNext
      /\ scenario = "billables" => Bil!BillableNext
      /\ scenario = "hosting" => Hos!HostingNext
      /\ scenario = "accounts" => Acc!AccountNext
      /\ scenario = "tickets" => Tic!TicketNext
      /\ scenario = "services" => Des!DeskNext
    BY DEF BusinessStep, Senders, Routers, Shelves, Machinery
<1> QED BY <1>1, <1>2, <1>4, <1>5, <1>6

LEMMA BusinessKeeps == BusinessInv /\ [BusinessNext]_businessVars => BusinessInv'
<1> SUFFICES ASSUME BusinessInv, [BusinessNext]_businessVars PROVE BusinessInv'
    OBVIOUS
<1>0. scenario' = scenario
    BY DEF BusinessNext, businessVars
<1>1. CASE BusinessStep
    <2>1. scenario = "affiliates" => Aff!AffiliateInv'
        BY <1>1, BusinessMoves, AffNext DEF BusinessInv
    <2>2. scenario = "checkout" => Che!CheckoutInv'
        BY <1>1, BusinessMoves, CheNext DEF BusinessInv
    <2>3. scenario = "invoices" => Boo!BookInv'
        BY <1>1, BusinessMoves, BooNext DEF BusinessInv
    <2>4. scenario = "billables" => Bil!BillableInv'
        BY <1>1, BusinessMoves, BilStep DEF BusinessInv
    <2>5. scenario = "hosting" => Hos!HostingInv'
        BY <1>1, BusinessMoves, HosNext DEF BusinessInv
    <2>6. scenario = "accounts" => Acc!AccountInv' /\ Acc!FailuresBegun'
        BY <1>1, BusinessMoves, AccNext, AccBounded DEF BusinessInv
    <2>7. scenario = "tickets" => Tic!TicketInv' /\ Tic!NumbersOK' /\ Tic!NotesOK'
        BY <1>1, BusinessMoves, TicStep, TicBounded DEF BusinessInv
    <2>8. scenario \in Senders => Not!NoticeInv'
        BY <1>1, BusinessMoves, NotNext DEF BusinessInv
    <2>9. scenario \in Routers => Reg!RegistrarInv'
        BY <1>1, BusinessMoves, RegNext DEF BusinessInv
    <2>10. scenario \in Machinery => PanInv'
        BY <1>1, BusinessMoves, PanEdits, PanCalls DEF BusinessInv
    <2>11. scenario = "services" => Des!DeskInv' /\ v5'.requests <= MaxRequests
        BY <1>1, BusinessMoves, DesNext, DesBounded DEF BusinessInv
    <2>12. scenario \in Shelves => Cat!CatalogueTypeOK'
        BY <1>1, BusinessMoves, CatProducts, CatCurrencies, CatRates DEF BusinessInv
    <2> QED BY <1>0, <2>1, <2>2, <2>3, <2>4, <2>5, <2>6, <2>7, <2>8, <2>9, <2>10, <2>11, <2>12 DEF BusinessInv, Senders, Routers, Machinery, Shelves
<1>2. CASE UNCHANGED businessVars
    <2>0. UNCHANGED v1 /\ UNCHANGED v2 /\ UNCHANGED v3 /\ UNCHANGED v4 /\ UNCHANGED v5 /\ UNCHANGED v6 /\ UNCHANGED v7
          /\ UNCHANGED v8 /\ UNCHANGED v9 /\ UNCHANGED v10 /\ UNCHANGED v11 /\ UNCHANGED v12
        BY <1>2 DEF businessVars, shared
    <2>1. scenario = "affiliates" => Aff!AffiliateInv'
        <3>1. UNCHANGED Aff!affiliateVars
            BY <2>0 DEF Aff!affiliateVars
        <3> QED BY <3>1, AffNext DEF BusinessInv
    <2>2. scenario = "checkout" => Che!CheckoutInv'
        <3>1. UNCHANGED Che!checkoutVars
            BY <2>0 DEF Che!checkoutVars
        <3> QED BY <3>1, CheNext DEF BusinessInv
    <2>3. scenario = "invoices" => Boo!BookInv'
        <3>1. UNCHANGED Boo!bookVars
            BY <2>0 DEF Boo!bookVars
        <3> QED BY <3>1, BooNext DEF BusinessInv
    <2>4. scenario = "billables" => Bil!BillableInv'
        <3>1. UNCHANGED Bil!billableVars
            BY <2>0 DEF Bil!billableVars
        <3> QED BY <3>1, BilStep DEF BusinessInv
    <2>5. scenario = "hosting" => Hos!HostingInv'
        BY <2>0, HosNext DEF BusinessInv
    <2>6. scenario = "accounts" => Acc!AccountInv' /\ Acc!FailuresBegun'
        <3>1. UNCHANGED Acc!accountVars
            BY <2>0 DEF Acc!accountVars
        <3> QED BY <3>1, AccNext, AccBounded DEF BusinessInv
    <2>7. scenario = "tickets" => Tic!TicketInv' /\ Tic!NumbersOK' /\ Tic!NotesOK'
        <3>1. UNCHANGED Tic!ticketVars
            BY <2>0 DEF Tic!ticketVars
        <3> QED BY <3>1, TicStep, TicBounded DEF BusinessInv
    <2>8. scenario \in Senders => Not!NoticeInv'
        BY <2>0, NotNext DEF BusinessInv
    <2>9. scenario \in Routers => Reg!RegistrarInv'
        BY <2>0, RegNext DEF BusinessInv, shared
    <2>10. scenario \in Machinery => PanInv'
        BY <2>0, PanReads DEF BusinessInv, PanInv, Pan!PanelTypeOK
    <2>11. scenario = "services" => Des!DeskInv' /\ v5'.requests <= MaxRequests
        <3>1. UNCHANGED Des!deskVars
            BY <2>0 DEF Des!deskVars
        <3> QED BY <3>1, DesNext, DesBounded DEF BusinessInv
    <2>12. scenario \in Shelves => Cat!CatalogueTypeOK'
        BY <2>0 DEF BusinessInv, Cat!CatalogueTypeOK, Cat!Sold, Cat!Quote, Cat!ProductRecord, Cat!Titles, Cat!Untitled
    <2> QED BY <1>0, <2>1, <2>2, <2>3, <2>4, <2>5, <2>6, <2>7, <2>8, <2>9, <2>10, <2>11, <2>12 DEF BusinessInv, Senders, Routers, Machinery, Shelves
<1> QED BY <1>1, <1>2 DEF BusinessNext

\* What the documents and the requests under way of each component may hold: fields are of their schemas,
\* and the requests, tries and numbers stay within what has been begun (the schemas of
\* invoice.model.ts, ticket.model.ts, user.model.ts, product.model.ts, server.model.ts and the other models).
THEOREM BusinessTypesKept == BusinessSpec => []BusinessTypeOK
<1>1. BusinessInv => BusinessTypeOK
    <2> SUFFICES ASSUME BusinessInv PROVE BusinessTypeOK
        OBVIOUS
    <2>1. /\ scenario = "affiliates" => Aff!AffiliateTypeOK
          /\ scenario = "checkout" => Che!CheckoutTypeOK
          /\ scenario = "invoices" => Boo!BookTypeOK
        BY AffImplies, CheTyped, BooTyped DEF BusinessInv
    <2>2. /\ scenario = "billables" => Bil!BillableTypeOK
          /\ scenario = "hosting" => Hos!HostingTypeOK
          /\ scenario = "accounts" => Acc!AccountTypeOK
        BY HosTyped, AccTyped DEF BusinessInv, Bil!BillableInv
    <2>3. /\ scenario = "tickets" => Tic!TicketTypeOK
          /\ scenario \in Senders => Not!NoticeTypeOK
          /\ scenario \in Routers => Reg!RegistrarTypeOK
        BY TicTyped, NotImplies, RegTyped DEF BusinessInv
    <2>4. /\ scenario \in Machinery => Pan!PanelTypeOK
          /\ scenario = "services" => Des!DeskTypeOK
          /\ scenario \in Shelves => Cat!CatalogueTypeOK
        BY DesTyped DEF BusinessInv, PanInv
    <2> QED BY <2>1, <2>2, <2>3, <2>4 DEF BusinessTypeOK
<1> QED BY <1>1, BusinessBegins, BusinessKeeps, PTL DEF BusinessSpec
-----------------------------------------------------------------------------
(* Affiliates: the sums.  What a sum over documents or calls becomes when   *)
(* one of them changes.                                                     *)

LEMMA AffFinite == IsFiniteSet(Firsts) /\ IsFiniteSet(Aff!Docs)
<1>1. Aff!IsFiniteSet(Firsts) /\ MaxDocs \in Nat
    BY AffBounds, AffiliateAssumption DEF Aff!AffiliateBounds
<1>2. IsFiniteSet(Firsts)
    BY <1>1 DEF Aff!IsFiniteSet, IsFiniteSet
<1>3. IsFiniteSet(1..MaxDocs)
    BY <1>1, FS_Interval
<1> QED BY <1>2, <1>3 DEF Aff!Docs

\* Functions, as Affiliates extends it, is Functions.
LEMMA AffSumIs == ASSUME NEW f PROVE Aff!SumFunction(f) = SumFunction(f)
BY DEF Aff!SumFunction, Aff!SumFunctionOnSet, Aff!FoldFunctionOnSet, Aff!MapThenFoldSet,
       SumFunction, SumFunctionOnSet, FoldFunctionOnSet, MapThenFoldSet

\* The sum of the amounts of the documents of S, of what the calls of C have left, of what redemptions have allocated.
AmountsIn(docs, S) == [d \in Aff!Docs |-> IF d \in S THEN docs[d].amount ELSE 0]
LeftIn(calls, C) == [c \in Firsts |-> IF c \in C THEN calls[c].left ELSE 0]
RedeemedIn(calls) == [c \in Firsts |-> IF calls[c].op = "redeem" THEN calls[c].amount - calls[c].left ELSE 0]

LEMMA AffSums ==
    /\ \A S : Aff!Amounts(S) = SumFunction(AmountsIn(v5, S))
    /\ \A C : Aff!Left(C) = SumFunction(LeftIn(v8, C))
    /\ Aff!Redeemed = SumFunction(RedeemedIn(v8))
BY AffSumIs DEF Aff!Amounts, Aff!Left, Aff!Redeemed, AmountsIn, LeftIn, RedeemedIn

LEMMA AffAmountsSame ==
    ASSUME NEW f, NEW g, NEW S, NEW T,
           \A e \in Aff!Docs : (e \in T <=> e \in S) /\ (e \in S => g[e].amount = f[e].amount)
    PROVE  SumFunction(AmountsIn(g, T)) = SumFunction(AmountsIn(f, S))
<1>1. AmountsIn(g, T) = AmountsIn(f, S)
    BY DEF AmountsIn
<1> QED BY <1>1

RedeemTerm(r) == IF r.op = "redeem" THEN r.amount - r.left ELSE 0

LEMMA AffRedeemedMoves ==
    ASSUME NEW f \in [Firsts -> Aff!CallDoc], NEW g \in [Firsts -> Aff!CallDoc], NEW c \in Firsts,
           \A a \in Firsts : f[a].left <= f[a].amount, \A a \in Firsts \ {c} : g[a] = f[a], g[c].left <= g[c].amount
    PROVE  /\ SumFunction(RedeemedIn(f)) \in Nat /\ SumFunction(RedeemedIn(g)) \in Nat
           /\ RedeemTerm(f[c]) \in Nat /\ RedeemTerm(g[c]) \in Nat
           /\ SumFunction(RedeemedIn(g)) = SumFunction(RedeemedIn(f)) - RedeemTerm(f[c]) + RedeemTerm(g[c])
<1>1. \A a \in Firsts : /\ f[a].left \in Nat /\ g[a].left \in Nat /\ f[a].amount \in Nat /\ g[a].amount \in Nat
                        /\ g[a].left <= g[a].amount
    BY DEF Aff!CallDoc
<1>2. RedeemedIn(f) \in [Firsts -> Nat] /\ RedeemedIn(g) \in [Firsts -> Nat]
    BY <1>1 DEF RedeemedIn
<1>3. \A a \in Firsts : a # c => RedeemedIn(g)[a] = RedeemedIn(f)[a]
    BY DEF RedeemedIn
<1>4. RedeemedIn(f)[c] = RedeemTerm(f[c]) /\ RedeemedIn(g)[c] = RedeemTerm(g[c])
    BY DEF RedeemedIn, RedeemTerm
<1>5. SumFunction(RedeemedIn(g)) = SumFunction(RedeemedIn(f)) - RedeemedIn(f)[c] + RedeemedIn(g)[c]
    BY <1>2, <1>3, AffFinite, SumChanges
<1> QED BY <1>2, <1>4, <1>5, AffFinite, SumIsNumber

\* What a document, a call counts for, with the buyers of the orders as given.
BroughtTerm(b, doc, of) == IF doc.status # "none" /\ of[doc.order] = b THEN doc.amount ELSE 0
ReservedTerm(p, doc) == IF doc.status # "none" /\ doc.payout = p THEN doc.amount ELSE 0
SplitTerm(b, r, of) == IF r.at = "split" /\ of[r.doc[Aff!Min(r.todo)].order] = b THEN r.left ELSE 0
RequestTerm(p, r) == IF r.op = "payout" /\ r.payout = p THEN r.left ELSE 0

\* The sums as functions of the documents, of the calls
Brought(b, docs, of) == SumFunction(AmountsIn(docs, {d \in Aff!Docs : docs[d].status # "none" /\ of[docs[d].order] = b}))
Reserved(p, docs) == SumFunction(AmountsIn(docs, {d \in Aff!Docs : docs[d].status # "none" /\ docs[d].payout = p}))
Owed(docs, calls) ==
    SumFunction(AmountsIn(docs, {d \in Aff!Docs : /\ docs[d].status = "CREDITED"
                                                  /\ \A c \in Firsts : calls[c].at = "reversed" => d # Aff!Min(calls[c].todo)}))
Splitting(b, calls, of) == SumFunction(LeftIn(calls, {c \in Firsts : calls[c].at = "split"
                                                                   /\ of[calls[c].doc[Aff!Min(calls[c].todo)].order] = b}))
Requested(p, calls) == SumFunction(LeftIn(calls, {c \in Firsts : calls[c].op = "payout" /\ calls[c].payout = p}))
Redeemed(calls) == SumFunction(RedeemedIn(calls))

LEMMA AffSumsNow ==
    /\ \A b : Aff!Amounts(Aff!BroughtBy(b)) = Brought(b, v5, v1) /\ Aff!Left(Aff!SplitOf(b)) = Splitting(b, v8, v1)
    /\ \A p : Aff!Amounts(Aff!ReservedFor(p)) = Reserved(p, v5) /\ Aff!Left(Aff!RequestOf(p)) = Requested(p, v8)
    /\ Aff!Amounts(Aff!Debt) = Owed(v5, v8) /\ Aff!Redeemed = Redeemed(v8)
<1>1. \A b : Aff!BroughtBy(b) = {d \in Aff!Docs : v5[d].status # "none" /\ v1[v5[d].order] = b}
    BY DEF Aff!BroughtBy, Aff!Made, Aff!Of
<1>2. \A p : Aff!ReservedFor(p) = {d \in Aff!Docs : v5[d].status # "none" /\ v5[d].payout = p}
    BY DEF Aff!ReservedFor, Aff!Made, Aff!Of
<1>3. Aff!Debt = {d \in Aff!Docs : /\ v5[d].status = "CREDITED"
                                   /\ \A c \in Firsts : v8[c].at = "reversed" => d # Aff!Min(v8[c].todo)}
    BY DEF Aff!Debt, Aff!Of
<1>4. \A b : Aff!SplitOf(b) = {c \in Firsts : v8[c].at = "split" /\ v1[v8[c].doc[Aff!Min(v8[c].todo)].order] = b}
    BY DEF Aff!SplitOf
<1>5. \A p : Aff!RequestOf(p) = {c \in Firsts : v8[c].op = "payout" /\ v8[c].payout = p}
    BY DEF Aff!RequestOf
<1> QED BY <1>1, <1>2, <1>3, <1>4, <1>5, AffSums, Zenon DEF Brought, Reserved, Owed, Splitting, Requested, Redeemed

LEMMA AffSumsNext ==
    /\ \A b : Aff!Amounts(Aff!BroughtBy(b))' = Brought(b, v5', v1') /\ Aff!Left(Aff!SplitOf(b))' = Splitting(b, v8', v1')
    /\ \A p : Aff!Amounts(Aff!ReservedFor(p))' = Reserved(p, v5') /\ Aff!Left(Aff!RequestOf(p))' = Requested(p, v8')
    /\ Aff!Amounts(Aff!Debt)' = Owed(v5', v8') /\ Aff!Redeemed' = Redeemed(v8')
<1>1. \A b : Aff!BroughtBy(b)' = {d \in Aff!Docs : v5'[d].status # "none" /\ v1'[v5'[d].order] = b}
    BY DEF Aff!BroughtBy, Aff!Made, Aff!Of
<1>2. \A p : Aff!ReservedFor(p)' = {d \in Aff!Docs : v5'[d].status # "none" /\ v5'[d].payout = p}
    BY DEF Aff!ReservedFor, Aff!Made, Aff!Of
<1>3. Aff!Debt' = {d \in Aff!Docs : /\ v5'[d].status = "CREDITED"
                                   /\ \A c \in Firsts : v8'[c].at = "reversed" => d # Aff!Min(v8'[c].todo)}
    BY DEF Aff!Debt, Aff!Of
<1>4. \A b : Aff!SplitOf(b)' = {c \in Firsts : v8'[c].at = "split" /\ v1'[v8'[c].doc[Aff!Min(v8'[c].todo)].order] = b}
    BY DEF Aff!SplitOf
<1>5. \A p : Aff!RequestOf(p)' = {c \in Firsts : v8'[c].op = "payout" /\ v8'[c].payout = p}
    BY DEF Aff!RequestOf
<1>6. /\ \A b : /\ Aff!Amounts(Aff!BroughtBy(b))' = SumFunction(AmountsIn(v5', Aff!BroughtBy(b)'))
                /\ Aff!Left(Aff!SplitOf(b))' = SumFunction(LeftIn(v8', Aff!SplitOf(b)'))
      /\ \A p : /\ Aff!Amounts(Aff!ReservedFor(p))' = SumFunction(AmountsIn(v5', Aff!ReservedFor(p)'))
                /\ Aff!Left(Aff!RequestOf(p))' = SumFunction(LeftIn(v8', Aff!RequestOf(p)'))
      /\ Aff!Amounts(Aff!Debt)' = SumFunction(AmountsIn(v5', Aff!Debt'))
      /\ Aff!Redeemed' = SumFunction(RedeemedIn(v8'))
    BY AffSumIs DEF Aff!Amounts, Aff!Left, Aff!Redeemed, AmountsIn, LeftIn, RedeemedIn
<1> QED BY <1>1, <1>2, <1>3, <1>4, <1>5, <1>6, Zenon DEF Brought, Reserved, Owed, Splitting, Requested, Redeemed

\* One document changes.
LEMMA AffBroughtMoves ==
    ASSUME NEW f \in [Aff!Docs -> Aff!Commission], NEW g \in [Aff!Docs -> Aff!Commission], NEW x \in Aff!Docs,
           \A e \in Aff!Docs \ {x} : g[e] = f[e]
    PROVE  \A b, of :
           /\ Brought(b, f, of) \in Nat /\ Brought(b, g, of) \in Nat
           /\ BroughtTerm(b, f[x], of) \in Nat /\ BroughtTerm(b, g[x], of) \in Nat
           /\ Brought(b, g, of) = Brought(b, f, of) - BroughtTerm(b, f[x], of) + BroughtTerm(b, g[x], of)
<1> SUFFICES ASSUME NEW b, NEW of
    PROVE  /\ Brought(b, f, of) \in Nat /\ Brought(b, g, of) \in Nat
           /\ BroughtTerm(b, f[x], of) \in Nat /\ BroughtTerm(b, g[x], of) \in Nat
           /\ Brought(b, g, of) = Brought(b, f, of) - BroughtTerm(b, f[x], of) + BroughtTerm(b, g[x], of)
    OBVIOUS
<1> DEFINE S == {d \in Aff!Docs : f[d].status # "none" /\ of[f[d].order] = b}
           T == {d \in Aff!Docs : g[d].status # "none" /\ of[g[d].order] = b}
<1>1. AmountsIn(f, S)[x] = BroughtTerm(b, f[x], of) /\ AmountsIn(g, T)[x] = BroughtTerm(b, g[x], of)
    BY DEF AmountsIn, BroughtTerm
<1>2. \A e \in Aff!Docs \ {x} : (e \in T <=> e \in S) /\ (e \in S => g[e].amount = f[e].amount)
    OBVIOUS
<1>3. Brought(b, f, of) = SumFunction(AmountsIn(f, S)) /\ Brought(b, g, of) = SumFunction(AmountsIn(g, T))
    BY DEF Brought
<1> HIDE DEF S, T
<1>4. \A e \in Aff!Docs : f[e].amount \in Nat /\ g[e].amount \in Nat
    BY DEF Aff!Commission
<1> DEFINE F == AmountsIn(f, S)
           G == AmountsIn(g, T)
<1>5. F \in [Aff!Docs -> Nat] /\ G \in [Aff!Docs -> Nat] /\ \A e \in Aff!Docs : e # x => G[e] = F[e]
    BY <1>2, <1>4 DEF AmountsIn
<1> HIDE DEF F, G
<1>6. /\ SumFunction(F) \in Nat /\ SumFunction(G) \in Nat /\ F[x] \in Nat /\ G[x] \in Nat
      /\ F[x] <= SumFunction(F) /\ SumFunction(G) = SumFunction(F) - F[x] + G[x]
    BY <1>5, AffFinite, SumMoves
<1> QED BY <1>1, <1>3, <1>6 DEF F, G

LEMMA AffReservedMoves ==
    ASSUME NEW f \in [Aff!Docs -> Aff!Commission], NEW g \in [Aff!Docs -> Aff!Commission], NEW x \in Aff!Docs,
           \A e \in Aff!Docs \ {x} : g[e] = f[e]
    PROVE  \A p :
           /\ Reserved(p, f) \in Nat /\ Reserved(p, g) \in Nat
           /\ ReservedTerm(p, f[x]) \in Nat /\ ReservedTerm(p, g[x]) \in Nat
           /\ Reserved(p, g) = Reserved(p, f) - ReservedTerm(p, f[x]) + ReservedTerm(p, g[x])
<1> SUFFICES ASSUME NEW p
    PROVE  /\ Reserved(p, f) \in Nat /\ Reserved(p, g) \in Nat
           /\ ReservedTerm(p, f[x]) \in Nat /\ ReservedTerm(p, g[x]) \in Nat
           /\ Reserved(p, g) = Reserved(p, f) - ReservedTerm(p, f[x]) + ReservedTerm(p, g[x])
    OBVIOUS
<1> DEFINE S == {d \in Aff!Docs : f[d].status # "none" /\ f[d].payout = p}
           T == {d \in Aff!Docs : g[d].status # "none" /\ g[d].payout = p}
<1>1. AmountsIn(f, S)[x] = ReservedTerm(p, f[x]) /\ AmountsIn(g, T)[x] = ReservedTerm(p, g[x])
    BY DEF AmountsIn, ReservedTerm
<1>2. \A e \in Aff!Docs \ {x} : (e \in T <=> e \in S) /\ (e \in S => g[e].amount = f[e].amount)
    OBVIOUS
<1>3. Reserved(p, f) = SumFunction(AmountsIn(f, S)) /\ Reserved(p, g) = SumFunction(AmountsIn(g, T))
    BY DEF Reserved
<1> HIDE DEF S, T
<1>4. \A e \in Aff!Docs : f[e].amount \in Nat /\ g[e].amount \in Nat
    BY DEF Aff!Commission
<1> DEFINE F == AmountsIn(f, S)
           G == AmountsIn(g, T)
<1>5. F \in [Aff!Docs -> Nat] /\ G \in [Aff!Docs -> Nat] /\ \A e \in Aff!Docs : e # x => G[e] = F[e]
    BY <1>2, <1>4 DEF AmountsIn
<1> HIDE DEF F, G
<1>6. /\ SumFunction(F) \in Nat /\ SumFunction(G) \in Nat /\ F[x] \in Nat /\ G[x] \in Nat
      /\ F[x] <= SumFunction(F) /\ SumFunction(G) = SumFunction(F) - F[x] + G[x]
    BY <1>5, AffFinite, SumMoves
<1> QED BY <1>1, <1>3, <1>6 DEF F, G

\* One call changes.
LEMMA AffSplittingMoves ==
    ASSUME NEW f \in [Firsts -> Aff!CallDoc], NEW g \in [Firsts -> Aff!CallDoc], NEW c \in Firsts,
           \A a \in Firsts \ {c} : g[a] = f[a]
    PROVE  \A b, of :
           /\ Splitting(b, f, of) \in Nat /\ Splitting(b, g, of) \in Nat
           /\ SplitTerm(b, f[c], of) \in Nat /\ SplitTerm(b, g[c], of) \in Nat
           /\ SplitTerm(b, f[c], of) <= Splitting(b, f, of)
           /\ Splitting(b, g, of) = Splitting(b, f, of) - SplitTerm(b, f[c], of) + SplitTerm(b, g[c], of)
<1> SUFFICES ASSUME NEW b, NEW of
    PROVE  /\ Splitting(b, f, of) \in Nat /\ Splitting(b, g, of) \in Nat
           /\ SplitTerm(b, f[c], of) \in Nat /\ SplitTerm(b, g[c], of) \in Nat
           /\ SplitTerm(b, f[c], of) <= Splitting(b, f, of)
           /\ Splitting(b, g, of) = Splitting(b, f, of) - SplitTerm(b, f[c], of) + SplitTerm(b, g[c], of)
    OBVIOUS
<1> DEFINE C == {a \in Firsts : f[a].at = "split" /\ of[f[a].doc[Aff!Min(f[a].todo)].order] = b}
           D == {a \in Firsts : g[a].at = "split" /\ of[g[a].doc[Aff!Min(g[a].todo)].order] = b}
<1>1. LeftIn(f, C)[c] = SplitTerm(b, f[c], of) /\ LeftIn(g, D)[c] = SplitTerm(b, g[c], of)
    BY DEF LeftIn, SplitTerm
<1>2. \A a \in Firsts \ {c} : (a \in D <=> a \in C) /\ g[a] = f[a]
    OBVIOUS
<1>3. Splitting(b, f, of) = SumFunction(LeftIn(f, C)) /\ Splitting(b, g, of) = SumFunction(LeftIn(g, D))
    BY DEF Splitting
<1> HIDE DEF C, D
<1>4. \A e \in Firsts : f[e].left \in Nat /\ g[e].left \in Nat
    BY DEF Aff!CallDoc
<1> DEFINE F == LeftIn(f, C)
           G == LeftIn(g, D)
<1>5. F \in [Firsts -> Nat] /\ G \in [Firsts -> Nat] /\ \A e \in Firsts : e # c => G[e] = F[e]
    BY <1>2, <1>4 DEF LeftIn
<1> HIDE DEF F, G
<1>6. /\ SumFunction(F) \in Nat /\ SumFunction(G) \in Nat /\ F[c] \in Nat /\ G[c] \in Nat
      /\ F[c] <= SumFunction(F) /\ SumFunction(G) = SumFunction(F) - F[c] + G[c]
    BY <1>5, AffFinite, SumMoves
<1> QED BY <1>1, <1>3, <1>6 DEF F, G

LEMMA AffRequestedMoves ==
    ASSUME NEW f \in [Firsts -> Aff!CallDoc], NEW g \in [Firsts -> Aff!CallDoc], NEW c \in Firsts,
           \A a \in Firsts \ {c} : g[a] = f[a]
    PROVE  \A p :
           /\ Requested(p, f) \in Nat /\ Requested(p, g) \in Nat
           /\ RequestTerm(p, f[c]) \in Nat /\ RequestTerm(p, g[c]) \in Nat
           /\ Requested(p, g) = Requested(p, f) - RequestTerm(p, f[c]) + RequestTerm(p, g[c])
<1> SUFFICES ASSUME NEW p
    PROVE  /\ Requested(p, f) \in Nat /\ Requested(p, g) \in Nat
           /\ RequestTerm(p, f[c]) \in Nat /\ RequestTerm(p, g[c]) \in Nat
           /\ Requested(p, g) = Requested(p, f) - RequestTerm(p, f[c]) + RequestTerm(p, g[c])
    OBVIOUS
<1> DEFINE C == {a \in Firsts : f[a].op = "payout" /\ f[a].payout = p}
           D == {a \in Firsts : g[a].op = "payout" /\ g[a].payout = p}
<1>1. LeftIn(f, C)[c] = RequestTerm(p, f[c]) /\ LeftIn(g, D)[c] = RequestTerm(p, g[c])
    BY DEF LeftIn, RequestTerm
<1>2. \A a \in Firsts \ {c} : (a \in D <=> a \in C) /\ g[a] = f[a]
    OBVIOUS
<1>3. Requested(p, f) = SumFunction(LeftIn(f, C)) /\ Requested(p, g) = SumFunction(LeftIn(g, D))
    BY DEF Requested
<1> HIDE DEF C, D
<1>4. \A e \in Firsts : f[e].left \in Nat /\ g[e].left \in Nat
    BY DEF Aff!CallDoc
<1> DEFINE F == LeftIn(f, C)
           G == LeftIn(g, D)
<1>5. F \in [Firsts -> Nat] /\ G \in [Firsts -> Nat] /\ \A e \in Firsts : e # c => G[e] = F[e]
    BY <1>2, <1>4 DEF LeftIn
<1> HIDE DEF F, G
<1>6. /\ SumFunction(F) \in Nat /\ SumFunction(G) \in Nat /\ F[c] \in Nat /\ G[c] \in Nat
      /\ F[c] <= SumFunction(F) /\ SumFunction(G) = SumFunction(F) - F[c] + G[c]
    BY <1>5, AffFinite, SumMoves
<1> QED BY <1>1, <1>3, <1>6 DEF F, G

\* A document is owed for or not; the calls decide.
IsOwed(d, docs, calls) == docs[d].status = "CREDITED" /\ \A c \in Firsts : calls[c].at = "reversed" => d # Aff!Min(calls[c].todo)
OwedTerm(d, docs, calls) == IF IsOwed(d, docs, calls) THEN docs[d].amount ELSE 0

LEMMA AffOwedMoves ==
    ASSUME NEW f \in [Aff!Docs -> Aff!Commission], NEW g \in [Aff!Docs -> Aff!Commission], NEW x \in Aff!Docs
    PROVE  \A h, k :
           (\A e \in Aff!Docs \ {x} : (IsOwed(e, g, k) <=> IsOwed(e, f, h)) /\ (IsOwed(e, f, h) => g[e].amount = f[e].amount))
           => /\ Owed(f, h) \in Nat /\ Owed(g, k) \in Nat
              /\ OwedTerm(x, f, h) \in Nat /\ OwedTerm(x, g, k) \in Nat /\ OwedTerm(x, f, h) <= Owed(f, h)
              /\ Owed(g, k) = Owed(f, h) - OwedTerm(x, f, h) + OwedTerm(x, g, k)
<1> SUFFICES ASSUME NEW h, NEW k,
       \A e \in Aff!Docs \ {x} : (IsOwed(e, g, k) <=> IsOwed(e, f, h)) /\ (IsOwed(e, f, h) => g[e].amount = f[e].amount)
    PROVE  /\ Owed(f, h) \in Nat /\ Owed(g, k) \in Nat
           /\ OwedTerm(x, f, h) \in Nat /\ OwedTerm(x, g, k) \in Nat /\ OwedTerm(x, f, h) <= Owed(f, h)
           /\ Owed(g, k) = Owed(f, h) - OwedTerm(x, f, h) + OwedTerm(x, g, k)
    OBVIOUS
<1> DEFINE S == {d \in Aff!Docs : f[d].status = "CREDITED" /\ \A c \in Firsts : h[c].at = "reversed" => d # Aff!Min(h[c].todo)}
           T == {d \in Aff!Docs : g[d].status = "CREDITED" /\ \A c \in Firsts : k[c].at = "reversed" => d # Aff!Min(k[c].todo)}
<1>0. \A e \in Aff!Docs : (e \in S <=> IsOwed(e, f, h)) /\ (e \in T <=> IsOwed(e, g, k))
    BY DEF IsOwed
<1>3. Owed(f, h) = SumFunction(AmountsIn(f, S)) /\ Owed(g, k) = SumFunction(AmountsIn(g, T))
    BY DEF Owed
<1> HIDE DEF S, T
<1>1. AmountsIn(f, S)[x] = OwedTerm(x, f, h) /\ AmountsIn(g, T)[x] = OwedTerm(x, g, k)
    BY <1>0 DEF AmountsIn, OwedTerm
<1>2. \A e \in Aff!Docs \ {x} : (e \in T <=> e \in S) /\ (e \in S => g[e].amount = f[e].amount)
    BY <1>0
<1>4. \A e \in Aff!Docs : f[e].amount \in Nat /\ g[e].amount \in Nat
    BY DEF Aff!Commission
<1> DEFINE F == AmountsIn(f, S)
           G == AmountsIn(g, T)
<1>5. F \in [Aff!Docs -> Nat] /\ G \in [Aff!Docs -> Nat] /\ \A e \in Aff!Docs : e # x => G[e] = F[e]
    BY <1>2, <1>4 DEF AmountsIn
<1> HIDE DEF F, G
<1>6. /\ SumFunction(F) \in Nat /\ SumFunction(G) \in Nat /\ F[x] \in Nat /\ G[x] \in Nat
      /\ F[x] <= SumFunction(F) /\ SumFunction(G) = SumFunction(F) - F[x] + G[x]
    BY <1>5, AffFinite, SumMoves
<1> QED BY <1>1, <1>3, <1>6 DEF F, G

-----------------------------------------------------------------------------
(* Affiliates: AgreeInv, in terms of the values it speaks of.               *)

TieSelf(m) ==
    /\ m.left <= m.amount
    /\ m.op \notin {"redeem", "payout"} => m.left = m.amount
    /\ m.at \notin {"change", "split"} => m.left = m.amount
    /\ m.at = "approve" => m.op # "reverse" /\ \A d \in m.todo : m.doc[d].status = "QUALIFIED"
    /\ m.at \in {"change", "split"} /\ m.op \in {"redeem", "payout"} => \A d \in m.todo : m.doc[d].status = "APPROVED"
    /\ m.at = "split" => m.todo = {Aff!Min(m.todo)}
    /\ m.op = "reverse" =>
          /\ m.at \in {"find", "change", "debit", "reversed"}
          /\ \A d \in m.todo : m.doc[d].status \notin {"none", "REVERSED"} /\ m.doc[d].order = m.order
    /\ m.at \in {"debit", "reversed"} =>
          m.op = "reverse" /\ m.todo # {} /\ m.doc[Aff!Min(m.todo)].status = "CREDITED"
    /\ m.at = "request" => m.op = "payout"
    /\ m.op = "redeem" => m.payout = Nobody
    /\ m.op = "payout" => (m.payout # Nobody <=> m.at \in {"find", "change", "split"})
    /\ m.op = "review" \/ m.at = "settle" => m.payout # Nobody

\* What a call has read is of a document there is.
TieDocs(m, docs) ==
    \A d \in Aff!Docs : m.doc[d].status # "none" => docs[d].status # "none" /\ docs[d].order = m.doc[d].order

TiePay(m, pay) == m.payout # Nobody => pay[m.payout].status # "none"

Ties(calls, docs, pay) == \A c \in Firsts : TieSelf(calls[c]) /\ TieDocs(calls[c], docs) /\ TiePay(calls[c], pay)

Creating(calls, docs, of, raced) ==
    \A c \in Firsts : calls[c].at = "create" /\ of[calls[c].order] \notin raced =>
        /\ \A d \in Aff!Docs : docs[d].status # "none" => of[docs[d].order] # of[calls[c].order]
        /\ \A a \in Firsts \ {c} : calls[a].at = "create" => of[calls[a].order] # of[calls[c].order]

Once(docs, calls, of, mk) ==
    \A b \in Ones : b \notin mk.raced /\ ~mk.over => Brought(b, docs, of) + Splitting(b, calls, of) <= Earned

Named(docs, pay) == \A d \in Aff!Docs : docs[d].payout # Nobody => pay[docs[d].payout].status # "none"
Unnamed(docs) == \A d \in Aff!Docs : docs[d].status \in {"none", "QUALIFIED", "APPROVED", "CREDITED"} => docs[d].payout = Nobody
Rejected(calls, pay) == \A c \in Firsts : calls[c].at = "settle" /\ calls[c].act = "reject"
                                            => pay[calls[c].payout].status = "REJECTED"

Apart(calls, docs, settled) ==
    \A c \in Firsts : calls[c].op = "reverse" =>
        /\ calls[c].order \notin settled
        /\ \A b \in Firsts \ {c} : calls[b].op = "reverse" => calls[b].order # calls[c].order
        /\ \A d \in calls[c].todo : calls[c].doc[d].status = "CREDITED" => docs[d] = calls[c].doc[d]

Credited(docs, calls, balance) == Owed(docs, calls) = balance + Redeemed(calls)
Backs(docs, calls, pay) ==
    \A p \in Ones : pay[p].status \in {"PENDING", "APPROVED", "PAID"}
        => pay[p].amount = Reserved(p, docs) + Requested(p, calls)

LEMMA AffTiesAre == (\A c \in Firsts : Aff!TieOK(c)) <=> Ties(v8, v5, v7)
<1>1. \A d : d \in Aff!Made <=> d \in Aff!Docs /\ v5[d].status # "none"
    BY DEF Aff!Made, Aff!Of
<1> QED BY <1>1, Zenon DEF Aff!TieOK, Ties, TieSelf, TieDocs, TiePay, Aff!Allocating

LEMMA AffTiesNext == (\A c \in Firsts : Aff!TieOK(c)') <=> Ties(v8', v5', v7')
<1>1. \A d : d \in Aff!Made' <=> d \in Aff!Docs /\ v5'[d].status # "none"
    BY DEF Aff!Made, Aff!Of
<1> QED BY <1>1, Zenon DEF Aff!TieOK, Ties, TieSelf, TieDocs, TiePay, Aff!Allocating

LEMMA AffCreatingIs == /\ Aff!CreateOK <=> Creating(v8, v5, v1, v10.raced)
                       /\ Aff!CreateOK' <=> Creating(v8', v5', v1', v10'.raced)
<1>1. /\ \A d : d \in Aff!Made <=> d \in Aff!Docs /\ v5[d].status # "none"
      /\ \A d : d \in Aff!Made' <=> d \in Aff!Docs /\ v5'[d].status # "none"
    BY DEF Aff!Made, Aff!Of
<1>2. /\ \A o : Aff!Prior(o) = {} <=> \A d \in Aff!Docs : v5[d].status # "none" => v1[v5[d].order] # v1[o]
      /\ \A c : Aff!Prior(v8[c].order)' = {} <=>
                   \A d \in Aff!Docs : v5'[d].status # "none" => v1'[v5'[d].order] # v1'[v8'[c].order]
    BY <1>1 DEF Aff!Prior
<1>3. Aff!CreateOK <=> Creating(v8, v5, v1, v10.raced)
    BY <1>2 DEF Aff!CreateOK, Creating
<1>4. Aff!CreateOK' <=> Creating(v8', v5', v1', v10'.raced)
    BY <1>2 DEF Aff!CreateOK, Creating
<1> QED BY <1>3, <1>4

LEMMA AffAgreeIs ==
    Aff!AgreeInv <=> /\ Ties(v8, v5, v7) /\ Creating(v8, v5, v1, v10.raced) /\ Once(v5, v8, v1, v10) /\ Named(v5, v7)
                     /\ Aff!Straight => /\ Unnamed(v5) /\ Rejected(v8, v7) /\ Apart(v8, v5, v4)
                                        /\ Credited(v5, v8, v6) /\ Backs(v5, v8, v7)
<1>1. Aff!OnceOK <=> Once(v5, v8, v1, v10)
    BY AffSumsNow DEF Aff!OnceOK, Once
<1>2. Aff!PayoutTies <=> Named(v5, v7) /\ (Aff!Straight => Unnamed(v5) /\ Rejected(v8, v7))
    BY DEF Aff!PayoutTies, Named, Unnamed, Rejected
<1>3. Aff!ReversalTies <=> (Aff!Straight => Apart(v8, v5, v4))
    BY DEF Aff!ReversalTies, Apart
<1>4. Aff!CreditOK <=> (Aff!Straight => Credited(v5, v8, v6))
    BY AffSumsNow DEF Aff!CreditOK, Credited
<1>5. Aff!PayoutsOK <=> (Aff!Straight => Backs(v5, v8, v7))
    BY AffSumsNow DEF Aff!PayoutsOK, Backs
<1> QED BY <1>1, <1>2, <1>3, <1>4, <1>5, AffTiesAre, AffCreatingIs, Zenon DEF Aff!AgreeInv

LEMMA AffAgreeNext ==
    Aff!AgreeInv' <=> /\ Ties(v8', v5', v7') /\ Creating(v8', v5', v1', v10'.raced) /\ Once(v5', v8', v1', v10')
                      /\ Named(v5', v7')
                      /\ Aff!Straight' => /\ Unnamed(v5') /\ Rejected(v8', v7') /\ Apart(v8', v5', v4')
                                          /\ Credited(v5', v8', v6') /\ Backs(v5', v8', v7')
<1>1. Aff!OnceOK' <=> Once(v5', v8', v1', v10')
    BY AffSumsNext DEF Aff!OnceOK, Once
<1>2. Aff!PayoutTies' <=> Named(v5', v7') /\ (Aff!Straight' => Unnamed(v5') /\ Rejected(v8', v7'))
    BY DEF Aff!PayoutTies, Named, Unnamed, Rejected
<1>3. Aff!ReversalTies' <=> (Aff!Straight' => Apart(v8', v5', v4'))
    BY DEF Aff!ReversalTies, Apart
<1>4. Aff!CreditOK' <=> (Aff!Straight' => Credited(v5', v8', v6'))
    BY AffSumsNext DEF Aff!CreditOK, Credited
<1>5. Aff!PayoutsOK' <=> (Aff!Straight' => Backs(v5', v8', v7'))
    BY AffSumsNext DEF Aff!PayoutsOK, Backs
<1> QED BY <1>1, <1>2, <1>3, <1>4, <1>5, AffTiesNext, AffCreatingIs, Zenon DEF Aff!AgreeInv

-----------------------------------------------------------------------------
(* Affiliates: what a step of one call leaves of AgreeInv.                  *)

LEMMA AffAgreed ==
    ASSUME Aff!AgreeInv, NEW c \in Firsts
    PROVE  /\ TieSelf(v8[c]) /\ TieDocs(v8[c], v5) /\ TiePay(v8[c], v7)
           /\ Ties(v8, v5, v7) /\ Creating(v8, v5, v1, v10.raced) /\ Once(v5, v8, v1, v10) /\ Named(v5, v7)
           /\ Aff!Straight => Unnamed(v5) /\ Rejected(v8, v7) /\ Apart(v8, v5, v4) /\ Credited(v5, v8, v6) /\ Backs(v5, v8, v7)
BY AffAgreeIs DEF Ties

LEMMA AffTiesGo ==
    ASSUME Aff!AffiliateInv, Aff!AgreeInv, NEW c \in Firsts, NEW r \in Aff!CallDoc, v8' = [v8 EXCEPT ![c] = r],
           TieSelf(r), TieDocs(r, v5'), TiePay(r, v7'),
           \A d \in Aff!Docs : v5[d].status # "none" => v5'[d].status # "none" /\ v5'[d].order = v5[d].order,
           \A p \in Ones : v7[p].status # "none" => v7'[p].status # "none"
    PROVE  Ties(v8', v5', v7')
<1>1. v8'[c] = r /\ \A a \in Firsts \ {c} : v8'[a] = v8[a] /\ v8[a] \in Aff!CallDoc
    BY AffStays
<1>2. ASSUME NEW a \in Firsts \ {c} PROVE TieSelf(v8[a]) /\ TieDocs(v8[a], v5') /\ TiePay(v8[a], v7')
    <2>1. TieSelf(v8[a]) /\ TieDocs(v8[a], v5) /\ TiePay(v8[a], v7)
        BY AffAgreed
    <2>2. TieDocs(v8[a], v5')
        BY <2>1 DEF TieDocs
    <2>3. v8[a].payout \in Ones \cup {Nobody}
        BY <1>1 DEF Aff!CallDoc
    <2>4. TiePay(v8[a], v7')
        BY <2>1, <2>3 DEF TiePay
    <2> QED BY <2>1, <2>2, <2>4
<1>3. ASSUME NEW a \in Firsts PROVE TieSelf(v8'[a]) /\ TieDocs(v8'[a], v5') /\ TiePay(v8'[a], v7')
    <2>1. CASE a = c
        BY <1>1, <2>1
    <2>2. CASE a # c
        BY <1>1, <1>2, <2>2
    <2> QED BY <2>1, <2>2
<1> QED BY <1>3 DEF Ties

LEMMA AffCallSums ==
    ASSUME Aff!AffiliateInv, Aff!AgreeInv, NEW c \in Firsts, NEW r \in Aff!CallDoc, v8' = [v8 EXCEPT ![c] = r],
           r.left <= r.amount
    PROVE  /\ \A b : /\ Splitting(b, v8, v1) \in Nat /\ Splitting(b, v8', v1) \in Nat
                     /\ SplitTerm(b, v8[c], v1) \in Nat /\ SplitTerm(b, r, v1) \in Nat
                     /\ SplitTerm(b, v8[c], v1) <= Splitting(b, v8, v1)
                     /\ Splitting(b, v8', v1) = Splitting(b, v8, v1) - SplitTerm(b, v8[c], v1) + SplitTerm(b, r, v1)
           /\ \A p : /\ Requested(p, v8) \in Nat /\ Requested(p, v8') \in Nat
                     /\ RequestTerm(p, v8[c]) \in Nat /\ RequestTerm(p, r) \in Nat
                     /\ Requested(p, v8') = Requested(p, v8) - RequestTerm(p, v8[c]) + RequestTerm(p, r)
           /\ Redeemed(v8) \in Nat /\ Redeemed(v8') \in Nat /\ RedeemTerm(v8[c]) \in Nat /\ RedeemTerm(r) \in Nat
           /\ Redeemed(v8') = Redeemed(v8) - RedeemTerm(v8[c]) + RedeemTerm(r)
<1>1. /\ v8 \in [Firsts -> Aff!CallDoc] /\ v8' \in [Firsts -> Aff!CallDoc] /\ v8'[c] = r
      /\ \A a \in Firsts \ {c} : v8'[a] = v8[a]
    BY AffStays
<1>2. \A a \in Firsts : v8[a].left <= v8[a].amount
    BY AffAgreed DEF TieSelf
<1>3. \A b, of :
             /\ Splitting(b, v8, of) \in Nat /\ Splitting(b, v8', of) \in Nat
             /\ SplitTerm(b, v8[c], of) \in Nat /\ SplitTerm(b, v8'[c], of) \in Nat
             /\ SplitTerm(b, v8[c], of) <= Splitting(b, v8, of)
             /\ Splitting(b, v8', of) = Splitting(b, v8, of) - SplitTerm(b, v8[c], of) + SplitTerm(b, v8'[c], of)
    BY <1>1, AffSplittingMoves
<1>4. \A p :
             /\ Requested(p, v8) \in Nat /\ Requested(p, v8') \in Nat
             /\ RequestTerm(p, v8[c]) \in Nat /\ RequestTerm(p, v8'[c]) \in Nat
             /\ Requested(p, v8') = Requested(p, v8) - RequestTerm(p, v8[c]) + RequestTerm(p, v8'[c])
    BY <1>1, AffRequestedMoves
<1>5. /\ Redeemed(v8) \in Nat /\ Redeemed(v8') \in Nat /\ RedeemTerm(v8[c]) \in Nat /\ RedeemTerm(v8'[c]) \in Nat
      /\ Redeemed(v8') = Redeemed(v8) - RedeemTerm(v8[c]) + RedeemTerm(v8'[c])
    BY <1>1, <1>2, AffRedeemedMoves DEF Redeemed
<1> QED BY <1>1, <1>3, <1>4, <1>5

\* Which documents are owed for changes with a call that reverses.
LEMMA AffOwedStays ==
    ASSUME NEW c \in Firsts, \A a \in Firsts \ {c} : v8'[a] = v8[a], v8[c].at # "reversed", v8'[c].at # "reversed"
    PROVE  \A docs : (\A d : IsOwed(d, docs, v8') <=> IsOwed(d, docs, v8)) /\ Owed(docs, v8') = Owed(docs, v8)
<1>2. \A docs, d : IsOwed(d, docs, v8') <=> IsOwed(d, docs, v8)
    BY DEF IsOwed
<1>3. ASSUME NEW docs PROVE Owed(docs, v8') = Owed(docs, v8)
    <2>1. \A d : IsOwed(d, docs, v8') <=> IsOwed(d, docs, v8)
        BY <1>2
    <2>2. {d \in Aff!Docs : /\ docs[d].status = "CREDITED"
                            /\ \A a \in Firsts : v8'[a].at = "reversed" => d # Aff!Min(v8'[a].todo)}
        = {d \in Aff!Docs : /\ docs[d].status = "CREDITED"
                            /\ \A a \in Firsts : v8[a].at = "reversed" => d # Aff!Min(v8[a].todo)}
        BY <2>1 DEF IsOwed
    <2> QED BY <2>2, Zenon DEF Owed
<1> QED BY <1>2, <1>3

LEMMA AffBroughtIsNat ==
    ASSUME Aff!AffiliateInv
    PROVE  \A b, of : Brought(b, v5, of) \in Nat
<1> SUFFICES ASSUME NEW b, NEW of PROVE Brought(b, v5, of) \in Nat
    OBVIOUS
<1> DEFINE S == {d \in Aff!Docs : v5[d].status # "none" /\ of[v5[d].order] = b}
<1>1. \A d \in Aff!Docs : v5[d].amount \in Nat
    BY AffStays DEF Aff!Commission
<1> HIDE DEF S
<1>2. AmountsIn(v5, S) \in [Aff!Docs -> Nat]
    BY <1>1 DEF AmountsIn
<1> QED BY <1>2, AffFinite, SumIsNumber DEF Brought, S

\* Reversals stay apart, and what they have read of credited commissions stays.
LEMMA AffApart ==
    ASSUME Aff!AffiliateInv, Aff!AgreeInv, Aff!Straight, NEW c \in Firsts, NEW r \in Aff!CallDoc,
           v8' = [v8 EXCEPT ![c] = r], v4' = v4,
           r.op = "reverse" => /\ v8[c].op = "reverse" /\ r.order = v8[c].order
                               /\ \A d \in r.todo : r.doc[d].status = "CREDITED" => v5'[d] = r.doc[d],
           \A a \in Firsts \ {c} : v8[a].op = "reverse" =>
               \A d \in v8[a].todo : v8[a].doc[d].status = "CREDITED" => v5'[d] = v5[d]
    PROVE  Apart(v8', v5', v4')
<1>0. v8'[c] = r /\ \A a \in Firsts \ {c} : v8'[a] = v8[a]
    BY AffStays
<1>1. Apart(v8, v5, v4)
    BY AffAgreed
<1>2. ASSUME NEW a \in Firsts, v8'[a].op = "reverse"
      PROVE  /\ v8[a].op = "reverse" /\ v8'[a].order = v8[a].order
             /\ \A d \in v8'[a].todo : v8'[a].doc[d].status = "CREDITED" => v5'[d] = v8'[a].doc[d]
    <2>1. CASE a = c
        BY <1>0, <1>2, <2>1
    <2>2. CASE a # c
        BY <1>0, <1>1, <1>2, <2>2 DEF Apart
    <2> QED BY <2>1, <2>2
<1> QED BY <1>1, <1>2 DEF Apart

\* A buyer of a commission being made stays without one.
LEMMA AffCreatingGoes ==
    ASSUME Aff!AffiliateInv, Aff!AgreeInv, NEW c \in Firsts, NEW r \in Aff!CallDoc, v8' = [v8 EXCEPT ![c] = r],
           r.at # "create", v1' = v1, v10.raced \subseteq v10'.raced,
           \A d \in Aff!Docs : v5'[d].status # "none" =>
               \E e \in Aff!Docs : v5[e].status # "none" /\ v1[v5[e].order] = v1[v5'[d].order]
    PROVE  Creating(v8', v5', v1', v10'.raced)
<1>0. v8'[c] = r /\ \A a \in Firsts \ {c} : v8'[a] = v8[a]
    BY AffStays
<1>1. Creating(v8, v5, v1, v10.raced)
    BY AffAgreed
<1> SUFFICES ASSUME NEW a \in Firsts, v8'[a].at = "create", v1[v8'[a].order] \notin v10'.raced
             PROVE  /\ \A d \in Aff!Docs : v5'[d].status # "none" => v1[v5'[d].order] # v1[v8'[a].order]
                    /\ \A b \in Firsts \ {a} : v8'[b].at = "create" => v1[v8'[b].order] # v1[v8'[a].order]
    BY DEF Creating
<1>2. a # c /\ v8'[a] = v8[a] /\ v1[v8[a].order] \notin v10.raced
    BY <1>0
<1>3. /\ \A d \in Aff!Docs : v5[d].status # "none" => v1[v5[d].order] # v1[v8[a].order]
      /\ \A b \in Firsts \ {a} : v8[b].at = "create" => v1[v8[b].order] # v1[v8[a].order]
    BY <1>1, <1>2 DEF Creating
<1>4. \A b \in Firsts \ {a} : v8'[b].at = "create" => v8'[b] = v8[b]
    BY <1>0
<1> QED BY <1>2, <1>3, <1>4

\* A call goes on, or ends, and changes no document.
LEMMA AffCallAgreed ==
    ASSUME Aff!AffiliateInv, Aff!AgreeInv, NEW c \in Firsts, NEW r \in Aff!CallDoc, v8' = [v8 EXCEPT ![c] = r],
           UNCHANGED <<v1, v5, v7>>,
           TieSelf(r), TieDocs(r, v5), TiePay(r, v7), Creating(v8', v5, v1, v10'.raced),
           v10.raced \subseteq v10'.raced, ~v10'.over => ~v10.over,
           \A b : SplitTerm(b, r, v1) <= SplitTerm(b, v8[c], v1),
           Aff!Straight' => /\ Aff!Straight
                            /\ \A p \in Ones : RequestTerm(p, r) = RequestTerm(p, v8[c])
                            /\ r.at # "settle"
                            /\ Apart(v8', v5, v4') /\ Credited(v5, v8', v6')
    PROVE  Aff!AgreeInv'
<1>0. /\ v8'[c] = r /\ \A a \in Firsts \ {c} : v8'[a] = v8[a]
      /\ v8 \in [Firsts -> Aff!CallDoc]
    BY AffStays
<1>1. Ties(v8', v5', v7')
    BY AffTiesGo
<1>2. r.left <= r.amount
    BY DEF TieSelf
<1>3. Once(v5', v8', v1', v10')
    <2> SUFFICES ASSUME NEW b \in Ones, b \notin v10'.raced, ~v10'.over
                 PROVE  Brought(b, v5, v1) + Splitting(b, v8', v1) <= Earned
        BY DEF Once
    <2>1. Brought(b, v5, v1) + Splitting(b, v8, v1) <= Earned
        BY AffAgreed DEF Once
    <2>2. /\ Splitting(b, v8, v1) \in Nat /\ Splitting(b, v8', v1) \in Nat
          /\ SplitTerm(b, v8[c], v1) \in Nat /\ SplitTerm(b, r, v1) \in Nat
          /\ Splitting(b, v8', v1) = Splitting(b, v8, v1) - SplitTerm(b, v8[c], v1) + SplitTerm(b, r, v1)
        BY <1>2, AffCallSums
    <2>3. SplitTerm(b, r, v1) <= SplitTerm(b, v8[c], v1) /\ Brought(b, v5, v1) \in Nat /\ Earned \in Nat
        BY AffBroughtIsNat, AffBounds
    <2> QED BY <2>1, <2>2, <2>3
<1>4. ASSUME Aff!Straight'
      PROVE  /\ Unnamed(v5') /\ Rejected(v8', v7') /\ Apart(v8', v5', v4') /\ Credited(v5', v8', v6') /\ Backs(v5', v8', v7')
    <2>1. Unnamed(v5) /\ Rejected(v8, v7) /\ Backs(v5, v8, v7)
        BY <1>4, AffAgreed
    <2>2. Rejected(v8', v7)
        BY <1>0, <1>4, <2>1 DEF Rejected
    <2>7. \A p \in Ones : Requested(p, v8') = Requested(p, v8)
        <3> SUFFICES ASSUME NEW p \in Ones PROVE Requested(p, v8') = Requested(p, v8)
            OBVIOUS
        <3>1. /\ Requested(p, v8) \in Nat /\ RequestTerm(p, r) \in Nat
              /\ Requested(p, v8') = Requested(p, v8) - RequestTerm(p, v8[c]) + RequestTerm(p, r)
            BY <1>2, AffCallSums
        <3>2. RequestTerm(p, r) = RequestTerm(p, v8[c])
            BY <1>4
        <3> QED BY <3>1, <3>2
    <2>8. Backs(v5, v8', v7)
        BY <2>1, <2>7 DEF Backs
    <2> QED BY <1>4, <2>1, <2>2, <2>8
<1>5. Named(v5', v7')
    BY AffAgreed
<1> QED BY <1>1, <1>3, <1>4, <1>5, AffAgreeNext

\* So does one that leaves the credit, and what is owed, alone.
LEMMA AffStill ==
    ASSUME Aff!AffiliateInv, Aff!AgreeInv, NEW c \in Firsts, NEW r \in Aff!CallDoc, v8' = [v8 EXCEPT ![c] = r],
           UNCHANGED <<v1, v5, v6, v7>>,
           TieSelf(r), TieDocs(r, v5), TiePay(r, v7), Creating(v8', v5, v1, v10'.raced),
           v10.raced \subseteq v10'.raced, ~v10'.over => ~v10.over,
           \A b : SplitTerm(b, r, v1) <= SplitTerm(b, v8[c], v1),
           Aff!Straight' => /\ Aff!Straight
                            /\ RedeemTerm(r) = RedeemTerm(v8[c])
                            /\ \A p \in Ones : RequestTerm(p, r) = RequestTerm(p, v8[c])
                            /\ v8[c].at # "reversed" /\ r.at \notin {"reversed", "settle"}
                            /\ Apart(v8', v5, v4')
    PROVE  Aff!AgreeInv'
<1>1. ASSUME Aff!Straight' PROVE Credited(v5, v8', v6')
    <2>1. Credited(v5, v8, v6)
        BY <1>1, AffAgreed
    <2>2. v8'[c] = r /\ \A a \in Firsts \ {c} : v8'[a] = v8[a]
        BY AffStays
    <2>3. Owed(v5, v8') = Owed(v5, v8)
        BY <1>1, <2>2, AffOwedStays
    <2>4. r.left <= r.amount
        BY DEF TieSelf
    <2>5. /\ Redeemed(v8') = Redeemed(v8) - RedeemTerm(v8[c]) + RedeemTerm(r)
          /\ Redeemed(v8) \in Nat /\ RedeemTerm(r) \in Nat
        BY <2>4, AffCallSums
    <2> QED BY <1>1, <2>1, <2>3, <2>5 DEF Credited
<1> QED BY <1>1, AffCallAgreed

-----------------------------------------------------------------------------
(* Affiliates: the actions keep AgreeInv.                                   *)

LEMMA AffReadyTerms ==
    /\ TieSelf(Aff!Ready) /\ (\A docs : TieDocs(Aff!Ready, docs)) /\ \A pay : TiePay(Aff!Ready, pay)
    /\ \A d \in Aff!Docs : Aff!Ready.doc[d].status = "none"
    /\ Aff!Ready.left = 0 /\ Aff!Ready.amount = 0 /\ Aff!Ready.payout = Nobody
    /\ RedeemTerm(Aff!Ready) = 0 /\ (\A b, of : SplitTerm(b, Aff!Ready, of) = 0) /\ \A p : RequestTerm(p, Aff!Ready) = 0
<1>1. \A d \in Aff!Docs : Aff!Ready.doc[d].status = "none"
    BY DEF Aff!Ready, Aff!NoCommission
<1>2. /\ Aff!Ready.left = 0 /\ Aff!Ready.amount = 0 /\ Aff!Ready.payout = Nobody /\ Aff!Ready.op = "none"
      /\ Aff!Ready.at = "idle"
    BY DEF Aff!Ready
<1>a. Aff!Ready.left <= Aff!Ready.amount /\ Aff!Ready.left = Aff!Ready.amount
    BY <1>2
<1>3. TieSelf(Aff!Ready)
    BY <1>2, <1>a, SMTT(20) DEF TieSelf
<1>4. (\A docs : TieDocs(Aff!Ready, docs)) /\ \A pay : TiePay(Aff!Ready, pay)
    BY <1>1, <1>2 DEF TieDocs, TiePay
<1>5. RedeemTerm(Aff!Ready) = 0 /\ (\A b, of : SplitTerm(b, Aff!Ready, of) = 0) /\ \A p : RequestTerm(p, Aff!Ready) = 0
    BY <1>2 DEF RedeemTerm, SplitTerm, RequestTerm
<1> QED BY <1>1, <1>2, <1>3, <1>4, <1>5

LEMMA AffOpens ==
    ASSUME Aff!AffiliateInv, NEW c \in Firsts, NEW r \in Aff!CallDoc, Aff!Opens(c, r)
    PROVE  /\ v8[c] = Aff!Ready /\ v8' = [v8 EXCEPT ![c] = r] /\ v10'.raced = v10.raced /\ v10'.over = v10.over
           /\ Aff!Straight' => /\ Aff!Straight
                               /\ r.op \in Aff!Spends => \A b \in Firsts \ {c} : v8[b].op # "reverse"
<1> DEFINE others == {v8[b].op : b \in Firsts \ {c}}
<1>1. /\ v8[c] = Aff!Ready /\ v8' = [v8 EXCEPT ![c] = r]
      /\ v10' = [v10 EXCEPT !.crossed = \/ @
                                        \/ r.op = "reverse" /\ (others \cap Aff!Spends) # {}
                                        \/ r.op \in Aff!Spends /\ "reverse" \in others]
    BY DEF Aff!Opens, Aff!Set
<1>2. v10'.raced = v10.raced /\ v10'.over = v10.over
    BY <1>1, AffStays DEF Marks
<1>3. Aff!Straight' => Aff!Straight /\ (r.op \in Aff!Spends => \A b \in Firsts \ {c} : v8[b].op # "reverse")
    BY <1>1, AffStays DEF Aff!Straight, Marks
<1> QED BY <1>1, <1>2, <1>3

LEMMA AffBeginsAgreed ==
    ASSUME Aff!AffiliateInv, Aff!AgreeInv, NEW c \in Firsts, NEW r \in Aff!CallDoc, Aff!Opens(c, r),
           UNCHANGED <<v1, v5, v6, v7>>, r.op \in {"paid", "reverse", "redeem", "payout", "view", "review"},
           r.at \in {"eligible", "find", "save"}, r.at = "find" <=> r.op = "reverse", r.left = r.amount, r.todo = {}, r.doc = Aff!Ready.doc,
           r.op = "review" \/ r.payout = Nobody,
           r.op = "review" => r.payout # Nobody /\ v7[r.payout].status # "none",
           r.op \in {"paid", "reverse"} \/ v4' = v4,
           r.op = "reverse" => r.order \in v4 /\ v4' = v4 \ {r.order}
    PROVE  Aff!AgreeInv'
<1>1. /\ v8[c] = Aff!Ready /\ v8' = [v8 EXCEPT ![c] = r] /\ v10'.raced = v10.raced /\ v10'.over = v10.over
      /\ Aff!Straight' => /\ Aff!Straight
                          /\ r.op \in Aff!Spends => \A b \in Firsts \ {c} : v8[b].op # "reverse"
    BY AffOpens
<1>0. v8'[c] = r /\ \A a \in Firsts \ {c} : v8'[a] = v8[a]
    BY <1>1, AffStays
<1>2. r.left \in Nat /\ r.amount \in Nat
    BY DEF Aff!CallDoc
<1>9. r.left <= r.amount
    BY <1>2
<1>8. TieSelf(r)
    BY <1>9, SMTT(20) DEF TieSelf
<1>3. TieSelf(r) /\ TieDocs(r, v5) /\ TiePay(r, v7)
    BY <1>8, AffReadyTerms DEF TieDocs, TiePay
<1>4. Creating(v8', v5, v1, v10'.raced)
    <2>1. \A d \in Aff!Docs : v5'[d].status # "none" =>
              \E e \in Aff!Docs : v5[e].status # "none" /\ v1[v5[e].order] = v1[v5'[d].order]
        OBVIOUS
    <2> QED BY <1>1, <2>1, AffCreatingGoes
<1>5. /\ RedeemTerm(r) = RedeemTerm(v8[c])
      /\ \A b : SplitTerm(b, r, v1) <= SplitTerm(b, v8[c], v1)
      /\ \A p \in Ones : RequestTerm(p, r) = RequestTerm(p, v8[c])
    BY <1>1, <1>2, AffReadyTerms, AffBounds DEF RedeemTerm, SplitTerm, RequestTerm
<1>6. v8[c].at = "idle" /\ v8[c].op = "none"
    BY <1>1, AffIdle
<1>7. Aff!Straight' => Apart(v8', v5, v4')
    <2> SUFFICES ASSUME Aff!Straight' PROVE Apart(v8', v5, v4')
        OBVIOUS
    <2>1. CASE r.op \in Aff!Spends
        <3>1. \A a \in Firsts : v8'[a].op # "reverse"
            BY <1>0, <1>1, <2>1 DEF Aff!Spends
        <3> QED BY <3>1 DEF Apart
    <2>2. CASE r.op \notin Aff!Spends /\ r.op # "reverse"
        <3>1. Apart(v8, v5, v4')
            BY <1>1, <2>2, AffAgreed DEF Aff!Spends
        <3>2. \A a \in Firsts : v8'[a].op = "reverse" => a # c /\ v8'[a] = v8[a]
            BY <1>0, <2>2
        <3> QED BY <3>1, <3>2 DEF Apart
    <2>3. CASE r.op = "reverse"
        <3>1. Apart(v8, v5, v4)
            BY <1>1, AffAgreed
        <3>2. \A a \in Firsts \ {c} : v8[a].op = "reverse" => v8[a].order \notin v4 /\ v8[a].order # r.order
            BY <2>3, <3>1 DEF Apart
        <3> QED BY <1>0, <2>3, <3>1, <3>2 DEF Apart
    <2> QED BY <2>1, <2>2, <2>3
<1> QED BY <1>1, <1>3, <1>4, <1>5, <1>6, <1>7, AffStill

LEMMA AffOpeningAgreed ==
    ASSUME Aff!AffiliateInv, Aff!AgreeInv, NEW c \in Firsts, Aff!Opening(c) PROVE Aff!AgreeInv'
<1>1. ASSUME NEW o \in Seconds, Aff!PaidInvoice(c, o) PROVE Aff!AgreeInv'
    <2> DEFINE r == [Aff!Ready EXCEPT !.op = "paid", !.at = "eligible", !.order = o]
    <2>1. Aff!Opens(c, r) /\ UNCHANGED <<v1, v5, v6, v7>>
        BY <1>1 DEF Aff!PaidInvoice
    <2>2. /\ r \in Aff!CallDoc /\ r.op = "paid" /\ r.at = "eligible" /\ r.todo = {} /\ r.doc = Aff!Ready.doc
          /\ r.left = 0 /\ r.amount = 0 /\ r.payout = Nobody
        BY AffIdle, AffReadyTerms DEF Aff!CallDoc
    <2> HIDE DEF r
    <2> QED BY <2>1, <2>2, AffBeginsAgreed DEF Aff!Spends
<1>2. ASSUME NEW o \in Seconds, Aff!RevertInvoice(c, o) PROVE Aff!AgreeInv'
    <2> DEFINE r == [Aff!Ready EXCEPT !.op = "reverse", !.at = "find", !.order = o]
    <2>1. Aff!Opens(c, r) /\ UNCHANGED <<v1, v5, v6, v7>> /\ o \in v4 /\ v4' = v4 \ {o}
        BY <1>2 DEF Aff!RevertInvoice
    <2>2. /\ r \in Aff!CallDoc /\ r.op = "reverse" /\ r.at = "find" /\ r.todo = {} /\ r.doc = Aff!Ready.doc
          /\ r.left = 0 /\ r.amount = 0 /\ r.payout = Nobody /\ r.order = o
        BY AffIdle, AffReadyTerms DEF Aff!CallDoc
    <2> HIDE DEF r
    <2> QED BY <2>1, <2>2, AffBeginsAgreed
<1>3. ASSUME NEW amount \in 1 .. Earned, Aff!Redeem(c, amount) \/ Aff!RequestPayout(c, amount) PROVE Aff!AgreeInv'
    <2>0. amount \in Nat
        BY AffBounds
    <2>1. PICK op \in {"redeem", "payout"} :
             /\ Aff!Opens(c, [Aff!Ready EXCEPT !.op = op, !.at = "eligible", !.amount = amount, !.left = amount])
             /\ UNCHANGED <<v1, v4, v5, v6, v7>>
        BY <1>3 DEF Aff!Redeem, Aff!RequestPayout
    <2> DEFINE r == [Aff!Ready EXCEPT !.op = op, !.at = "eligible", !.amount = amount, !.left = amount]
    <2>2. /\ r \in Aff!CallDoc /\ r.op = op /\ r.at = "eligible" /\ r.todo = {} /\ r.doc = Aff!Ready.doc
          /\ r.left = amount /\ r.amount = amount /\ r.payout = Nobody
        BY <2>0, AffIdle, AffReadyTerms DEF Aff!CallDoc
    <2>3. Aff!Opens(c, r)
        BY <2>1
    <2> HIDE DEF r
    <2>4. r.op \in {"redeem", "payout"}
        BY <2>2
    <2> QED BY <2>1, <2>2, <2>3, <2>4, AffBeginsAgreed
<1>4. CASE Aff!Dashboard(c)
    <2> DEFINE r == [Aff!Ready EXCEPT !.op = "view", !.at = "eligible"]
    <2>1. Aff!Opens(c, r) /\ UNCHANGED <<v1, v4, v5, v6, v7>>
        BY <1>4 DEF Aff!Dashboard
    <2>2. /\ r \in Aff!CallDoc /\ r.op = "view" /\ r.at = "eligible" /\ r.todo = {} /\ r.doc = Aff!Ready.doc
          /\ r.left = 0 /\ r.amount = 0 /\ r.payout = Nobody
        BY AffIdle, AffReadyTerms DEF Aff!CallDoc
    <2> HIDE DEF r
    <2> QED BY <2>1, <2>2, AffBeginsAgreed
<1>5. ASSUME NEW p \in Ones, NEW act \in {"approve", "reject", "mark_paid"}, Aff!Review(c, p, act) PROVE Aff!AgreeInv'
    <2> DEFINE s == v7[p].status
               r == [Aff!Ready EXCEPT !.op = "review", !.at = "save", !.payout = p, !.act = act, !.status = s]
    <2>1. Aff!Opens(c, r) /\ UNCHANGED <<v1, v4, v5, v6, v7>> /\ v7[p].status # "none"
        BY <1>5 DEF Aff!Review
    <2>0. s \in Aff!PayoutStates
        BY AffStays DEF PayoutDoc
    <2> HIDE DEF s
    <2>2. /\ r \in Aff!CallDoc /\ r.op = "review" /\ r.at = "save" /\ r.todo = {} /\ r.doc = Aff!Ready.doc
          /\ r.left = 0 /\ r.amount = 0 /\ r.payout = p
        BY <2>0, AffIdle, AffReadyTerms DEF Aff!CallDoc
    <2> HIDE DEF r
    <2> QED BY <2>1, <2>2, AffBounds, AffBeginsAgreed
<1> QED BY <1>1, <1>2, <1>3, <1>4, <1>5 DEF Aff!Opening

\* Referrals and the profile's status are nothing to the sums.
LEMMA AffAsideAgreed ==
    ASSUME Aff!AgreeInv, UNCHANGED <<v1, v4, v5, v6, v7, v8, v10>> PROVE Aff!AgreeInv'
BY AffAgreeIs, AffAgreeNext DEF Aff!Straight

\* A call ends, and what it had left is nobody's.
LEMMA AffEndsAgreed ==
    ASSUME Aff!AffiliateInv, Aff!AgreeInv, NEW c \in Firsts, Aff!Done(c), UNCHANGED <<v1, v4, v5, v6, v7>>,
           v10.raced \subseteq v10'.raced, ~v10'.over => ~v10.over,
           Aff!Straight' => /\ Aff!Straight /\ v8[c].at # "reversed"
                            /\ v8[c].op \in {"redeem", "payout"} => v8[c].at \in {"pending", "collect"}
    PROVE  Aff!AgreeInv'
<1> DEFINE r == Aff!Ready
<1>1. v8' = [v8 EXCEPT ![c] = r] /\ r \in Aff!CallDoc
    BY AffIdle DEF Aff!Done, Aff!Set
<1>2. /\ TieSelf(r) /\ TieDocs(r, v5) /\ TiePay(r, v7) /\ r.at = "idle" /\ r.op = "none"
      /\ RedeemTerm(r) = 0 /\ (\A b, of : SplitTerm(b, r, of) = 0) /\ \A p : RequestTerm(p, r) = 0
    BY AffReadyTerms, AffIdle
<1> HIDE DEF r
<1>3. TieSelf(v8[c]) /\ v8[c] \in Aff!CallDoc
    BY AffAgreed, AffStays
<1>4. v8[c].left \in Nat /\ v8[c].amount \in Nat
    BY <1>3 DEF Aff!CallDoc
<1>5. \A b : SplitTerm(b, r, v1) <= SplitTerm(b, v8[c], v1)
    BY <1>2, <1>4 DEF SplitTerm
<1>6. ASSUME Aff!Straight' PROVE RedeemTerm(v8[c]) = 0 /\ \A p \in Ones : RequestTerm(p, v8[c]) = 0
    BY <1>3, <1>4, <1>6, AffBounds DEF TieSelf, RedeemTerm, RequestTerm
<1>7. Creating(v8', v5, v1, v10'.raced)
    <2>1. \A d \in Aff!Docs : v5'[d].status # "none" =>
              \E e \in Aff!Docs : v5[e].status # "none" /\ v1[v5[e].order] = v1[v5'[d].order]
        OBVIOUS
    <2> QED BY <1>1, <1>2, <2>1, AffCreatingGoes
<1>8. Aff!Straight' => Apart(v8', v5', v4')
    BY <1>1, <1>2, AffApart
<1> QED BY <1>1, <1>2, <1>5, <1>6, <1>7, <1>8, AffStill

\* A call goes on, with the amounts and the request it has.
LEMMA AffOnAgreed ==
    ASSUME Aff!AffiliateInv, Aff!AgreeInv, NEW c \in Firsts, NEW r \in Aff!CallDoc, v8' = [v8 EXCEPT ![c] = r],
           UNCHANGED <<v1, v4, v5, v6, v7, v10>>, TieSelf(r), TieDocs(r, v5),
           r.op = v8[c].op, r.order = v8[c].order, r.payout = v8[c].payout, r.left = v8[c].left, r.amount = v8[c].amount,
           r.at \notin {"split", "reversed", "settle", "create"}, v8[c].at # "reversed",
           Aff!Straight /\ r.op = "reverse" => \A d \in r.todo : r.doc[d].status = "CREDITED" => v5[d] = r.doc[d]
    PROVE  Aff!AgreeInv'
<1>1. TiePay(r, v7)
    BY AffAgreed DEF TiePay
<1>2. Creating(v8', v5, v1, v10'.raced)
    <2>1. \A d \in Aff!Docs : v5'[d].status # "none" =>
              \E e \in Aff!Docs : v5[e].status # "none" /\ v1[v5[e].order] = v1[v5'[d].order]
        OBVIOUS
    <2> QED BY <2>1, AffCreatingGoes
<1>3. v8[c].left \in Nat
    BY AffStays DEF Aff!CallDoc
<1>4. /\ RedeemTerm(r) = RedeemTerm(v8[c])
      /\ \A b : SplitTerm(b, r, v1) <= SplitTerm(b, v8[c], v1)
      /\ \A p : RequestTerm(p, r) = RequestTerm(p, v8[c])
    BY <1>3 DEF RedeemTerm, SplitTerm, RequestTerm
<1>5. Aff!Straight' => Aff!Straight
    BY DEF Aff!Straight
<1>6. Aff!Straight' => Apart(v8', v5', v4')
    BY <1>5, AffApart
<1> QED BY <1>1, <1>2, <1>4, <1>5, <1>6, AffStill

\* What is read of the documents is of documents there are.
LEMMA AffReads == \A m : m.doc = v5 => TieDocs(m, v5)
BY DEF TieDocs

LEMMA AffApprovesAgreed ==
    ASSUME Aff!AffiliateInv, Aff!AgreeInv, NEW c \in Firsts, Aff!FindEligible(c) \/ (Aff!ApproveNext(c) /\ v8[c].todo = {})
    PROVE  Aff!AgreeInv'
<1> DEFINE m == v8[c]
<1>0. m \in Aff!CallDoc /\ TieSelf(m)
    BY AffStays, AffAgreed
<1>1. CASE Aff!FindEligible(c)
    <2>1. PICK ripe \in SUBSET Aff!Of("QUALIFIED") :
             v8' = [v8 EXCEPT ![c] = [m EXCEPT !.at = "approve", !.todo = ripe, !.doc = v5]]
        BY <1>1 DEF Aff!FindEligible, Aff!Set
    <2> DEFINE r == [m EXCEPT !.at = "approve", !.todo = ripe, !.doc = v5]
    <2>2. UNCHANGED <<v1, v4, v5, v6, v7, v10>> /\ m.at = "eligible" /\ v8' = [v8 EXCEPT ![c] = r]
        BY <1>1, <2>1 DEF Aff!FindEligible
    <2>3. ripe \in SUBSET Aff!Docs /\ \A d \in ripe : v5[d].status = "QUALIFIED"
        BY DEF Aff!Of
    <2>4. /\ r \in Aff!CallDoc /\ r.at = "approve" /\ r.todo = ripe /\ r.doc = v5 /\ r.op = m.op /\ r.order = m.order
          /\ r.payout = m.payout /\ r.left = m.left /\ r.amount = m.amount
        BY <1>0, <2>3, AffStays DEF Aff!CallDoc
    <2> HIDE DEF r
    <2>5. m.op # "reverse"
        BY <1>0, <2>2 DEF TieSelf
    <2>6. TieSelf(r)
        BY <1>0, <2>2, <2>3, <2>4, <2>5 DEF TieSelf
    <2> QED BY <2>2, <2>4, <2>5, <2>6, AffReads, AffOnAgreed
<1>2. CASE Aff!ApproveNext(c) /\ m.todo = {}
    <2>0. UNCHANGED <<v1, v4, v5, v6, v7, v10>> /\ m.at = "approve"
        BY <1>2 DEF Aff!ApproveNext
    <2>2. CASE m.op = "view"
        <3>1. Aff!Done(c)
            BY <1>2, <2>2 DEF Aff!ApproveNext
        <3>2. Aff!Straight' => Aff!Straight
            BY <2>0 DEF Aff!Straight
        <3> QED BY <2>0, <2>2, <3>1, <3>2, AffEndsAgreed
    <2>3. CASE m.op # "view"
        <3> DEFINE a == Aff!AfterApproval(m.op)
                   r == [m EXCEPT !.at = a, !.doc = Aff!Ready.doc]
        <3>1. v8' = [v8 EXCEPT ![c] = r]
            BY <1>2, <2>3 DEF Aff!ApproveNext, Aff!Set
        <3>2. a \in {"look", "client", "pending", "idle"}
            BY DEF Aff!AfterApproval
        <3>3. Aff!Ready.doc \in [Aff!Docs -> Aff!Commission]
            BY AffIdle DEF Aff!CallDoc
        <3> HIDE DEF a
        <3>4. /\ r \in Aff!CallDoc /\ r.at = a /\ r.todo = {} /\ r.op = m.op /\ r.order = m.order /\ r.doc = Aff!Ready.doc
              /\ r.payout = m.payout /\ r.left = m.left /\ r.amount = m.amount
            BY <1>0, <1>2, <3>2, <3>3 DEF Aff!CallDoc
        <3> HIDE DEF r
        <3>5. m.op # "reverse"
            BY <1>0, <2>0 DEF TieSelf
        <3>6. TieSelf(r) /\ TieDocs(r, v5)
            BY <1>0, <2>0, <3>2, <3>4, <3>5, AffReadyTerms DEF TieSelf, TieDocs
        <3> QED BY <2>0, <3>1, <3>2, <3>4, <3>5, <3>6, AffOnAgreed
    <2> QED BY <2>2, <2>3
<1> QED BY <1>1, <1>2

LEMMA AffFailsAgreed ==
    ASSUME Aff!AffiliateInv, Aff!AgreeInv, NEW c \in Firsts, Aff!CallDies(c) \/ Aff!AllocateShort(c) PROVE Aff!AgreeInv'
<1>1. Aff!Done(c) /\ v10' = [v10 EXCEPT !.cut = TRUE] /\ UNCHANGED <<v1, v4, v5, v6, v7>>
    BY DEF Aff!CallDies, Aff!AllocateShort, Aff!Cut
<1>2. v10'.raced = v10.raced /\ v10'.over = v10.over /\ v10'.cut
    BY <1>1, AffStays DEF Marks
<1>3. ~Aff!Straight'
    BY <1>2 DEF Aff!Straight
<1> QED BY <1>1, <1>2, <1>3, AffEndsAgreed

LEMMA AffLooksAgreed == ASSUME Aff!AffiliateInv, Aff!AgreeInv, NEW c \in Firsts, Aff!Look(c) PROVE Aff!AgreeInv'
<1> DEFINE m == v8[c]
           b == v1[m.order]
<1>0. m \in Aff!CallDoc /\ TieSelf(m) /\ TieDocs(m, v5) /\ TiePay(m, v7) /\ v8 \in [Firsts -> Aff!CallDoc] /\ v10 \in Marks
    BY AffStays, AffAgreed
<1>1. m.at = "look" /\ UNCHANGED <<v1, v4, v5, v6, v7>> /\ m.op = "paid" /\ m.order \in Seconds
    BY AffCall DEF Aff!Look, AffCallDocOK
<1>2. CASE Aff!Done(c) /\ UNCHANGED v10
    <2>1. Aff!Straight' => Aff!Straight
        BY <1>2 DEF Aff!Straight
    <2> QED BY <1>1, <1>2, <2>1, AffEndsAgreed
<1>3. CASE ~(Aff!Done(c) /\ UNCHANGED v10)
    <2> DEFINE r == [m EXCEPT !.at = "create"]
    <2>1. /\ v8' = [v8 EXCEPT ![c] = r] /\ Aff!Prior(m.order) = {}
          /\ IF \E a \in Firsts \ {c} : v8[a].at = "create" /\ v1[v8[a].order] = b
             THEN v10' = [v10 EXCEPT !.raced = @ \cup {b}] ELSE v10' = v10
        BY <1>3 DEF Aff!Look, Aff!Set
    <2>2. /\ r \in Aff!CallDoc /\ r.at = "create" /\ r.op = m.op /\ r.order = m.order /\ r.todo = m.todo /\ r.doc = m.doc
          /\ r.payout = m.payout /\ r.left = m.left /\ r.amount = m.amount
        BY <1>0 DEF Aff!CallDoc
    <2> HIDE DEF r
    <2>3. /\ v10.raced \subseteq v10'.raced /\ v10'.over = v10.over /\ v10'.cut = v10.cut /\ v10'.crossed = v10.crossed
          /\ (\E a \in Firsts \ {c} : v8[a].at = "create" /\ v1[v8[a].order] = b) => b \in v10'.raced
        BY <1>0, <2>1 DEF Marks
    <2>4. TieSelf(r) /\ TieDocs(r, v5) /\ TiePay(r, v7)
        BY <1>0, <1>1, <2>2 DEF TieSelf, TieDocs, TiePay
    <2>5. v8'[c] = r /\ \A a \in Firsts \ {c} : v8'[a] = v8[a]
        BY <1>0, <2>1
    <2>6. Creating(v8', v5, v1, v10'.raced)
        <3> SUFFICES ASSUME NEW a \in Firsts, v8'[a].at = "create", v1[v8'[a].order] \notin v10'.raced
                     PROVE  /\ \A d \in Aff!Docs : v5[d].status # "none" => v1[v5[d].order] # v1[v8'[a].order]
                            /\ \A e \in Firsts \ {a} : v8'[e].at = "create" => v1[v8'[e].order] # v1[v8'[a].order]
            BY DEF Creating
        <3>1. CASE a = c
            <4>1. v8'[a].order = m.order /\ b \notin v10'.raced
                BY <2>2, <2>5, <3>1
            <4>2. \A d \in Aff!Docs : v5[d].status # "none" => v1[v5[d].order] # b
                BY <2>1 DEF Aff!Prior, Aff!Made, Aff!Of
            <4>3. \A e \in Firsts \ {c} : v8'[e].at = "create" => v1[v8'[e].order] # b
                BY <2>3, <2>5, <4>1
            <4> QED BY <3>1, <4>1, <4>2, <4>3
        <3>2. CASE a # c
            <4>1. v8'[a] = v8[a] /\ v1[v8[a].order] \notin v10.raced
                BY <2>3, <2>5, <3>2
            <4>2. /\ \A d \in Aff!Docs : v5[d].status # "none" => v1[v5[d].order] # v1[v8[a].order]
                  /\ \A e \in Firsts \ {a} : v8[e].at = "create" => v1[v8[e].order] # v1[v8[a].order]
                BY <4>1, AffAgreed DEF Creating
            <4>3. b # v1[v8[a].order]
                BY <2>3, <2>5, <3>2, <4>1
            <4>4. ASSUME NEW e \in Firsts \ {a}, v8'[e].at = "create" PROVE v1[v8'[e].order] # v1[v8[a].order]
                <5>1. CASE e = c
                    BY <2>2, <2>5, <4>3, <5>1
                <5>2. CASE e # c
                    BY <2>5, <4>2, <4>4, <5>2
                <5> QED BY <5>1, <5>2
            <4> QED BY <4>1, <4>2, <4>4
        <3> QED BY <3>1, <3>2
    <2>7. m.left \in Nat
        BY <1>0 DEF Aff!CallDoc
    <2>8. /\ RedeemTerm(r) = RedeemTerm(m)
          /\ \A x : SplitTerm(x, r, v1) <= SplitTerm(x, m, v1)
          /\ \A p : RequestTerm(p, r) = RequestTerm(p, m)
        BY <1>1, <2>2, <2>7 DEF RedeemTerm, SplitTerm, RequestTerm
    <2>9. Aff!Straight' => Aff!Straight
        BY <2>3 DEF Aff!Straight
    <2>10. Aff!Straight' => Apart(v8', v5', v4')
        BY <1>1, <2>1, <2>2, <2>9, AffApart
    <2> HIDE DEF m, b
    <2> QED BY <1>1, <2>1, <2>2, <2>3, <2>4, <2>6, <2>8, <2>9, <2>10, AffStill DEF m
<1> QED BY <1>2, <1>3

LEMMA AffStepsAgreed ==
    ASSUME Aff!AffiliateInv, Aff!AgreeInv, NEW c \in Firsts, Aff!ReadClient(c) \/ Aff!CheckPending(c) \/ Aff!Collect(c)
    PROVE  Aff!AgreeInv'
<1> DEFINE m == v8[c]
<1>0. m \in Aff!CallDoc /\ TieSelf(m) /\ TieDocs(m, v5)
    BY AffStays, AffAgreed
<1>1. UNCHANGED <<v1, v4, v5, v6, v7, v10>> /\ m.at \in {"client", "pending", "collect"}
    BY DEF Aff!ReadClient, Aff!CheckPending, Aff!Collect
<1>2. (Aff!Straight' => Aff!Straight) /\ m.op # "reverse"
    BY <1>0, <1>1 DEF Aff!Straight, TieSelf
<1>3. ASSUME Aff!Done(c), m.at # "client" PROVE Aff!AgreeInv'
    BY <1>1, <1>2, <1>3, AffEndsAgreed
<1>4. ASSUME NEW a \in {"collect", "request", "find"}, a = "find" => m.op # "payout", a = "request" => m.op = "payout",
             NEW r \in Aff!CallDoc, v8' = [v8 EXCEPT ![c] = r], r.at = a, r.op = m.op, r.order = m.order,
             r.payout = m.payout, r.left = m.left, r.amount = m.amount, r.todo = m.todo, r.doc = m.doc
      PROVE  Aff!AgreeInv'
    <2>1. TieSelf(r) /\ TieDocs(r, v5)
        BY <1>0, <1>1, <1>2, <1>4 DEF TieSelf, TieDocs
    <2> QED BY <1>1, <1>2, <1>4, <2>1, AffOnAgreed
<1>5. CASE Aff!ReadClient(c)
    <2> DEFINE r == [m EXCEPT !.at = "collect", !.credit = v6]
    <2>1. v8' = [v8 EXCEPT ![c] = r]
        BY <1>5 DEF Aff!ReadClient, Aff!Set
    <2>2. /\ r \in Aff!CallDoc /\ r.at = "collect" /\ r.op = m.op /\ r.order = m.order /\ r.payout = m.payout
          /\ r.left = m.left /\ r.amount = m.amount /\ r.todo = m.todo /\ r.doc = m.doc
        BY <1>0, AffStays DEF Aff!CallDoc
    <2> QED BY <1>4, <2>1, <2>2
<1>6. ASSUME NEW a \in {"collect", "request", "find"}, a = "find" => m.op # "payout", a = "request" => m.op = "payout",
             Aff!Set(c, [m EXCEPT !.at = a])
      PROVE  Aff!AgreeInv'
    <2> DEFINE r == [m EXCEPT !.at = a]
    <2>1. v8' = [v8 EXCEPT ![c] = r]
        BY <1>6 DEF Aff!Set
    <2>2. /\ r \in Aff!CallDoc /\ r.at = a /\ r.op = m.op /\ r.order = m.order /\ r.payout = m.payout
          /\ r.left = m.left /\ r.amount = m.amount /\ r.todo = m.todo /\ r.doc = m.doc
        BY <1>0 DEF Aff!CallDoc
    <2> HIDE DEF r
    <2> QED BY <1>4, <1>6, <2>1, <2>2
<1>7. CASE Aff!CheckPending(c)
    BY <1>3, <1>6, <1>7 DEF Aff!CheckPending
<1>8. CASE Aff!Collect(c)
    <2>1. m.at = "collect"
        BY <1>8 DEF Aff!Collect
    <2>2. Aff!Done(c) \/ Aff!Set(c, [m EXCEPT !.at = IF m.op = "payout" THEN "request" ELSE "find"])
        BY <1>8 DEF Aff!Collect
    <2> QED BY <1>3, <1>6, <2>1, <2>2
<1> QED BY <1>5, <1>7, <1>8

LEMMA AffFindsAgreed == ASSUME Aff!AffiliateInv, Aff!AgreeInv, NEW c \in Firsts, Aff!FindDocs(c) PROVE Aff!AgreeInv'
<1> DEFINE m == v8[c]
           todo == IF m.op = "reverse" THEN {d \in Aff!Made \ Aff!Of("REVERSED") : v5[d].order = m.order}
                   ELSE Aff!Of("APPROVED")
           r == [m EXCEPT !.at = "change", !.doc = v5, !.todo = todo]
<1>0. m \in Aff!CallDoc /\ TieSelf(m) /\ TieDocs(m, v5)
    BY AffStays, AffAgreed
<1>1. UNCHANGED <<v1, v4, v5, v6, v7, v10>> /\ m.at = "find" /\ v8' = [v8 EXCEPT ![c] = r]
    BY DEF Aff!FindDocs, Aff!Set
<1>2. /\ todo \in SUBSET Aff!Docs /\ (m.op # "reverse" => \A d \in todo : v5[d].status = "APPROVED")
      /\ m.op = "reverse" => \A d \in todo : v5[d].status \notin {"none", "REVERSED"} /\ v5[d].order = m.order
    BY DEF Aff!Made, Aff!Of
<1> HIDE DEF todo
<1>3. /\ r \in Aff!CallDoc /\ r.at = "change" /\ r.op = m.op /\ r.order = m.order /\ r.todo = todo /\ r.doc = v5
      /\ r.payout = m.payout /\ r.left = m.left /\ r.amount = m.amount
    BY <1>0, <1>2, AffStays DEF Aff!CallDoc
<1> HIDE DEF r
<1>4. TieSelf(r)
    BY <1>0, <1>1, <1>2, <1>3 DEF TieSelf
<1> QED BY <1>1, <1>3, <1>4, AffReads, AffOnAgreed

LEMMA AffReverseReadsAgreed ==
    ASSUME Aff!AffiliateInv, Aff!AgreeInv, NEW c \in Firsts, Aff!ReverseReadClient(c) \/ Aff!ReverseEnds(c) PROVE Aff!AgreeInv'
<1> DEFINE m == v8[c]
           r == [m EXCEPT !.at = "debit", !.credit = v6]
<1>0. m \in Aff!CallDoc /\ TieSelf(m) /\ TieDocs(m, v5) /\ (Aff!Straight => Apart(v8, v5, v4))
    BY AffStays, AffAgreed
<1>1. UNCHANGED <<v1, v4, v5, v6, v7, v10>> /\ m.at = "change" /\ m.op = "reverse"
    BY DEF Aff!ReverseReadClient, Aff!ReverseEnds
<1>2. CASE Aff!ReverseEnds(c)
    <2>1. Aff!Done(c) /\ (Aff!Straight' => Aff!Straight)
        BY <1>1, <1>2 DEF Aff!ReverseEnds, Aff!Straight
    <2> QED BY <1>1, <2>1, AffEndsAgreed
<1>3. CASE Aff!ReverseReadClient(c)
    <2>1. v8' = [v8 EXCEPT ![c] = r] /\ m.todo # {} /\ m.doc[Aff!Min(m.todo)].status = "CREDITED"
        BY <1>3 DEF Aff!ReverseReadClient, Aff!Set
    <2>2. /\ r \in Aff!CallDoc /\ r.at = "debit" /\ r.op = m.op /\ r.order = m.order /\ r.todo = m.todo /\ r.doc = m.doc
          /\ r.payout = m.payout /\ r.left = m.left /\ r.amount = m.amount
        BY <1>0, AffStays DEF Aff!CallDoc
    <2> HIDE DEF r
    <2>3. TieSelf(r) /\ TieDocs(r, v5)
        BY <1>0, <1>1, <2>1, <2>2 DEF TieSelf, TieDocs
    <2>4. Aff!Straight => \A d \in r.todo : r.doc[d].status = "CREDITED" => v5[d] = r.doc[d]
        BY <1>0, <1>1, <2>2 DEF Apart
    <2> QED BY <1>1, <2>1, <2>2, <2>3, <2>4, AffOnAgreed
<1> QED BY <1>2, <1>3

\* Nothing is reserved or asked for with a request there is not.
LEMMA AffNobodys ==
    ASSUME Aff!AffiliateInv, Aff!AgreeInv, NEW p \in Ones, v7[p].status = "none"
    PROVE  Reserved(p, v5) = 0 /\ Requested(p, v8) = 0
<1> DEFINE S == {d \in Aff!Docs : v5[d].status # "none" /\ v5[d].payout = p}
           C == {c \in Firsts : v8[c].op = "payout" /\ v8[c].payout = p}
<1>1. p # Nobody
    BY AffBounds
<1>2. \A d \in Aff!Docs : v5[d].payout # p
    BY <1>1, AffAgreeIs DEF Named
<1>3. \A c \in Firsts : v8[c].payout # p
    BY <1>1, AffAgreed DEF TiePay
<1>4. S = {} /\ C = {}
    BY <1>2, <1>3
<1> HIDE DEF S, C
<1>5. /\ AmountsIn(v5, S) \in [Aff!Docs -> Nat] /\ \A d \in Aff!Docs : AmountsIn(v5, S)[d] = 0
      /\ LeftIn(v8, C) \in [Firsts -> Nat] /\ \A c \in Firsts : LeftIn(v8, C)[c] = 0
    BY <1>4 DEF AmountsIn, LeftIn
<1> QED BY <1>5, AffFinite, SumOfZeros DEF Reserved, Requested, S, C

LEMMA AffRequestsAgreed ==
    ASSUME Aff!AffiliateInv, Aff!AgreeInv, NEW c \in Firsts, NEW p \in Ones, Aff!CreateRequest(c, p) PROVE Aff!AgreeInv'
<1> DEFINE m == v8[c]
           r == [m EXCEPT !.at = "find", !.payout = p]
           request == [status |-> "PENDING", amount |-> m.amount]
<1>0. m \in Aff!CallDoc /\ TieSelf(m) /\ TieDocs(m, v5) /\ AffCallDocOK(m) /\ v7 \in [Ones -> PayoutDoc] /\ v8 \in [Firsts -> Aff!CallDoc]
    BY AffStays, AffAgreed, AffCall
<1>1. /\ UNCHANGED <<v1, v4, v5, v6, v10>> /\ m.at = "request" /\ v7[p].status = "none"
      /\ v7' = [v7 EXCEPT ![p] = request] /\ v8' = [v8 EXCEPT ![c] = r]
    BY DEF Aff!CreateRequest, Aff!Set
<1>2. /\ r \in Aff!CallDoc /\ r.at = "find" /\ r.op = m.op /\ r.order = m.order /\ r.todo = m.todo /\ r.doc = m.doc
      /\ r.payout = p /\ r.left = m.left /\ r.amount = m.amount
    BY <1>0 DEF Aff!CallDoc
<1>3. /\ v7'[p].status = "PENDING" /\ v7'[p].amount = m.amount /\ \A q \in Ones \ {p} : v7'[q] = v7[q]
    BY <1>0, <1>1
<1>4. v8'[c] = r /\ \A a \in Firsts \ {c} : v8'[a] = v8[a]
    BY <1>0, <1>1
<1> HIDE DEF r, request
<1>5. m.op \in {"redeem", "payout"} /\ m.left = m.amount /\ m.left \in Nat /\ m.amount \in Nat /\ p # Nobody
    BY <1>0, <1>1, AffBounds DEF AffCallDocOK, TieSelf, Aff!CallDoc
<1>6. TieSelf(r) /\ TieDocs(r, v5) /\ TiePay(r, v7')
    BY <1>0, <1>1, <1>2, <1>3, <1>5 DEF TieSelf, TieDocs, TiePay
<1>7. Ties(v8', v5', v7')
    <2>1. \A q \in Ones : v7[q].status # "none" => v7'[q].status # "none"
        BY <1>3
    <2> QED BY <1>1, <1>2, <1>6, <2>1, AffTiesGo
<1>8. Creating(v8', v5', v1', v10'.raced)
    <2>1. \A d \in Aff!Docs : v5'[d].status # "none" =>
              \E e \in Aff!Docs : v5[e].status # "none" /\ v1[v5[e].order] = v1[v5'[d].order]
        BY <1>1
    <2> QED BY <1>1, <1>2, <2>1, AffCreatingGoes
<1>9. /\ \A b : Splitting(b, v8', v1) = Splitting(b, v8, v1)
      /\ \A q : /\ Requested(q, v8) \in Nat /\ Requested(q, v8') = Requested(q, v8) - RequestTerm(q, m) + RequestTerm(q, r)
      /\ Redeemed(v8') = Redeemed(v8)
    <2>1. RedeemTerm(r) = 0 /\ RedeemTerm(m) = 0 /\ \A b : SplitTerm(b, r, v1) = 0 /\ SplitTerm(b, m, v1) = 0
        BY <1>1, <1>2, <1>5 DEF RedeemTerm, SplitTerm
    <2>2. r.left <= r.amount
        BY <1>2, <1>5
    <2>3. /\ Redeemed(v8) \in Nat /\ Redeemed(v8') = Redeemed(v8) - RedeemTerm(m) + RedeemTerm(r)
          /\ \A b : /\ Splitting(b, v8, v1) \in Nat
                    /\ Splitting(b, v8', v1) = Splitting(b, v8, v1) - SplitTerm(b, m, v1) + SplitTerm(b, r, v1)
          /\ \A q : /\ Requested(q, v8) \in Nat
                    /\ Requested(q, v8') = Requested(q, v8) - RequestTerm(q, m) + RequestTerm(q, r)
        BY <1>1, <1>2, <2>2, AffCallSums
    <2> QED BY <2>1, <2>3
<1>10. Once(v5', v8', v1', v10')
    BY <1>1, <1>9, AffAgreed DEF Once
<1>11. Named(v5', v7')
    <2>1. ASSUME NEW d \in Aff!Docs, v5[d].payout # Nobody PROVE v7'[v5[d].payout].status # "none"
        <3>1. v5[d].payout \in Ones /\ v7[v5[d].payout].status # "none"
            BY <2>1, AffAgreed, AffStays DEF Named, Aff!Commission
        <3> QED BY <1>3, <3>1
    <2> QED BY <1>1, <2>1 DEF Named
<1>12. ASSUME Aff!Straight'
       PROVE  /\ Unnamed(v5') /\ Rejected(v8', v7') /\ Apart(v8', v5', v4') /\ Credited(v5', v8', v6') /\ Backs(v5', v8', v7')
    <2>0. Aff!Straight
        BY <1>1, <1>12 DEF Aff!Straight
    <2>1. Unnamed(v5) /\ Rejected(v8, v7) /\ Apart(v8, v5, v4) /\ Credited(v5, v8, v6) /\ Backs(v5, v8, v7)
        BY <2>0, AffAgreed
    <2>2. Rejected(v8', v7')
        <3>1. ASSUME NEW a \in Firsts, v8'[a].at = "settle", v8'[a].act = "reject"
              PROVE  v7'[v8'[a].payout].status = "REJECTED"
            <4>1. a # c /\ v8'[a] = v8[a]
                BY <1>2, <1>4, <3>1
            <4>2. v7[v8[a].payout].status = "REJECTED" /\ v8[a].payout \in Ones
                <5>1. v8[a].payout # Nobody /\ v8[a] \in Aff!CallDoc
                    BY <1>0, <3>1, <4>1, AffAgreed DEF TieSelf
                <5> QED BY <2>1, <3>1, <4>1, <5>1 DEF Rejected, Aff!CallDoc
            <4> QED BY <1>1, <1>3, <4>1, <4>2
        <3> QED BY <3>1 DEF Rejected
    <2>3. Apart(v8', v5', v4')
        <3>1. m.op # "reverse" /\ r.op # "reverse"
            BY <1>2, <1>5
        <3> QED BY <1>1, <1>2, <2>0, <3>1, AffApart
    <2>4. Credited(v5', v8', v6')
        <3>1. Owed(v5, v8') = Owed(v5, v8)
            BY <1>1, <1>2, <1>4, AffOwedStays
        <3> QED BY <1>1, <1>9, <2>1, <3>1 DEF Credited
    <2>5. Backs(v5', v8', v7')
        <3> SUFFICES ASSUME NEW q \in Ones, v7'[q].status \in {"PENDING", "APPROVED", "PAID"}
                     PROVE  v7'[q].amount = Reserved(q, v5) + Requested(q, v8')
            BY <1>1 DEF Backs
        <3>1. CASE q = p
            <4>1. Reserved(p, v5) = 0 /\ Requested(p, v8) = 0
                BY <1>1, AffNobodys
            <4>2. RequestTerm(p, r) = m.left /\ RequestTerm(p, m) = 0
                BY <1>0, <1>1, <1>2, <1>5 DEF RequestTerm, TieSelf
            <4>3. Requested(p, v8') = Requested(p, v8) - RequestTerm(p, m) + RequestTerm(p, r)
                BY <1>9
            <4> QED BY <1>3, <1>5, <3>1, <4>1, <4>2, <4>3
        <3>2. CASE q # p
            <4>1. RequestTerm(q, r) = 0 /\ RequestTerm(q, m) = 0
                BY <1>0, <1>1, <1>2, <1>5, <3>2, AffBounds DEF RequestTerm, TieSelf
            <4>2. v7[q].amount = Reserved(q, v5) + Requested(q, v8)
                BY <1>3, <2>1, <3>2 DEF Backs
            <4>3. Requested(q, v8) \in Nat /\ Requested(q, v8') = Requested(q, v8) - RequestTerm(q, m) + RequestTerm(q, r)
                BY <1>9
            <4> QED BY <1>3, <3>2, <4>1, <4>2, <4>3
        <3> QED BY <3>1, <3>2
    <2> QED BY <1>1, <2>1, <2>2, <2>3, <2>4, <2>5
<1> QED BY <1>7, <1>8, <1>10, <1>11, <1>12, AffAgreeNext

-----------------------------------------------------------------------------
(* Affiliates: a step that saves one document.                              *)

LEMMA AffOnceGoes ==
    ASSUME Aff!AffiliateInv, Aff!AgreeInv, NEW c \in Firsts, NEW r \in Aff!CallDoc, v8' = [v8 EXCEPT ![c] = r],
           r.left <= r.amount, v1' = v1, v5' \in [Aff!Docs -> Aff!Commission],
           NEW x \in Aff!Docs, \A e \in Aff!Docs \ {x} : v5'[e] = v5[e],
           v10.raced \subseteq v10'.raced, ~v10'.over => ~v10.over,
           ~v10'.over => \A b \in Ones :
               BroughtTerm(b, v5'[x], v1) + SplitTerm(b, r, v1) <= BroughtTerm(b, v5[x], v1) + SplitTerm(b, v8[c], v1)
    PROVE  Once(v5', v8', v1', v10')
<1> SUFFICES ASSUME NEW b \in Ones, b \notin v10'.raced, ~v10'.over
             PROVE  Brought(b, v5', v1) + Splitting(b, v8', v1) <= Earned
    BY DEF Once
<1>1. Brought(b, v5, v1) + Splitting(b, v8, v1) <= Earned
    BY AffAgreed DEF Once
<1>2. /\ Splitting(b, v8, v1) \in Nat /\ SplitTerm(b, v8[c], v1) \in Nat /\ SplitTerm(b, r, v1) \in Nat
      /\ Splitting(b, v8', v1) = Splitting(b, v8, v1) - SplitTerm(b, v8[c], v1) + SplitTerm(b, r, v1)
    BY AffCallSums
<1>3. /\ Brought(b, v5, v1) \in Nat /\ BroughtTerm(b, v5[x], v1) \in Nat /\ BroughtTerm(b, v5'[x], v1) \in Nat
      /\ Brought(b, v5', v1) = Brought(b, v5, v1) - BroughtTerm(b, v5[x], v1) + BroughtTerm(b, v5'[x], v1)
    <2>1. v5 \in [Aff!Docs -> Aff!Commission]
        BY AffStays
    <2>2. \A a, of :
             /\ Brought(a, v5, of) \in Nat /\ Brought(a, v5', of) \in Nat
             /\ BroughtTerm(a, v5[x], of) \in Nat /\ BroughtTerm(a, v5'[x], of) \in Nat
             /\ Brought(a, v5', of) = Brought(a, v5, of) - BroughtTerm(a, v5[x], of) + BroughtTerm(a, v5'[x], of)
        BY <2>1, AffBroughtMoves
    <2> QED BY <2>2
<1>4. BroughtTerm(b, v5'[x], v1) + SplitTerm(b, r, v1) <= BroughtTerm(b, v5[x], v1) + SplitTerm(b, v8[c], v1)
    OBVIOUS
<1> QED BY <1>1, <1>2, <1>3, <1>4, AffBounds

LEMMA AffDocAgreed ==
    ASSUME Aff!AffiliateInv, Aff!AgreeInv, NEW c \in Firsts, NEW r \in Aff!CallDoc, v8' = [v8 EXCEPT ![c] = r],
           v5' \in [Aff!Docs -> Aff!Commission], UNCHANGED <<v1, v4, v6, v7>>,
           NEW x \in Aff!Docs, \A e \in Aff!Docs \ {x} : v5'[e] = v5[e],
           TieSelf(r), TieDocs(r, v5'), TiePay(r, v7),
           v5[x].status # "none" => v5'[x].status # "none" /\ v5'[x].order = v5[x].order,
           Creating(v8', v5', v1', v10'.raced), Once(v5', v8', v1', v10'),
           v5'[x].payout # Nobody => v7[v5'[x].payout].status # "none",
           Aff!Straight' => /\ Aff!Straight /\ Apart(v8', v5', v4') /\ r.at # "settle"
                            /\ v5'[x].status \in {"none", "QUALIFIED", "APPROVED", "CREDITED"} => v5'[x].payout = Nobody
                            /\ \A e \in Aff!Docs \ {x} : IsOwed(e, v5', v8') <=> IsOwed(e, v5, v8)
                            /\ OwedTerm(x, v5', v8') + RedeemTerm(v8[c]) = OwedTerm(x, v5, v8) + RedeemTerm(r)
                            /\ \A p \in Ones : ReservedTerm(p, v5'[x]) + RequestTerm(p, r)
                                                  = ReservedTerm(p, v5[x]) + RequestTerm(p, v8[c])
    PROVE  Aff!AgreeInv'
<1>0. v8'[c] = r /\ (\A a \in Firsts \ {c} : v8'[a] = v8[a]) /\ v5 \in [Aff!Docs -> Aff!Commission]
    BY AffStays
<1>1. Ties(v8', v5', v7')
    BY AffTiesGo
<1>2. r.left <= r.amount
    BY DEF TieSelf
<1>3. Named(v5', v7')
    BY AffAgreed DEF Named
<1>4. ASSUME Aff!Straight'
      PROVE  /\ Unnamed(v5') /\ Rejected(v8', v7') /\ Credited(v5', v8', v6') /\ Backs(v5', v8', v7')
    <2>1. Unnamed(v5) /\ Rejected(v8, v7) /\ Credited(v5, v8, v6) /\ Backs(v5, v8, v7)
        BY <1>4, AffAgreed
    <2>2. Unnamed(v5')
        BY <1>4, <2>1 DEF Unnamed
    <2>3. Rejected(v8', v7)
        BY <1>0, <1>4, <2>1 DEF Rejected
    <2>4. Credited(v5', v8', v6)
        <3>1. \A e \in Aff!Docs \ {x} :
                 (IsOwed(e, v5', v8') <=> IsOwed(e, v5, v8)) /\ (IsOwed(e, v5, v8) => v5'[e].amount = v5[e].amount)
            BY <1>4
        <3>2. /\ Owed(v5, v8) \in Nat /\ OwedTerm(x, v5, v8) \in Nat /\ OwedTerm(x, v5', v8') \in Nat
              /\ Owed(v5', v8') = Owed(v5, v8) - OwedTerm(x, v5, v8) + OwedTerm(x, v5', v8')
            <4>1. \A h, k :
                     (\A e \in Aff!Docs \ {x} : (IsOwed(e, v5', k) <=> IsOwed(e, v5, h)) /\ (IsOwed(e, v5, h) => v5'[e].amount = v5[e].amount))
                     => /\ Owed(v5, h) \in Nat /\ Owed(v5', k) \in Nat
                        /\ OwedTerm(x, v5, h) \in Nat /\ OwedTerm(x, v5', k) \in Nat /\ OwedTerm(x, v5, h) <= Owed(v5, h)
                        /\ Owed(v5', k) = Owed(v5, h) - OwedTerm(x, v5, h) + OwedTerm(x, v5', k)
                BY <1>0, AffOwedMoves
            <4> QED BY <3>1, <4>1
        <3>3. /\ Redeemed(v8) \in Nat /\ RedeemTerm(v8[c]) \in Nat /\ RedeemTerm(r) \in Nat
              /\ Redeemed(v8') = Redeemed(v8) - RedeemTerm(v8[c]) + RedeemTerm(r)
            BY <1>2, AffCallSums
        <3>4. OwedTerm(x, v5', v8') + RedeemTerm(v8[c]) = OwedTerm(x, v5, v8) + RedeemTerm(r) /\ v6 \in Nat
            BY <1>4, AffStays
        <3> QED BY <2>1, <3>2, <3>3, <3>4 DEF Credited
    <2>5. Backs(v5', v8', v7)
        <3> SUFFICES ASSUME NEW p \in Ones PROVE Reserved(p, v5') + Requested(p, v8') = Reserved(p, v5) + Requested(p, v8)
            BY <2>1 DEF Backs
        <3>1. \A q : /\ Reserved(q, v5) \in Nat /\ Reserved(q, v5') \in Nat
                     /\ ReservedTerm(q, v5[x]) \in Nat /\ ReservedTerm(q, v5'[x]) \in Nat
                     /\ Reserved(q, v5') = Reserved(q, v5) - ReservedTerm(q, v5[x]) + ReservedTerm(q, v5'[x])
            BY <1>0, AffReservedMoves
        <3>2. /\ Reserved(p, v5) \in Nat /\ ReservedTerm(p, v5[x]) \in Nat /\ ReservedTerm(p, v5'[x]) \in Nat
              /\ Reserved(p, v5') = Reserved(p, v5) - ReservedTerm(p, v5[x]) + ReservedTerm(p, v5'[x])
            BY <3>1
        <3>3. /\ Requested(p, v8) \in Nat /\ RequestTerm(p, v8[c]) \in Nat /\ RequestTerm(p, r) \in Nat
              /\ Requested(p, v8') = Requested(p, v8) - RequestTerm(p, v8[c]) + RequestTerm(p, r)
            BY <1>2, AffCallSums
        <3>4. ReservedTerm(p, v5'[x]) + RequestTerm(p, r) = ReservedTerm(p, v5[x]) + RequestTerm(p, v8[c])
            BY <1>4
        <3> QED BY <3>2, <3>3, <3>4
    <2> QED BY <2>2, <2>3, <2>4, <2>5
<1> QED BY <1>1, <1>3, <1>4, AffAgreeNext

-----------------------------------------------------------------------------
(* Affiliates: saving, allocating, reversing and paying keep AgreeInv.      *)

LEMMA AffMarkOver ==
    ASSUME Aff!AffiliateInv, NEW b \in BOOLEAN, v10' = [v10 EXCEPT !.over = @ \/ b]
    PROVE  v10'.raced = v10.raced /\ (~v10'.over => ~v10.over /\ ~b) /\ (Aff!Straight' => Aff!Straight /\ ~b /\ ~v10'.over)
BY AffStays DEF Marks, Aff!Straight

\* What is saved of a document, with what it may count for.
LEMMA AffSavedAgreed ==
    ASSUME Aff!AffiliateInv, Aff!AgreeInv, NEW c \in Firsts, NEW r \in Aff!CallDoc, v8' = [v8 EXCEPT ![c] = r],
           UNCHANGED <<v1, v4, v6, v7>>, NEW x \in Aff!Docs, NEW doc \in Aff!Commission, v5' = [v5 EXCEPT ![x] = doc],
           v10'.raced = v10.raced, ~v10'.over => ~v10.over, Aff!Straight' => Aff!Straight,
           v5[x].status # "none" => doc.order = v5[x].order, doc.status # "none",
           \E e \in Aff!Docs : v5[e].status # "none" /\ v1[v5[e].order] = v1[doc.order],
           TieSelf(r), TieDocs(r, v5), r.payout = v8[c].payout, r.at \notin {"create", "settle", "reversed"},
           doc.payout # Nobody => v7[doc.payout].status # "none",
           ~v10'.over => \A b \in Ones :
               BroughtTerm(b, doc, v1) + SplitTerm(b, r, v1) <= BroughtTerm(b, v5[x], v1) + SplitTerm(b, v8[c], v1),
           Aff!Straight' => /\ Apart(v8', v5', v4')
                            /\ doc.status \in {"none", "QUALIFIED", "APPROVED", "CREDITED"} => doc.payout = Nobody
                            /\ \A e \in Aff!Docs \ {x} : IsOwed(e, v5', v8') <=> IsOwed(e, v5, v8)
                            /\ OwedTerm(x, v5', v8') + RedeemTerm(v8[c]) = OwedTerm(x, v5, v8) + RedeemTerm(r)
                            /\ \A p \in Ones : ReservedTerm(p, doc) + RequestTerm(p, r)
                                                  = ReservedTerm(p, v5[x]) + RequestTerm(p, v8[c])
    PROVE  Aff!AgreeInv'
<1>1. v5' \in [Aff!Docs -> Aff!Commission] /\ v5'[x] = doc /\ \A e \in Aff!Docs \ {x} : v5'[e] = v5[e]
    BY AffStays
<1>2. TieDocs(r, v5')
    BY <1>1 DEF TieDocs
<1>3. TiePay(r, v7)
    BY AffAgreed DEF TiePay
<1>4. Creating(v8', v5', v1', v10'.raced)
    <2>1. \A d \in Aff!Docs : v5'[d].status # "none" =>
              \E e \in Aff!Docs : v5[e].status # "none" /\ v1[v5[e].order] = v1[v5'[d].order]
        BY <1>1
    <2> QED BY <2>1, AffCreatingGoes
<1>5. r.left <= r.amount
    BY DEF TieSelf
<1>6. Once(v5', v8', v1', v10')
    BY <1>1, <1>5, AffOnceGoes
<1> QED BY <1>1, <1>2, <1>3, <1>4, <1>6, AffDocAgreed

\* Only the document saved is owed for otherwise than before.
LEMMA AffOthersOwed ==
    ASSUME NEW c \in Firsts, \A a \in Firsts \ {c} : v8'[a] = v8[a], v8[c].at # "reversed", v8'[c].at # "reversed",
           NEW x, \A e \in Aff!Docs \ {x} : v5'[e] = v5[e]
    PROVE  /\ \A e \in Aff!Docs \ {x} : IsOwed(e, v5', v8') <=> IsOwed(e, v5, v8)
           /\ IsOwed(x, v5', v8') <=> IsOwed(x, v5', v8)
BY DEF IsOwed

LEMMA AffApproveAgreed ==
    ASSUME Aff!AffiliateInv, Aff!AgreeInv, NEW c \in Firsts, Aff!ApproveNext(c), v8[c].todo # {} PROVE Aff!AgreeInv'
<1> DEFINE m == v8[c]
           d == Aff!Min(m.todo)
           r == [m EXCEPT !.todo = @ \ {d}]
           doc == [v5[d] EXCEPT !.status = "APPROVED"]
           b == Aff!SavedOver(c, d)
<1>0. m \in Aff!CallDoc /\ TieSelf(m) /\ TieDocs(m, v5)
    BY AffStays, AffAgreed
<1>1. d \in m.todo /\ d \in Aff!Docs /\ v5[d] \in Aff!Commission
    BY AffTodo
<1>2. /\ m.at = "approve" /\ v5' = [v5 EXCEPT ![d] = doc] /\ v8' = [v8 EXCEPT ![c] = r]
      /\ v10' = [v10 EXCEPT !.over = @ \/ b] /\ UNCHANGED <<v1, v4, v6, v7>>
    BY DEF Aff!ApproveNext, Aff!Set
<1>3. b \in BOOLEAN /\ (~b => v5[d] = m.doc[d])
    BY DEF Aff!SavedOver
<1> HIDE DEF d, b
<1>4. /\ r \in Aff!CallDoc /\ r.at = m.at /\ r.todo = m.todo \ {d} /\ r.op = m.op /\ r.order = m.order /\ r.doc = m.doc
      /\ r.payout = m.payout /\ r.left = m.left /\ r.amount = m.amount
    BY <1>0 DEF Aff!CallDoc
<1>5. /\ doc \in Aff!Commission /\ doc.status = "APPROVED" /\ doc.order = v5[d].order /\ doc.amount = v5[d].amount
      /\ doc.payout = v5[d].payout
    BY <1>1 DEF Aff!Commission
<1> HIDE DEF r, doc
<1>6. m.doc[d].status = "QUALIFIED" /\ v5[d].status # "none" /\ m.op # "reverse"
    BY <1>0, <1>1, <1>2 DEF TieSelf, TieDocs
<1>7. v10'.raced = v10.raced /\ (~v10'.over => ~v10.over /\ ~b) /\ (Aff!Straight' => Aff!Straight /\ ~b)
    BY <1>2, <1>3, AffMarkOver
<1>8. TieSelf(r) /\ TieDocs(r, v5)
    BY <1>0, <1>2, <1>4 DEF TieSelf, TieDocs
<1>9. \A a : BroughtTerm(a, doc, v1) = BroughtTerm(a, v5[d], v1) /\ SplitTerm(a, r, v1) = 0 /\ SplitTerm(a, m, v1) = 0
    BY <1>2, <1>4, <1>5, <1>6 DEF BroughtTerm, SplitTerm
<1>10. \A a \in Ones : BroughtTerm(a, v5[d], v1) \in Nat
    BY <1>1 DEF BroughtTerm, Aff!Commission
<1>11. \A a \in Ones : BroughtTerm(a, doc, v1) + SplitTerm(a, r, v1) <= BroughtTerm(a, v5[d], v1) + SplitTerm(a, m, v1)
    BY <1>9, <1>10
<1>12. doc.payout # Nobody => v7[doc.payout].status # "none"
    BY <1>1, <1>5, AffAgreed DEF Named
<1>13. /\ v8'[c] = r /\ (\A a \in Firsts \ {c} : v8'[a] = v8[a]) /\ v5'[d] = doc
       /\ \A e \in Aff!Docs \ {d} : v5'[e] = v5[e]
    BY <1>1, <1>2, AffStays
<1>14. ASSUME Aff!Straight'
       PROVE  /\ Apart(v8', v5', v4') /\ doc.payout = Nobody
              /\ \A e \in Aff!Docs \ {d} : IsOwed(e, v5', v8') <=> IsOwed(e, v5, v8)
              /\ OwedTerm(d, v5', v8') + RedeemTerm(m) = OwedTerm(d, v5, v8) + RedeemTerm(r)
              /\ \A p \in Ones : ReservedTerm(p, doc) + RequestTerm(p, r) = ReservedTerm(p, v5[d]) + RequestTerm(p, m)
    <2>0. v5[d].status = "QUALIFIED" /\ Aff!Straight
        BY <1>3, <1>6, <1>7, <1>14
    <2>1. doc.payout = Nobody
        BY <1>1, <1>5, <2>0, AffAgreed DEF Unnamed
    <2>2. Apart(v8', v5', v4')
        <3>1. \A a \in Firsts \ {c} : v8[a].op = "reverse" =>
                  \A e \in v8[a].todo : v8[a].doc[e].status = "CREDITED" => v5'[e] = v5[e]
            <4> SUFFICES ASSUME NEW a \in Firsts \ {c}, v8[a].op = "reverse", NEW e \in v8[a].todo,
                                v8[a].doc[e].status = "CREDITED"
                         PROVE  v5'[e] = v5[e]
                OBVIOUS
            <4>1. v5[e] = v8[a].doc[e] /\ e \in Aff!Docs
                BY <2>0, AffAgreed, AffStays DEF Apart, Aff!CallDoc
            <4>2. e # d
                BY <2>0, <4>1
            <4> QED BY <1>13, <4>1, <4>2
        <3> QED BY <1>2, <1>4, <1>6, <2>0, <3>1, AffApart
    <2>3. \A e \in Aff!Docs \ {d} : IsOwed(e, v5', v8') <=> IsOwed(e, v5, v8)
        BY <1>2, <1>4, <1>13, AffOthersOwed
    <2>4. OwedTerm(d, v5', v8') = 0 /\ OwedTerm(d, v5, v8) = 0 /\ RedeemTerm(r) = RedeemTerm(m)
        BY <1>4, <1>5, <1>13, <2>0 DEF OwedTerm, IsOwed, RedeemTerm
    <2>5. \A p \in Ones : ReservedTerm(p, doc) = ReservedTerm(p, v5[d]) /\ RequestTerm(p, r) = RequestTerm(p, m)
        BY <1>4, <1>5, <1>6 DEF ReservedTerm, RequestTerm
    <2> QED BY <2>1, <2>2, <2>3, <2>4, <2>5
<1> QED BY <1>1, <1>2, <1>4, <1>5, <1>6, <1>7, <1>8, <1>11, <1>12, <1>14, AffSavedAgreed

\* No reversal runs beside a call that pays or spends.
LEMMA AffNoReverse ==
    ASSUME Aff!AffiliateInv, Aff!AgreeInv, Aff!Straight, NEW c \in Firsts, v8[c].op \in {"paid", "redeem", "payout"}
    PROVE  \A a \in Firsts : v8[a].op # "reverse" /\ v8[a].at # "reversed"
<1>1. \A a \in Firsts : v8[a].op # "reverse"
    BY AffStays DEF Aff!ReversalsOK, Aff!SpendOK, Aff!Spends
<1>2. \A a \in Firsts : v8[a].at = "reversed" => v8[a].op = "reverse"
    BY AffAgreed DEF TieSelf
<1> QED BY <1>1, <1>2

LEMMA AffWholeAgreed == ASSUME Aff!AffiliateInv, Aff!AgreeInv, NEW c \in Firsts, Aff!AllocateWhole(c) PROVE Aff!AgreeInv'
<1> DEFINE m == v8[c]
           d == Aff!Min(m.todo)
           available == m.doc[d].amount
           s == Aff!Spent(m.op)
           q == IF m.op = "payout" THEN m.payout ELSE v5[d].payout
           b == Aff!SavedOver(c, d)
<1>0. /\ m \in Aff!CallDoc /\ TieSelf(m) /\ TieDocs(m, v5) /\ TiePay(m, v7)
      /\ m.left \in Nat /\ m.amount \in Nat /\ m.payout \in Ones \cup {Nobody}
    BY AffStays, AffAgreed DEF Aff!CallDoc
<1>1. /\ m.at = "change" /\ m.op \in {"redeem", "payout"} /\ m.todo # {} /\ m.left >= available
      /\ v5' = [v5 EXCEPT ![d].status = s, ![d].payout = IF m.op = "payout" THEN m.payout ELSE @]
      /\ v8' = [v8 EXCEPT ![c] = [m EXCEPT !.todo = @ \ {d}, !.left = @ - available]]
      /\ v10' = [v10 EXCEPT !.over = @ \/ b] /\ UNCHANGED <<v1, v4, v6, v7>>
    BY DEF Aff!AllocateWhole, Aff!Set
<1>2. d \in m.todo /\ d \in Aff!Docs /\ available \in Nat /\ v5[d] \in Aff!Commission
    BY <1>1, AffTodo DEF Aff!Commission
<1>3. b \in BOOLEAN /\ (~b => v5[d] = m.doc[d])
    BY DEF Aff!SavedOver
<1>a. s = IF m.op = "payout" THEN "PAYOUT_REQUESTED" ELSE "CREDITED"
    BY DEF Aff!Spent
<1>b. q \in Ones \cup {Nobody}
    BY <1>0, <1>2 DEF Aff!Commission
<1>c. v5' = [v5 EXCEPT ![d] = [v5[d] EXCEPT !.status = s, !.payout = q]]
    BY <1>1, <1>2, AffStays
<1>d. available = m.doc[d].amount
    OBVIOUS
<1> HIDE DEF d, b, s, available
<1>4. PICK n \in Nat : n = m.left - available
    BY <1>0, <1>1, <1>2
<1> DEFINE doc == [v5[d] EXCEPT !.status = s, !.payout = q]
           r == [m EXCEPT !.todo = m.todo \ {d}, !.left = n]
<1>5. v8' = [v8 EXCEPT ![c] = r] /\ v5' = [v5 EXCEPT ![d] = doc]
    BY <1>1, <1>4, <1>c
<1>6. /\ r \in Aff!CallDoc /\ r.at = m.at /\ r.todo = m.todo \ {d} /\ r.op = m.op /\ r.order = m.order /\ r.doc = m.doc
      /\ r.payout = m.payout /\ r.left = n /\ r.amount = m.amount
    BY <1>0 DEF Aff!CallDoc
<1>7. /\ doc \in Aff!Commission /\ doc.status = s /\ doc.order = v5[d].order /\ doc.amount = v5[d].amount
      /\ doc.payout = q
    BY <1>2, <1>a, <1>b DEF Aff!Commission
<1> HIDE DEF doc, r
<1>8. m.doc[d].status = "APPROVED" /\ v5[d].status # "none"
    BY <1>0, <1>1, <1>2 DEF TieSelf, TieDocs
<1>9. v10'.raced = v10.raced /\ (~v10'.over => ~v10.over /\ ~b) /\ (Aff!Straight' => Aff!Straight /\ ~b)
    BY <1>1, <1>3, AffMarkOver
<1>e. n <= m.amount
    BY <1>0, <1>2, <1>4 DEF TieSelf
<1>10. TieSelf(r) /\ TieDocs(r, v5)
    BY <1>0, <1>1, <1>6, <1>e DEF TieSelf, TieDocs
<1>11. \A a \in Ones : BroughtTerm(a, doc, v1) + SplitTerm(a, r, v1) <= BroughtTerm(a, v5[d], v1) + SplitTerm(a, m, v1)
    <2>1. \A a : BroughtTerm(a, doc, v1) = BroughtTerm(a, v5[d], v1) /\ SplitTerm(a, r, v1) = 0 /\ SplitTerm(a, m, v1) = 0
        BY <1>1, <1>6, <1>7, <1>8, <1>a DEF BroughtTerm, SplitTerm
    <2>2. \A a \in Ones : BroughtTerm(a, v5[d], v1) \in Nat
        BY <1>2 DEF BroughtTerm, Aff!Commission
    <2> QED BY <2>1, <2>2
<1>12. doc.payout # Nobody => v7[doc.payout].status # "none"
    BY <1>0, <1>2, <1>7, AffAgreed DEF Named, TiePay
<1>13. /\ v8'[c] = r /\ (\A a \in Firsts \ {c} : v8'[a] = v8[a]) /\ v5'[d] = doc
       /\ \A e \in Aff!Docs \ {d} : v5'[e] = v5[e]
    BY <1>2, <1>5, AffStays
<1>14. ASSUME Aff!Straight'
       PROVE  /\ Apart(v8', v5', v4')
              /\ doc.status \in {"none", "QUALIFIED", "APPROVED", "CREDITED"} => doc.payout = Nobody
              /\ \A e \in Aff!Docs \ {d} : IsOwed(e, v5', v8') <=> IsOwed(e, v5, v8)
              /\ OwedTerm(d, v5', v8') + RedeemTerm(m) = OwedTerm(d, v5, v8) + RedeemTerm(r)
              /\ \A p \in Ones : ReservedTerm(p, doc) + RequestTerm(p, r) = ReservedTerm(p, v5[d]) + RequestTerm(p, m)
    <2>0. v5[d].status = "APPROVED" /\ Aff!Straight /\ v5[d].amount = available
        BY <1>3, <1>8, <1>9, <1>14, <1>d
    <2>1. v5[d].payout = Nobody
        BY <1>2, <2>0, AffAgreed DEF Unnamed
    <2>2. \A a \in Firsts : v8[a].op # "reverse" /\ v8[a].at # "reversed"
        BY <1>1, <2>0, AffNoReverse
    <2>3. \A a \in Firsts : v8'[a].op # "reverse" /\ v8'[a].at # "reversed"
        BY <1>1, <1>6, <1>13, <2>2
    <2>4. Apart(v8', v5', v4')
        BY <2>3 DEF Apart
    <2>5. \A e \in Aff!Docs \ {d} : IsOwed(e, v5', v8') <=> IsOwed(e, v5, v8)
        BY <1>13, <2>2, <2>3 DEF IsOwed
    <2>6. \A e : e # Nobody \/ e \notin Ones
        BY AffBounds
    <2>7. m.left = n + available
        BY <1>0, <1>2, <1>4
    <2>8. CASE m.op = "redeem"
        <3>1. s = "CREDITED" /\ q = Nobody
            BY <1>a, <2>1, <2>8
        <3>2. OwedTerm(d, v5', v8') = available /\ OwedTerm(d, v5, v8) = 0
            BY <1>7, <1>13, <2>0, <2>3, <3>1 DEF OwedTerm, IsOwed
        <3>3. RedeemTerm(m) = m.amount - m.left /\ RedeemTerm(r) = m.amount - n
            BY <1>6, <2>8 DEF RedeemTerm
        <3>4. \A p \in Ones : /\ ReservedTerm(p, doc) = 0 /\ ReservedTerm(p, v5[d]) = 0
                              /\ RequestTerm(p, r) = 0 /\ RequestTerm(p, m) = 0
            BY <1>6, <1>7, <2>1, <2>6, <2>8, <3>1 DEF ReservedTerm, RequestTerm
        <3>5. OwedTerm(d, v5', v8') + RedeemTerm(m) = OwedTerm(d, v5, v8) + RedeemTerm(r)
            BY <1>0, <1>2, <2>7, <3>2, <3>3
        <3> HIDE DEF q
        <3> QED BY <1>7, <2>4, <2>5, <3>1, <3>4, <3>5
    <2>9. CASE m.op = "payout"
        <3>1. s = "PAYOUT_REQUESTED" /\ q = m.payout
            BY <1>a, <2>9
        <3>2. OwedTerm(d, v5', v8') = 0 /\ OwedTerm(d, v5, v8) = 0 /\ RedeemTerm(m) = 0 /\ RedeemTerm(r) = 0
            BY <1>6, <1>7, <1>13, <2>0, <2>9, <3>1 DEF OwedTerm, IsOwed, RedeemTerm
        <3>3. ASSUME NEW p \in Ones
              PROVE  ReservedTerm(p, doc) + RequestTerm(p, r) = ReservedTerm(p, v5[d]) + RequestTerm(p, m)
            <4>1. ReservedTerm(p, v5[d]) = 0
                BY <2>1, <2>6 DEF ReservedTerm
            <4>2. CASE p = m.payout
                <5>1. ReservedTerm(p, doc) = available /\ RequestTerm(p, r) = n /\ RequestTerm(p, m) = m.left
                    BY <1>6, <1>7, <2>0, <2>9, <3>1, <4>2 DEF ReservedTerm, RequestTerm
                <5> QED BY <1>0, <1>2, <2>7, <4>1, <5>1
            <4>3. CASE p # m.payout
                <5>1. ReservedTerm(p, doc) = 0 /\ RequestTerm(p, r) = 0 /\ RequestTerm(p, m) = 0
                    BY <1>6, <1>7, <3>1, <4>3 DEF ReservedTerm, RequestTerm
                <5> QED BY <4>1, <5>1
            <4> QED BY <4>2, <4>3
        <3> HIDE DEF q
        <3> QED BY <1>7, <2>4, <2>5, <3>1, <3>2, <3>3
    <2> QED BY <1>1, <2>8, <2>9
<1> HIDE DEF q, m
<1>15. \E e \in Aff!Docs : v5[e].status # "none" /\ v1[v5[e].order] = v1[doc.order]
    BY <1>2, <1>7, <1>8
<1>16. /\ r.payout = v8[c].payout /\ r.at \notin {"create", "settle", "reversed"} /\ doc.status # "none"
       /\ doc.order = v5[d].order
    BY <1>1, <1>6, <1>7, <1>a DEF m
<1>17. ~v10'.over => \A a \in Ones :
          BroughtTerm(a, doc, v1) + SplitTerm(a, r, v1) <= BroughtTerm(a, v5[d], v1) + SplitTerm(a, v8[c], v1)
    BY <1>11 DEF m
<1>18. Aff!Straight' =>
          /\ Apart(v8', v5', v4')
          /\ doc.status \in {"none", "QUALIFIED", "APPROVED", "CREDITED"} => doc.payout = Nobody
          /\ \A e \in Aff!Docs \ {d} : IsOwed(e, v5', v8') <=> IsOwed(e, v5, v8)
          /\ OwedTerm(d, v5', v8') + RedeemTerm(v8[c]) = OwedTerm(d, v5, v8) + RedeemTerm(r)
          /\ \A p \in Ones : ReservedTerm(p, doc) + RequestTerm(p, r) = ReservedTerm(p, v5[d]) + RequestTerm(p, v8[c])
    BY <1>14 DEF m
<1>19. UNCHANGED <<v1, v4, v6, v7>> /\ v5[d].status # "none" /\ r \in Aff!CallDoc /\ doc \in Aff!Commission /\ d \in Aff!Docs
    BY <1>1, <1>2, <1>6, <1>7, <1>8
<1>20. v10'.raced = v10.raced /\ (~v10'.over => ~v10.over) /\ (Aff!Straight' => Aff!Straight)
    BY <1>9
<1> QED BY <1>5, <1>10, <1>12, <1>16, <1>17, <1>18, <1>19, <1>20, AffSavedAgreed

LEMMA AffRestAgreed == ASSUME Aff!AffiliateInv, Aff!AgreeInv, NEW c \in Firsts, Aff!AllocateRest(c) PROVE Aff!AgreeInv'
<1> DEFINE m == v8[c]
           d == Aff!Min(m.todo)
           available == m.doc[d].amount
           b == Aff!SavedOver(c, d)
           r == [m EXCEPT !.at = "split", !.todo = {d}]
<1>0. m \in Aff!CallDoc /\ TieSelf(m) /\ TieDocs(m, v5) /\ m.left \in Nat
    BY AffStays, AffAgreed DEF Aff!CallDoc
<1>1. /\ m.at = "change" /\ m.op \in {"redeem", "payout"} /\ m.todo # {} /\ m.left < available
      /\ v5' = [v5 EXCEPT ![d].amount = available - m.left] /\ v8' = [v8 EXCEPT ![c] = r]
      /\ v10' = [v10 EXCEPT !.over = @ \/ b] /\ UNCHANGED <<v1, v4, v6, v7>>
    BY DEF Aff!AllocateRest, Aff!Set
<1>2. d \in m.todo /\ d \in Aff!Docs /\ available \in Nat /\ v5[d] \in Aff!Commission
    BY <1>1, AffTodo DEF Aff!Commission
<1>3. b \in BOOLEAN /\ (~b => v5[d] = m.doc[d])
    BY DEF Aff!SavedOver
<1>d. available = m.doc[d].amount
    OBVIOUS
<1> HIDE DEF d, b, available
<1>4. PICK n \in Nat : n = available - m.left
    BY <1>0, <1>1, <1>2
<1>a. available = n + m.left
    BY <1>0, <1>2, <1>4
<1> DEFINE doc == [v5[d] EXCEPT !.amount = n]
<1>5. v5' = [v5 EXCEPT ![d] = doc]
    BY <1>1, <1>2, <1>4, AffStays
<1>6. /\ r \in Aff!CallDoc /\ r.at = "split" /\ r.todo = {d} /\ r.op = m.op /\ r.order = m.order /\ r.doc = m.doc
      /\ r.payout = m.payout /\ r.left = m.left /\ r.amount = m.amount
    BY <1>0, <1>2 DEF Aff!CallDoc
<1>7. /\ doc \in Aff!Commission /\ doc.status = v5[d].status /\ doc.order = v5[d].order /\ doc.amount = n
      /\ doc.payout = v5[d].payout
    BY <1>2 DEF Aff!Commission
<1> HIDE DEF doc, r
<1>8. m.doc[d].status = "APPROVED" /\ v5[d].status # "none" /\ m.doc[d].order = v5[d].order
    BY <1>0, <1>1, <1>2 DEF TieSelf, TieDocs
<1>9. v10'.raced = v10.raced /\ (~v10'.over => ~v10.over /\ ~b) /\ (Aff!Straight' => Aff!Straight /\ ~b)
    BY <1>1, <1>3, AffMarkOver
<1>b. Aff!Min({d}) = d
    <2>1. Aff!Min({d}) \in {d}
        BY <1>2, AffMin
    <2> QED BY <2>1
<1>10. TieSelf(r) /\ TieDocs(r, v5)
    BY <1>0, <1>1, <1>6, <1>8, <1>b DEF TieSelf, TieDocs
<1>11. ASSUME ~v10'.over, NEW a \in Ones
       PROVE  BroughtTerm(a, doc, v1) + SplitTerm(a, r, v1) <= BroughtTerm(a, v5[d], v1) + SplitTerm(a, m, v1)
    <2>1. v5[d].amount = available /\ SplitTerm(a, m, v1) = 0
        BY <1>1, <1>3, <1>9, <1>11, <1>d DEF SplitTerm
    <2>2. CASE v1[v5[d].order] = a
        <3>1. BroughtTerm(a, doc, v1) = n /\ SplitTerm(a, r, v1) = m.left /\ BroughtTerm(a, v5[d], v1) = available
            BY <1>6, <1>7, <1>8, <1>b, <2>1, <2>2 DEF BroughtTerm, SplitTerm
        <3> QED BY <1>0, <1>a, <2>1, <3>1
    <2>3. CASE v1[v5[d].order] # a
        <3>1. BroughtTerm(a, doc, v1) = 0 /\ SplitTerm(a, r, v1) = 0 /\ BroughtTerm(a, v5[d], v1) = 0
            BY <1>6, <1>7, <1>8, <1>b, <2>3 DEF BroughtTerm, SplitTerm
        <3> QED BY <2>1, <3>1
    <2> QED BY <2>2, <2>3
<1>12. doc.payout # Nobody => v7[doc.payout].status # "none"
    BY <1>2, <1>7, AffAgreed DEF Named
<1>13. /\ v8'[c] = r /\ (\A a \in Firsts \ {c} : v8'[a] = v8[a]) /\ v5'[d] = doc
       /\ \A e \in Aff!Docs \ {d} : v5'[e] = v5[e]
    BY <1>1, <1>2, <1>5, AffStays
<1>14. ASSUME Aff!Straight'
       PROVE  /\ Apart(v8', v5', v4') /\ doc.payout = Nobody
              /\ \A e \in Aff!Docs \ {d} : IsOwed(e, v5', v8') <=> IsOwed(e, v5, v8)
              /\ OwedTerm(d, v5', v8') + RedeemTerm(m) = OwedTerm(d, v5, v8) + RedeemTerm(r)
              /\ \A p \in Ones : ReservedTerm(p, doc) + RequestTerm(p, r) = ReservedTerm(p, v5[d]) + RequestTerm(p, m)
    <2>0. v5[d].status = "APPROVED" /\ Aff!Straight
        BY <1>3, <1>8, <1>9, <1>14
    <2>1. doc.payout = Nobody /\ v5[d].payout = Nobody
        BY <1>2, <1>7, <2>0, AffAgreed DEF Unnamed
    <2>2. \A a \in Firsts : v8[a].op # "reverse" /\ v8[a].at # "reversed"
        BY <1>1, <2>0, AffNoReverse
    <2>3. \A a \in Firsts : v8'[a].op # "reverse" /\ v8'[a].at # "reversed"
        BY <1>1, <1>6, <1>13, <2>2
    <2>4. Apart(v8', v5', v4')
        BY <2>3 DEF Apart
    <2>5. \A e \in Aff!Docs \ {d} : IsOwed(e, v5', v8') <=> IsOwed(e, v5, v8)
        BY <1>13, <2>2, <2>3 DEF IsOwed
    <2>6. OwedTerm(d, v5', v8') = 0 /\ OwedTerm(d, v5, v8) = 0 /\ RedeemTerm(r) = RedeemTerm(m)
        BY <1>6, <1>7, <1>13, <2>0 DEF OwedTerm, IsOwed, RedeemTerm
    <2>7. \A p \in Ones : ReservedTerm(p, doc) = 0 /\ ReservedTerm(p, v5[d]) = 0 /\ RequestTerm(p, r) = RequestTerm(p, m)
        BY <1>6, <2>1, AffBounds DEF ReservedTerm, RequestTerm
    <2> QED BY <2>1, <2>4, <2>5, <2>6, <2>7
<1>15. \E e \in Aff!Docs : v5[e].status # "none" /\ v1[v5[e].order] = v1[doc.order]
    BY <1>2, <1>7, <1>8
<1>16. ~v10'.over => \A a \in Ones :
          BroughtTerm(a, doc, v1) + SplitTerm(a, r, v1) <= BroughtTerm(a, v5[d], v1) + SplitTerm(a, m, v1)
    BY <1>11
<1>17. /\ UNCHANGED <<v1, v4, v6, v7>> /\ v5[d].status # "none" /\ r \in Aff!CallDoc /\ doc \in Aff!Commission /\ d \in Aff!Docs
       /\ r.payout = m.payout /\ r.at = "split" /\ doc.status # "none" /\ doc.order = v5[d].order
       /\ v8' = [v8 EXCEPT ![c] = r]
    BY <1>1, <1>2, <1>6, <1>7, <1>8
<1>20. v10'.raced = v10.raced /\ (~v10'.over => ~v10.over) /\ (Aff!Straight' => Aff!Straight)
    BY <1>9
<1> QED BY <1>5, <1>10, <1>12, <1>14, <1>16, <1>17, <1>20, AffSavedAgreed

LEMMA AffPartAgreed == ASSUME Aff!AffiliateInv, Aff!AgreeInv, NEW c \in Firsts, Aff!AllocatePart(c) PROVE Aff!AgreeInv'
<1> DEFINE m == v8[c]
           n == Aff!NextDoc
           d == Aff!Min(m.todo)
           s == Aff!Spent(m.op)
           source == m.doc[d]
           doc == [source EXCEPT !.status = s, !.payout = m.payout, !.amount = m.left]
           r == [m EXCEPT !.at = "change", !.todo = {}, !.left = 0]
<1>0. /\ m \in Aff!CallDoc /\ TieSelf(m) /\ TieDocs(m, v5) /\ TiePay(m, v7)
      /\ m.left \in Nat /\ m.amount \in Nat /\ m.payout \in Ones \cup {Nobody}
    BY AffStays, AffAgreed DEF Aff!CallDoc
<1>1. /\ m.at = "split" /\ n \in Aff!Docs /\ v5' = [v5 EXCEPT ![n] = doc] /\ v8' = [v8 EXCEPT ![c] = r]
      /\ UNCHANGED <<v1, v4, v6, v7, v10>>
    BY DEF Aff!AllocatePart, Aff!Part, Aff!Set
<1>2. m.op \in {"redeem", "payout"} /\ m.todo # {}
    BY <1>1, AffCall DEF AffCallDocOK
<1>3. d \in m.todo /\ d \in Aff!Docs /\ source \in Aff!Commission /\ v5[d] \in Aff!Commission
    BY <1>2, AffTodo
<1>4. v5[n].status = "none"
    <2>1. n \notin Aff!Made
        BY AffNextDoc
    <2> HIDE DEF n
    <2> QED BY <1>1, <2>1 DEF Aff!Made, Aff!Of
<1>5. s = IF m.op = "payout" THEN "PAYOUT_REQUESTED" ELSE "CREDITED"
    BY DEF Aff!Spent
<1> HIDE DEF s
<1>8. source.status = "APPROVED" /\ v5[d].status # "none" /\ source.order = v5[d].order
    BY <1>0, <1>1, <1>2, <1>3 DEF TieSelf, TieDocs
<1>6. doc \in Aff!Commission /\ doc.order = source.order /\ doc.status = s /\ doc.payout = m.payout /\ doc.amount = m.left
    <2> HIDE DEF source
    <2> QED BY <1>0, <1>3, <1>5 DEF Aff!Commission
<1> HIDE DEF doc
<1>7. /\ r \in Aff!CallDoc /\ r.at = "change" /\ r.op = m.op /\ r.order = m.order /\ r.todo = {} /\ r.doc = m.doc
      /\ r.payout = m.payout /\ r.amount = m.amount /\ r.left = 0
    BY <1>0 DEF Aff!CallDoc
<1> HIDE DEF n, r
<1>10. TieSelf(r) /\ TieDocs(r, v5)
    BY <1>0, <1>1, <1>2, <1>7 DEF TieSelf, TieDocs
<1>11. ASSUME NEW a \in Ones
       PROVE  BroughtTerm(a, doc, v1) + SplitTerm(a, r, v1) <= BroughtTerm(a, v5[n], v1) + SplitTerm(a, m, v1)
    <2>1. BroughtTerm(a, v5[n], v1) = 0 /\ SplitTerm(a, r, v1) = 0
        BY <1>4, <1>7 DEF BroughtTerm, SplitTerm
    <2>2. BroughtTerm(a, doc, v1) = SplitTerm(a, m, v1)
        BY <1>1, <1>2, <1>5, <1>6 DEF BroughtTerm, SplitTerm
    <2>3. SplitTerm(a, m, v1) \in Nat
        BY <1>0 DEF SplitTerm
    <2> QED BY <2>1, <2>2, <2>3
<1> HIDE DEF d, source
<1>12. doc.payout # Nobody => v7[doc.payout].status # "none"
    BY <1>0, <1>6 DEF TiePay
<1>13. /\ v8'[c] = r /\ (\A a \in Firsts \ {c} : v8'[a] = v8[a]) /\ v5'[n] = doc
       /\ \A e \in Aff!Docs \ {n} : v5'[e] = v5[e]
    BY <1>1, AffStays
<1>14. ASSUME Aff!Straight'
       PROVE  /\ Aff!Straight /\ Apart(v8', v5', v4')
              /\ doc.status \in {"none", "QUALIFIED", "APPROVED", "CREDITED"} => doc.payout = Nobody
              /\ \A e \in Aff!Docs \ {n} : IsOwed(e, v5', v8') <=> IsOwed(e, v5, v8)
              /\ OwedTerm(n, v5', v8') + RedeemTerm(m) = OwedTerm(n, v5, v8) + RedeemTerm(r)
              /\ \A p \in Ones : ReservedTerm(p, doc) + RequestTerm(p, r) = ReservedTerm(p, v5[n]) + RequestTerm(p, m)
    <2>0. Aff!Straight
        BY <1>1, <1>14 DEF Aff!Straight
    <2>2. \A a \in Firsts : v8[a].op # "reverse" /\ v8[a].at # "reversed"
        BY <1>2, <2>0, AffNoReverse
    <2>3. \A a \in Firsts : v8'[a].op # "reverse" /\ v8'[a].at # "reversed"
        BY <1>2, <1>7, <1>13, <2>2
    <2>4. Apart(v8', v5', v4')
        BY <2>3 DEF Apart
    <2>5. \A e \in Aff!Docs \ {n} : IsOwed(e, v5', v8') <=> IsOwed(e, v5, v8)
        BY <1>13, <2>2, <2>3 DEF IsOwed
    <2>6. OwedTerm(n, v5, v8) = 0 /\ \A p \in Ones : ReservedTerm(p, v5[n]) = 0
        BY <1>4 DEF OwedTerm, IsOwed, ReservedTerm
    <2>8. CASE m.op = "redeem"
        <3>1. s = "CREDITED" /\ m.payout = Nobody
            BY <1>0, <1>5, <2>8 DEF TieSelf
        <3>2. OwedTerm(n, v5', v8') = m.left
            BY <1>6, <1>13, <2>3, <3>1 DEF OwedTerm, IsOwed
        <3>3. RedeemTerm(m) = m.amount - m.left /\ RedeemTerm(r) = m.amount - 0
            BY <1>7, <2>8 DEF RedeemTerm
        <3>4. \A p \in Ones : ReservedTerm(p, doc) = 0 /\ RequestTerm(p, r) = 0 /\ RequestTerm(p, m) = 0
            BY <1>6, <1>7, <2>8, <3>1, AffBounds DEF ReservedTerm, RequestTerm
        <3>5. OwedTerm(n, v5', v8') + RedeemTerm(m) = OwedTerm(n, v5, v8) + RedeemTerm(r)
            BY <1>0, <2>6, <3>2, <3>3
        <3> QED BY <1>6, <2>0, <2>4, <2>5, <2>6, <3>1, <3>4, <3>5
    <2>9. CASE m.op = "payout"
        <3>1. s = "PAYOUT_REQUESTED"
            BY <1>5, <2>9
        <3>2. OwedTerm(n, v5', v8') = 0 /\ RedeemTerm(m) = 0 /\ RedeemTerm(r) = 0
            BY <1>6, <1>7, <1>13, <2>9, <3>1 DEF OwedTerm, IsOwed, RedeemTerm
        <3>3. ASSUME NEW p \in Ones
              PROVE  ReservedTerm(p, doc) + RequestTerm(p, r) = ReservedTerm(p, v5[n]) + RequestTerm(p, m)
            <4>1. ReservedTerm(p, doc) = RequestTerm(p, m)
                BY <1>6, <2>9, <3>1 DEF ReservedTerm, RequestTerm
            <4>2. RequestTerm(p, r) = 0 /\ RequestTerm(p, m) \in Nat
                BY <1>0, <1>7 DEF RequestTerm
            <4> QED BY <2>6, <4>1, <4>2
        <3> QED BY <1>6, <2>0, <2>4, <2>5, <2>6, <3>1, <3>2, <3>3
    <2> QED BY <1>2, <2>8, <2>9
<1>16. \A a \in Ones :
          BroughtTerm(a, doc, v1) + SplitTerm(a, r, v1) <= BroughtTerm(a, v5[n], v1) + SplitTerm(a, m, v1)
    BY <1>11
<1>17. /\ UNCHANGED <<v1, v4, v6, v7>> /\ v5[n].status = "none" /\ r \in Aff!CallDoc /\ doc \in Aff!Commission
       /\ n \in Aff!Docs /\ r.payout = m.payout /\ r.at = "change" /\ doc.status # "none"
       /\ v8' = [v8 EXCEPT ![c] = r] /\ v5' = [v5 EXCEPT ![n] = doc]
    BY <1>1, <1>4, <1>5, <1>6, <1>7
<1>18. \E e \in Aff!Docs : v5[e].status # "none" /\ v1[v5[e].order] = v1[doc.order]
    BY <1>3, <1>6, <1>8
<1>20. v10'.raced = v10.raced /\ (~v10'.over => ~v10.over) /\ (Aff!Straight' => Aff!Straight)
    BY <1>1, <1>14
<1> QED BY <1>10, <1>12, <1>14, <1>16, <1>17, <1>18, <1>20, AffSavedAgreed

LEMMA AffReverseAgreed == ASSUME Aff!AffiliateInv, Aff!AgreeInv, NEW c \in Firsts, Aff!ReverseDoc(c) PROVE Aff!AgreeInv'
<1> DEFINE m == v8[c]
           d == Aff!Min(m.todo)
           r == [m EXCEPT !.at = "change", !.todo = @ \ {d}]
           doc == [v5[d] EXCEPT !.status = "REVERSED"]
           b == Aff!SavedOver(c, d)
<1>0. m \in Aff!CallDoc /\ TieSelf(m) /\ TieDocs(m, v5) /\ m.left \in Nat /\ m.todo \in SUBSET Aff!Docs
    BY AffStays, AffAgreed DEF Aff!CallDoc
<1>1. /\ m.op = "reverse" /\ m.todo # {}
      /\ m.at = "reversed" \/ (m.at = "change" /\ m.doc[d].status # "CREDITED")
      /\ v5' = [v5 EXCEPT ![d] = doc] /\ v8' = [v8 EXCEPT ![c] = r]
      /\ v10' = [v10 EXCEPT !.over = @ \/ b] /\ UNCHANGED <<v1, v4, v6, v7>>
    BY DEF Aff!ReverseDoc, Aff!Set
<1>2. d \in m.todo /\ d \in Aff!Docs /\ v5[d] \in Aff!Commission
    BY <1>1, AffTodo
<1>3. b \in BOOLEAN /\ (~b => v5[d] = m.doc[d])
    BY DEF Aff!SavedOver
<1>a. d = Aff!Min(m.todo)
    OBVIOUS
<1> HIDE DEF d, b
<1>4. /\ r \in Aff!CallDoc /\ r.at = "change" /\ r.op = m.op /\ r.order = m.order /\ r.todo = m.todo \ {d} /\ r.doc = m.doc
      /\ r.payout = m.payout /\ r.left = m.left /\ r.amount = m.amount
    BY <1>0 DEF Aff!CallDoc
<1>5. /\ doc \in Aff!Commission /\ doc.status = "REVERSED" /\ doc.order = v5[d].order /\ doc.amount = v5[d].amount
      /\ doc.payout = v5[d].payout
    BY <1>2 DEF Aff!Commission
<1> HIDE DEF doc, r
<1>6. m.doc[d].status # "none" /\ m.doc[d].order = m.order /\ v5[d].status # "none" /\ v5[d].order = m.order
    BY <1>0, <1>1, <1>2 DEF TieSelf, TieDocs
<1>9. v10'.raced = v10.raced /\ (~v10'.over => ~v10.over /\ ~b) /\ (Aff!Straight' => Aff!Straight /\ ~b)
    BY <1>1, <1>3, AffMarkOver
<1>10. TieSelf(r) /\ TieDocs(r, v5)
    BY <1>0, <1>1, <1>4 DEF TieSelf, TieDocs
<1>11. \A a \in Ones : BroughtTerm(a, doc, v1) + SplitTerm(a, r, v1) <= BroughtTerm(a, v5[d], v1) + SplitTerm(a, m, v1)
    <2>1. \A a : BroughtTerm(a, doc, v1) = BroughtTerm(a, v5[d], v1) /\ SplitTerm(a, r, v1) = 0 /\ SplitTerm(a, m, v1) = 0
        BY <1>1, <1>4, <1>5, <1>6 DEF BroughtTerm, SplitTerm
    <2>2. \A a \in Ones : BroughtTerm(a, v5[d], v1) \in Nat
        BY <1>2 DEF BroughtTerm, Aff!Commission
    <2> QED BY <2>1, <2>2
<1>12. doc.payout # Nobody => v7[doc.payout].status # "none"
    BY <1>2, <1>5, AffAgreed DEF Named
<1>13. /\ v8'[c] = r /\ (\A a \in Firsts \ {c} : v8'[a] = v8[a]) /\ v5'[d] = doc
       /\ \A e \in Aff!Docs \ {d} : v5'[e] = v5[e]
    BY <1>1, <1>2, AffStays
<1>14. ASSUME Aff!Straight'
       PROVE  /\ Apart(v8', v5', v4')
              /\ \A e \in Aff!Docs \ {d} : IsOwed(e, v5', v8') <=> IsOwed(e, v5, v8)
              /\ OwedTerm(d, v5', v8') + RedeemTerm(m) = OwedTerm(d, v5, v8) + RedeemTerm(r)
              /\ \A p \in Ones : ReservedTerm(p, doc) + RequestTerm(p, r) = ReservedTerm(p, v5[d]) + RequestTerm(p, m)
    <2>0. v5[d] = m.doc[d] /\ Aff!Straight /\ Apart(v8, v5, v4)
        BY <1>3, <1>9, <1>14, AffAgreed
    <2>1. Apart(v8', v5', v4')
        <3>1. \A a \in Firsts \ {c} : v8[a].op = "reverse" =>
                  \A e \in v8[a].todo : v8[a].doc[e].status = "CREDITED" => v5'[e] = v5[e]
            <4> SUFFICES ASSUME NEW a \in Firsts \ {c}, v8[a].op = "reverse", NEW e \in v8[a].todo,
                                v8[a].doc[e].status = "CREDITED"
                         PROVE  v5'[e] = v5[e]
                OBVIOUS
            <4>1. v5[e] = v8[a].doc[e] /\ e \in Aff!Docs
                BY <2>0, AffStays DEF Apart, Aff!CallDoc
            <4>2. v5[e].order = v8[a].order
                BY <4>1, AffAgreed DEF TieSelf
            <4>3. v8[a].order # m.order
                BY <1>1, <2>0 DEF Apart
            <4> QED BY <1>6, <1>13, <4>1, <4>2, <4>3
        <3>2. \A e \in r.todo : r.doc[e].status = "CREDITED" => v5'[e] = r.doc[e]
            <4> SUFFICES ASSUME NEW e \in r.todo, r.doc[e].status = "CREDITED" PROVE v5'[e] = r.doc[e]
                OBVIOUS
            <4>1. e \in m.todo /\ e # d /\ e \in Aff!Docs /\ m.doc[e].status = "CREDITED"
                BY <1>0, <1>4
            <4>2. v5[e] = m.doc[e]
                BY <1>1, <2>0, <4>1 DEF Apart
            <4> QED BY <1>4, <1>13, <4>1, <4>2
        <3> QED BY <1>1, <1>4, <2>0, <3>1, <3>2, AffApart
    <2>2. \A e \in Aff!Docs \ {d} : IsOwed(e, v5', v8') <=> IsOwed(e, v5, v8)
        <3>1. \A e \in Aff!Docs \ {d} : \A a \in Firsts :
                 (v8'[a].at = "reversed" => e # Aff!Min(v8'[a].todo)) <=> (v8[a].at = "reversed" => e # Aff!Min(v8[a].todo))
            BY <1>4, <1>13, <1>a
        <3> QED BY <1>13, <3>1 DEF IsOwed
    <2>3. OwedTerm(d, v5', v8') = 0 /\ OwedTerm(d, v5, v8) = 0
        BY <1>1, <1>5, <1>13, <1>a, <2>0 DEF OwedTerm, IsOwed
    <2>4. RedeemTerm(r) = 0 /\ RedeemTerm(m) = 0
        BY <1>1, <1>4 DEF RedeemTerm
    <2>5. \A p \in Ones : ReservedTerm(p, doc) = ReservedTerm(p, v5[d]) /\ RequestTerm(p, r) = RequestTerm(p, m)
        BY <1>4, <1>5, <1>6 DEF ReservedTerm, RequestTerm
    <2> QED BY <2>1, <2>2, <2>3, <2>4, <2>5
<1>17. /\ UNCHANGED <<v1, v4, v6, v7>> /\ v5[d].status # "none" /\ r \in Aff!CallDoc /\ doc \in Aff!Commission /\ d \in Aff!Docs
       /\ r.payout = m.payout /\ r.at = "change" /\ doc.status = "REVERSED" /\ doc.order = v5[d].order
       /\ v8' = [v8 EXCEPT ![c] = r] /\ v5' = [v5 EXCEPT ![d] = doc]
    BY <1>1, <1>2, <1>4, <1>5, <1>6
<1>20. v10'.raced = v10.raced /\ (~v10'.over => ~v10.over) /\ (Aff!Straight' => Aff!Straight)
    BY <1>9
<1> QED BY <1>10, <1>11, <1>12, <1>14, <1>17, <1>20, AffSavedAgreed

LEMMA AffAllocatedAgreed == ASSUME Aff!AffiliateInv, Aff!AgreeInv, NEW c \in Firsts, Aff!Allocated(c) PROVE Aff!AgreeInv'
<1> DEFINE m == v8[c]
           r == Aff!Ready
           b == v6 # m.credit
<1>0. m \in Aff!CallDoc /\ TieSelf(m) /\ m.amount \in Nat /\ m.left \in Nat
    BY AffStays, AffAgreed DEF Aff!CallDoc
<1>1. /\ UNCHANGED <<v1, v4, v5, v7>> /\ v8' = [v8 EXCEPT ![c] = r] /\ m.op \in {"redeem", "payout"} /\ m.at = "change"
      /\ m.left = 0
      /\ IF m.op = "redeem" THEN v6' = m.credit + m.amount /\ v10' = [v10 EXCEPT !.over = @ \/ b] ELSE UNCHANGED <<v6, v10>>
    BY DEF Aff!Allocated, Aff!Done, Aff!Set
<1>2. b \in BOOLEAN /\ (~b => m.credit = v6)
    OBVIOUS
<1>3. /\ r \in Aff!CallDoc /\ TieSelf(r) /\ TieDocs(r, v5) /\ TiePay(r, v7) /\ r.at = "idle" /\ r.op = "none"
      /\ RedeemTerm(r) = 0 /\ (\A a, of : SplitTerm(a, r, of) = 0) /\ \A p : RequestTerm(p, r) = 0
      /\ r.left = 0 /\ r.amount = 0
    BY AffReadyTerms, AffIdle
<1> HIDE DEF r, b
<1>4. v10'.raced = v10.raced /\ (~v10'.over => ~v10.over) /\ (Aff!Straight' => Aff!Straight /\ (m.op = "redeem" => ~b))
    <2>1. CASE m.op = "redeem"
        BY <1>1, <1>2, <2>1, AffMarkOver
    <2>2. CASE m.op # "redeem"
        BY <1>1, <2>2 DEF Aff!Straight
    <2> QED BY <2>1, <2>2
<1>5. \A a : SplitTerm(a, r, v1) <= SplitTerm(a, m, v1)
    BY <1>1, <1>3 DEF SplitTerm
<1>6. \A p \in Ones : RequestTerm(p, r) = RequestTerm(p, m)
    BY <1>1, <1>3 DEF RequestTerm
<1>7. Creating(v8', v5, v1, v10'.raced)
    <2>1. \A d \in Aff!Docs : v5'[d].status # "none" =>
              \E e \in Aff!Docs : v5[e].status # "none" /\ v1[v5[e].order] = v1[v5'[d].order]
        BY <1>1
    <2>2. v1' = v1 /\ v5' = v5 /\ v8' = [v8 EXCEPT ![c] = r] /\ r.at # "create" /\ v10.raced \subseteq v10'.raced
        BY <1>1, <1>3, <1>4
    <2> QED BY <1>3, <2>1, <2>2, AffCreatingGoes
<1>8. ASSUME Aff!Straight' PROVE Aff!Straight /\ Apart(v8', v5', v4') /\ Credited(v5, v8', v6')
    <2>1. Aff!Straight /\ Credited(v5, v8, v6)
        BY <1>4, <1>8, AffAgreed
    <2>2. v8'[c] = r /\ \A a \in Firsts \ {c} : v8'[a] = v8[a]
        BY <1>1, AffStays
    <2>3. \A a \in Firsts : v8'[a].op # "reverse"
        BY <1>1, <1>3, <2>1, <2>2, AffNoReverse
    <2>4. Owed(v5, v8') = Owed(v5, v8)
        BY <1>1, <1>3, <2>2, AffOwedStays
    <2>5. r.left <= r.amount
        BY <1>3
    <2>6. Redeemed(v8) \in Nat /\ Redeemed(v8') = Redeemed(v8) - RedeemTerm(m) + RedeemTerm(r)
        BY <1>1, <1>3, <2>5, AffCallSums
    <2>7. CASE m.op = "redeem"
        <3>1. v6' = v6 + m.amount
            BY <1>1, <1>2, <1>4, <1>8, <2>7
        <3>2. RedeemTerm(m) = m.amount
            BY <1>0, <1>1, <2>7 DEF RedeemTerm
        <3>3. Owed(v5, v8) = v6 + Redeemed(v8) /\ v6 \in Nat
            BY <2>1, AffStays DEF Credited
        <3>4. Owed(v5, v8') = v6' + Redeemed(v8')
            BY <1>0, <1>3, <2>4, <2>6, <3>1, <3>2, <3>3
        <3> QED BY <2>1, <2>3, <3>4 DEF Credited, Apart
    <2>8. CASE m.op # "redeem"
        <3>1. v6' = v6 /\ RedeemTerm(m) = 0
            BY <1>1, <2>8 DEF RedeemTerm
        <3>3. Owed(v5, v8) = v6 + Redeemed(v8) /\ v6 \in Nat
            BY <2>1, AffStays DEF Credited
        <3>4. Owed(v5, v8') = v6' + Redeemed(v8')
            BY <1>3, <2>4, <2>6, <3>1, <3>3
        <3> QED BY <2>1, <2>3, <3>4 DEF Credited, Apart
    <2> QED BY <2>7, <2>8
<1> QED BY <1>1, <1>3, <1>4, <1>5, <1>6, <1>7, <1>8, AffCallAgreed

\* Nothing is redeemed beside a reversal.
LEMMA AffNoRedeem ==
    ASSUME Aff!AffiliateInv, Aff!Straight, NEW c \in Firsts, v8[c].op = "reverse" PROVE Redeemed(v8) = 0
<1>1. \A a \in Firsts : v8[a].op # "redeem"
    BY AffStays DEF Aff!ReversalsOK, Aff!SpendOK, Aff!Spends
<1>2. RedeemedIn(v8) \in [Firsts -> Nat] /\ \A a \in Firsts : RedeemedIn(v8)[a] = 0
    BY <1>1 DEF RedeemedIn
<1> QED BY <1>2, AffFinite, SumOfZeros DEF Redeemed

LEMMA AffDebitAgreed == ASSUME Aff!AffiliateInv, Aff!AgreeInv, NEW c \in Firsts, Aff!ReverseDebit(c) PROVE Aff!AgreeInv'
<1> DEFINE m == v8[c]
           d == Aff!Min(m.todo)
           r == [m EXCEPT !.at = "reversed"]
           b == v6 # m.credit
           n == m.doc[d].amount
<1>0. m \in Aff!CallDoc /\ TieSelf(m) /\ TieDocs(m, v5) /\ m.left \in Nat /\ m.amount \in Nat /\ TiePay(m, v7)
    BY AffStays, AffAgreed DEF Aff!CallDoc
<1>1. /\ m.at = "debit" /\ v8' = [v8 EXCEPT ![c] = r] /\ v6' = IF m.credit - n > 0 THEN m.credit - n ELSE 0
      /\ v10' = [v10 EXCEPT !.over = @ \/ b] /\ UNCHANGED <<v1, v4, v5, v7>>
    BY DEF Aff!ReverseDebit, Aff!Debited, Aff!Set
<1>2. b \in BOOLEAN /\ (~b => m.credit = v6)
    OBVIOUS
<1>3. m.op = "reverse" /\ m.todo # {} /\ m.doc[d].status = "CREDITED"
    BY <1>0, <1>1 DEF TieSelf
<1>4. d \in m.todo /\ d \in Aff!Docs /\ n \in Nat /\ v5[d] \in Aff!Commission
    BY <1>3, AffTodo DEF Aff!Commission
<1>a. d = Aff!Min(m.todo) /\ n = m.doc[d].amount
    OBVIOUS
<1> HIDE DEF d, b, n
<1>5. /\ r \in Aff!CallDoc /\ r.at = "reversed" /\ r.op = m.op /\ r.order = m.order /\ r.todo = m.todo /\ r.doc = m.doc
      /\ r.payout = m.payout /\ r.left = m.left /\ r.amount = m.amount
    BY <1>0 DEF Aff!CallDoc
<1> HIDE DEF r
<1>6. TieSelf(r) /\ TieDocs(r, v5) /\ TiePay(r, v7)
    BY <1>0, <1>1, <1>3, <1>5, <1>a DEF TieSelf, TieDocs, TiePay
<1>7. v10'.raced = v10.raced /\ (~v10'.over => ~v10.over /\ ~b) /\ (Aff!Straight' => Aff!Straight /\ ~b)
    BY <1>1, <1>2, AffMarkOver
<1>8. /\ \A a : SplitTerm(a, r, v1) <= SplitTerm(a, m, v1)
      /\ \A p \in Ones : RequestTerm(p, r) = RequestTerm(p, m)
      /\ RedeemTerm(r) = 0 /\ RedeemTerm(m) = 0
    BY <1>1, <1>3, <1>5 DEF SplitTerm, RequestTerm, RedeemTerm
<1>9. Creating(v8', v5, v1, v10'.raced)
    <2>1. \A e \in Aff!Docs : v5'[e].status # "none" =>
              \E f \in Aff!Docs : v5[f].status # "none" /\ v1[v5[f].order] = v1[v5'[e].order]
        BY <1>1
    <2>2. v1' = v1 /\ v5' = v5 /\ v8' = [v8 EXCEPT ![c] = r] /\ r.at # "create" /\ v10.raced \subseteq v10'.raced
        BY <1>1, <1>5, <1>7
    <2> QED BY <1>5, <2>1, <2>2, AffCreatingGoes
<1>10. v8'[c] = r /\ \A a \in Firsts \ {c} : v8'[a] = v8[a]
    BY <1>1, AffStays
<1>11. ASSUME Aff!Straight' PROVE Aff!Straight /\ Apart(v8', v5', v4') /\ Credited(v5, v8', v6')
    <2>1. Aff!Straight /\ Credited(v5, v8, v6) /\ Apart(v8, v5, v4) /\ v6 = m.credit
        BY <1>2, <1>7, <1>11, AffAgreed
    <2>2. v5[d] = m.doc[d] /\ m.doc[d].order = m.order
        BY <1>0, <1>3, <1>4, <2>1 DEF Apart, TieSelf
    <2>3. Apart(v8', v5', v4')
        <3>1. \A e \in r.todo : r.doc[e].status = "CREDITED" => v5'[e] = r.doc[e]
            BY <1>1, <1>3, <1>5, <2>1 DEF Apart
        <3>2. v8' = [v8 EXCEPT ![c] = r] /\ v4' = v4 /\ v5' = v5 /\ r.order = m.order
            BY <1>1, <1>5
        <3> QED BY <1>3, <1>5, <2>1, <3>1, <3>2, AffApart
    <2>4. ASSUME NEW a \in Firsts, v8[a].at = "reversed" PROVE d # Aff!Min(v8[a].todo)
        <3> DEFINE e == Aff!Min(v8[a].todo)
        <3>1. v8[a].op = "reverse" /\ v8[a].todo # {} /\ v8[a].doc[e].status = "CREDITED" /\ a # c
            BY <1>1, <2>4, AffAgreed DEF TieSelf
        <3>2. e \in v8[a].todo /\ e \in Aff!Docs
            BY <3>1, AffTodo
        <3> HIDE DEF e
        <3>3. v5[e].order = v8[a].order
            BY <3>1, <3>2, AffAgreed DEF TieSelf, TieDocs
        <3>4. v8[a].order # m.order
            BY <1>3, <2>1, <3>1 DEF Apart
        <3>5. d # e
            BY <2>2, <3>3, <3>4
        <3> QED BY <3>5 DEF e
    <2>5. OwedTerm(d, v5, v8) = n /\ OwedTerm(d, v5, v8') = 0
        <3>1. IsOwed(d, v5, v8)
            BY <1>3, <2>2, <2>4 DEF IsOwed
        <3>2. ~IsOwed(d, v5, v8')
            BY <1>5, <1>10, <1>a DEF IsOwed
        <3> QED BY <1>a, <2>2, <3>1, <3>2 DEF OwedTerm
    <2>6. \A e \in Aff!Docs \ {d} : (IsOwed(e, v5, v8') <=> IsOwed(e, v5, v8)) /\ (IsOwed(e, v5, v8) => v5[e].amount = v5[e].amount)
        <3>1. \A e \in Aff!Docs \ {d} : \A a \in Firsts :
                 (v8'[a].at = "reversed" => e # Aff!Min(v8'[a].todo)) <=> (v8[a].at = "reversed" => e # Aff!Min(v8[a].todo))
            BY <1>1, <1>5, <1>10, <1>a
        <3> QED BY <3>1 DEF IsOwed
    <2>7. /\ Owed(v5, v8) \in Nat /\ OwedTerm(d, v5, v8) <= Owed(v5, v8)
          /\ Owed(v5, v8') = Owed(v5, v8) - OwedTerm(d, v5, v8) + OwedTerm(d, v5, v8')
        <3>1. \A h, k :
                 (\A e \in Aff!Docs \ {d} : (IsOwed(e, v5, k) <=> IsOwed(e, v5, h)) /\ (IsOwed(e, v5, h) => v5[e].amount = v5[e].amount))
                 => /\ Owed(v5, h) \in Nat /\ Owed(v5, k) \in Nat
                    /\ OwedTerm(d, v5, h) \in Nat /\ OwedTerm(d, v5, k) \in Nat /\ OwedTerm(d, v5, h) <= Owed(v5, h)
                    /\ Owed(v5, k) = Owed(v5, h) - OwedTerm(d, v5, h) + OwedTerm(d, v5, k)
            BY <1>4, AffStays, AffOwedMoves
        <3> QED BY <2>6, <3>1
    <2>8. Redeemed(v8) = 0 /\ Redeemed(v8') = 0
        <3>1. Redeemed(v8) = 0
            BY <1>3, <2>1, AffNoRedeem
        <3>2. r.left <= r.amount
            BY <1>6 DEF TieSelf
        <3>3. Redeemed(v8') = Redeemed(v8) - RedeemTerm(m) + RedeemTerm(r)
            BY <1>1, <1>5, <3>2, AffCallSums
        <3> QED BY <1>8, <3>1, <3>3
    <2>9. Owed(v5, v8) = v6 /\ v6 \in Nat
        <3>1. Owed(v5, v8) = v6 + Redeemed(v8) /\ v6 \in Nat
            BY <2>1, AffStays DEF Credited
        <3> QED BY <2>8, <3>1
    <2>10. v6' = v6 - n
        BY <1>1, <1>4, <2>1, <2>5, <2>7, <2>9
    <2>11. Owed(v5, v8') = v6' + Redeemed(v8')
        BY <1>4, <2>5, <2>7, <2>8, <2>9, <2>10
    <2> QED BY <2>1, <2>3, <2>11 DEF Credited
<1> QED BY <1>1, <1>5, <1>6, <1>7, <1>8, <1>9, <1>11, AffCallAgreed

LEMMA AffReviewAgreed == ASSUME Aff!AffiliateInv, Aff!AgreeInv, NEW c \in Firsts, Aff!ReviewSave(c) PROVE Aff!AgreeInv'
<1> DEFINE m == v8[c]
           p == m.payout
<1>0. /\ m \in Aff!CallDoc /\ TieSelf(m) /\ TieDocs(m, v5) /\ TiePay(m, v7) /\ m.left \in Nat /\ m.amount \in Nat
      /\ v7 \in [Ones -> PayoutDoc]
    BY AffStays, AffAgreed DEF Aff!CallDoc
<1>1. /\ m.op = "review" /\ m.at = "save" /\ UNCHANGED <<v1, v4, v5, v6>>
    BY DEF Aff!ReviewSave
<1>2. CASE ~Aff!Allowed(m.act, m.status)
    <2>1. Aff!Done(c) /\ UNCHANGED <<v7, v10>>
        BY <1>2 DEF Aff!ReviewSave
    <2>2. Aff!Straight' => Aff!Straight
        BY <2>1 DEF Aff!Straight
    <2> QED BY <1>1, <2>1, <2>2, AffEndsAgreed
<1>3. CASE Aff!Allowed(m.act, m.status)
    <2> DEFINE b == v7[p].status # m.status
               s == Aff!Outcome(m.act)
    <2>1. /\ v7' = [v7 EXCEPT ![p].status = s] /\ v10' = [v10 EXCEPT !.over = @ \/ b]
          /\ (m.act = "approve" /\ Aff!Done(c)) \/ Aff!Set(c, [m EXCEPT !.at = "settle"])
        BY <1>3 DEF Aff!ReviewSave
    <2>2. b \in BOOLEAN /\ (~b => v7[p].status = m.status) /\ s \in {"APPROVED", "REJECTED", "PAID"}
          /\ (m.act = "reject" => s = "REJECTED") /\ m.status \in {"PENDING", "APPROVED"}
        BY <1>3 DEF Aff!Outcome, Aff!Allowed
    <2>3. p \in Ones
        BY <1>0, <1>1 DEF TieSelf, Aff!CallDoc
    <2> HIDE DEF b, s
    <2>4. PICK r \in Aff!CallDoc :
             /\ v8' = [v8 EXCEPT ![c] = r] /\ r.at \in {"idle", "settle"} /\ r.op \in {"none", "review"}
             /\ TieSelf(r) /\ TieDocs(r, v5) /\ TiePay(r, v7') /\ r.left <= r.amount
             /\ r.at = "settle" => r.payout = p /\ r.act = m.act
        <3>1. CASE Aff!Done(c)
            <4>1. v8' = [v8 EXCEPT ![c] = Aff!Ready] /\ Aff!Ready \in Aff!CallDoc /\ Aff!Ready.at = "idle" /\ Aff!Ready.op = "none"
                BY <3>1, AffIdle DEF Aff!Done, Aff!Set
            <4>2. Aff!Ready.left <= Aff!Ready.amount /\ Aff!Ready.at # "settle"
                BY <4>1, AffReadyTerms
            <4> QED BY <4>1, <4>2, AffReadyTerms, Zenon
        <3>2. CASE ~Aff!Done(c)
            <4> DEFINE r == [m EXCEPT !.at = "settle"]
            <4>1. v8' = [v8 EXCEPT ![c] = r]
                BY <2>1, <3>2 DEF Aff!Set
            <4>2. /\ r \in Aff!CallDoc /\ r.at = "settle" /\ r.op = m.op /\ r.order = m.order /\ r.todo = m.todo
                  /\ r.doc = m.doc /\ r.payout = p /\ r.left = m.left /\ r.amount = m.amount /\ r.act = m.act
                BY <1>0 DEF Aff!CallDoc
            <4> HIDE DEF r
            <4>3. TieSelf(r) /\ TieDocs(r, v5) /\ r.left <= r.amount
                BY <1>0, <1>1, <4>2 DEF TieSelf, TieDocs
            <4>4. v7'[p].status # "none"
                BY <1>0, <2>1, <2>2, <2>3 DEF PayoutDoc
            <4>5. TiePay(r, v7')
                BY <4>2, <4>4 DEF TiePay
            <4> QED BY <1>1, <4>1, <4>2, <4>3, <4>5
        <3> QED BY <3>1, <3>2
    <2>5. /\ v7'[p].status = s /\ v7'[p].amount = v7[p].amount /\ \A q \in Ones \ {p} : v7'[q] = v7[q]
          /\ v8'[c] = r /\ \A a \in Firsts \ {c} : v8'[a] = v8[a]
        BY <1>0, <2>1, <2>3, <2>4, AffStays DEF PayoutDoc
    <2>6. Ties(v8', v5', v7')
        <3>1. \A q \in Ones : v7[q].status # "none" => v7'[q].status # "none"
            BY <2>2, <2>5
        <3>2. \A d \in Aff!Docs : v5[d].status # "none" => v5'[d].status # "none" /\ v5'[d].order = v5[d].order
            BY <1>1
        <3>3. TieDocs(r, v5')
            BY <1>1, <2>4
        <3> QED BY <2>4, <3>1, <3>2, <3>3, AffTiesGo
    <2>7. v10'.raced = v10.raced /\ (~v10'.over => ~v10.over) /\ (Aff!Straight' => Aff!Straight /\ ~b)
        BY <2>1, <2>2, AffMarkOver
    <2>8. Creating(v8', v5', v1', v10'.raced)
        <3>1. \A e \in Aff!Docs : v5'[e].status # "none" =>
                  \E f \in Aff!Docs : v5[f].status # "none" /\ v1[v5[f].order] = v1[v5'[e].order]
            BY <1>1
        <3>2. v1' = v1 /\ v8' = [v8 EXCEPT ![c] = r] /\ r.at # "create" /\ v10.raced \subseteq v10'.raced
            BY <1>1, <2>4, <2>7
        <3> QED BY <3>1, <3>2, AffCreatingGoes
    <2>9. /\ \A a : SplitTerm(a, r, v1) = 0 /\ SplitTerm(a, m, v1) = 0
          /\ \A q : RequestTerm(q, r) = 0 /\ RequestTerm(q, m) = 0
          /\ RedeemTerm(r) = 0 /\ RedeemTerm(m) = 0
        BY <1>1, <2>4 DEF SplitTerm, RequestTerm, RedeemTerm
    <2>10. /\ \A a : Splitting(a, v8', v1) = Splitting(a, v8, v1)
           /\ \A q : Requested(q, v8') = Requested(q, v8)
           /\ Redeemed(v8') = Redeemed(v8)
        <3>1. /\ \A a : Splitting(a, v8, v1) \in Nat /\ Splitting(a, v8', v1) = Splitting(a, v8, v1) - SplitTerm(a, m, v1) + SplitTerm(a, r, v1)
              /\ \A q : Requested(q, v8) \in Nat /\ Requested(q, v8') = Requested(q, v8) - RequestTerm(q, m) + RequestTerm(q, r)
              /\ Redeemed(v8) \in Nat /\ Redeemed(v8') = Redeemed(v8) - RedeemTerm(m) + RedeemTerm(r)
            BY <2>4, AffCallSums
        <3> QED BY <2>9, <3>1
    <2>11. Once(v5', v8', v1', v10')
        BY <1>1, <2>7, <2>10, AffAgreed DEF Once
    <2>12. Named(v5', v7')
        <3>1. ASSUME NEW d \in Aff!Docs, v5[d].payout # Nobody PROVE v7'[v5[d].payout].status # "none"
            <4>1. v5[d].payout \in Ones /\ v7[v5[d].payout].status # "none"
                BY <3>1, AffAgreed, AffStays DEF Named, Aff!Commission
            <4> QED BY <2>2, <2>5, <4>1
        <3> QED BY <1>1, <3>1 DEF Named
    <2>13. ASSUME Aff!Straight'
           PROVE  /\ Unnamed(v5') /\ Rejected(v8', v7') /\ Apart(v8', v5', v4') /\ Credited(v5', v8', v6') /\ Backs(v5', v8', v7')
        <3>0. Aff!Straight /\ v7[p].status = m.status
            BY <2>2, <2>7, <2>13
        <3>1. Unnamed(v5) /\ Rejected(v8, v7) /\ Apart(v8, v5, v4) /\ Credited(v5, v8, v6) /\ Backs(v5, v8, v7)
            BY <3>0, AffAgreed
        <3>2. Rejected(v8', v7')
            <4>1. ASSUME NEW a \in Firsts, v8'[a].at = "settle", v8'[a].act = "reject"
                  PROVE  v7'[v8'[a].payout].status = "REJECTED"
                <5>1. CASE a = c
                    BY <2>2, <2>4, <2>5, <4>1, <5>1
                <5>2. CASE a # c
                    <6>1. v8'[a] = v8[a] /\ v7[v8[a].payout].status = "REJECTED"
                        BY <2>5, <3>1, <4>1, <5>2 DEF Rejected
                    <6>2. v8[a].payout \in Ones
                        BY <4>1, <6>1, AffAgreed, AffStays DEF TieSelf, Aff!CallDoc
                    <6>3. v8[a].payout # p
                        BY <2>2, <3>0, <6>1
                    <6> QED BY <2>5, <6>1, <6>2, <6>3
                <5> QED BY <5>1, <5>2
            <4> QED BY <4>1 DEF Rejected
        <3>3. Apart(v8', v5', v4')
            <4>1. m.op # "reverse" /\ r.op # "reverse"
                BY <1>1, <2>4
            <4>2. v8' = [v8 EXCEPT ![c] = r] /\ v4' = v4 /\ v5' = v5
                BY <1>1, <2>4
            <4> QED BY <3>0, <4>1, <4>2, AffApart
        <3>4. Credited(v5', v8', v6')
            <4>1. Owed(v5, v8') = Owed(v5, v8)
                BY <1>1, <2>4, <2>5, AffOwedStays
            <4> QED BY <1>1, <2>10, <3>1, <4>1 DEF Credited
        <3>5. Backs(v5', v8', v7')
            <4> SUFFICES ASSUME NEW q \in Ones, v7'[q].status \in {"PENDING", "APPROVED", "PAID"}
                         PROVE  v7'[q].amount = Reserved(q, v5) + Requested(q, v8')
                BY <1>1 DEF Backs
            <4>1. v7'[q].amount = v7[q].amount /\ v7[q].status \in {"PENDING", "APPROVED", "PAID"}
                BY <2>2, <2>5, <3>0
            <4>2. v7[q].amount = Reserved(q, v5) + Requested(q, v8)
                BY <3>1, <4>1 DEF Backs
            <4> QED BY <2>10, <4>1, <4>2
        <3> QED BY <1>1, <3>1, <3>2, <3>3, <3>4, <3>5
    <2> QED BY <2>6, <2>8, <2>11, <2>12, <2>13, AffAgreeNext
<1> QED BY <1>2, <1>3

-----------------------------------------------------------------------------
(* Affiliates: what a settlement creates, and every step.                   *)

\* A commission is made for a buyer of whom nothing is counted.
LEMMA AffNothingBrought ==
    ASSUME Aff!AffiliateInv, Aff!AgreeInv, NEW b, \A d \in Aff!Docs : v5[d].status # "none" => v1[v5[d].order] # b
    PROVE  Brought(b, v5, v1) = 0 /\ Splitting(b, v8, v1) = 0
<1> DEFINE S == {d \in Aff!Docs : v5[d].status # "none" /\ v1[v5[d].order] = b}
           C == {c \in Firsts : v8[c].at = "split" /\ v1[v8[c].doc[Aff!Min(v8[c].todo)].order] = b}
<1>1. S = {}
    OBVIOUS
<1>2. ASSUME NEW c \in Firsts, v8[c].at = "split" PROVE v1[v8[c].doc[Aff!Min(v8[c].todo)].order] # b
    <2> DEFINE d == Aff!Min(v8[c].todo)
    <2>1. v8[c].todo # {} /\ v8[c].op \in {"redeem", "payout"}
        BY <1>2, AffCall DEF AffCallDocOK
    <2>2. d \in v8[c].todo /\ d \in Aff!Docs
        BY <2>1, AffTodo
    <2> HIDE DEF d
    <2>3. v8[c].doc[d].status = "APPROVED"
        BY <1>2, <2>1, <2>2, AffAgreed DEF TieSelf
    <2>4. v5[d].status # "none" /\ v5[d].order = v8[c].doc[d].order
        BY <2>2, <2>3, AffAgreed DEF TieDocs
    <2> QED BY <2>2, <2>4 DEF d
<1>3. C = {}
    BY <1>2
<1> HIDE DEF S, C
<1>5. /\ AmountsIn(v5, S) \in [Aff!Docs -> Nat] /\ \A d \in Aff!Docs : AmountsIn(v5, S)[d] = 0
      /\ LeftIn(v8, C) \in [Firsts -> Nat] /\ \A c \in Firsts : LeftIn(v8, C)[c] = 0
    BY <1>1, <1>3 DEF AmountsIn, LeftIn
<1> QED BY <1>5, AffFinite, SumOfZeros DEF Brought, Splitting, S, C

LEMMA AffCreatesAgreed == ASSUME Aff!AffiliateInv, Aff!AgreeInv, NEW c \in Firsts, Aff!Create(c) PROVE Aff!AgreeInv'
<1> DEFINE m == v8[c]
           n == Aff!NextDoc
           doc == [Aff!NoCommission EXCEPT !.order = m.order, !.amount = Earned, !.status = "QUALIFIED"]
           r == Aff!Ready
<1>0. m \in Aff!CallDoc /\ TieSelf(m) /\ TieDocs(m, v5)
    BY AffStays, AffAgreed
<1>1. /\ m.at = "create" /\ n \in Aff!Docs /\ v5' = [v5 EXCEPT ![n] = doc] /\ v8' = [v8 EXCEPT ![c] = r]
      /\ UNCHANGED <<v1, v4, v6, v7, v10>>
    BY DEF Aff!Create, Aff!Done, Aff!Set
<1>2. m.op = "paid" /\ m.order \in Seconds
    BY <1>1, AffCall DEF AffCallDocOK
<1>3. /\ doc \in Aff!Commission /\ doc.order = m.order /\ doc.status = "QUALIFIED" /\ doc.payout = Nobody
      /\ doc.amount = Earned
    BY <1>2, AffBounds, AffIdle DEF Aff!Commission, Aff!NoCommission
<1>4. v5[n].status = "none"
    <2>1. n \notin Aff!Made
        BY AffNextDoc
    <2> HIDE DEF n
    <2> QED BY <1>1, <2>1 DEF Aff!Made, Aff!Of
<1>5. /\ r \in Aff!CallDoc /\ TieSelf(r) /\ (\A docs : TieDocs(r, docs)) /\ TiePay(r, v7) /\ r.at = "idle" /\ r.op = "none"
      /\ RedeemTerm(r) = 0 /\ (\A b, of : SplitTerm(b, r, of) = 0) /\ \A p : RequestTerm(p, r) = 0
      /\ r.left = 0 /\ r.amount = 0
    BY AffReadyTerms, AffIdle
<1> HIDE DEF n, doc, r
<1>6. /\ v5' \in [Aff!Docs -> Aff!Commission] /\ v5'[n] = doc /\ (\A d \in Aff!Docs \ {n} : v5'[d] = v5[d])
      /\ v8'[c] = r /\ \A a \in Firsts \ {c} : v8'[a] = v8[a]
    BY <1>1, <1>3, AffStays
<1>7. Creating(v8', v5', v1', v10'.raced)
    <2> SUFFICES ASSUME NEW a \in Firsts, v8'[a].at = "create", v1[v8'[a].order] \notin v10.raced
                 PROVE  /\ \A d \in Aff!Docs : v5'[d].status # "none" => v1[v5'[d].order] # v1[v8'[a].order]
                        /\ \A e \in Firsts \ {a} : v8'[e].at = "create" => v1[v8'[e].order] # v1[v8'[a].order]
        BY <1>1 DEF Creating
    <2>1. a # c /\ v8'[a] = v8[a]
        BY <1>5, <1>6
    <2>2. /\ \A d \in Aff!Docs : v5[d].status # "none" => v1[v5[d].order] # v1[v8[a].order]
          /\ \A e \in Firsts \ {a} : v8[e].at = "create" => v1[v8[e].order] # v1[v8[a].order]
        BY <2>1, AffAgreed DEF Creating
    <2>3. v1[m.order] # v1[v8[a].order]
        BY <1>1, <2>1, <2>2
    <2>4. \A d \in Aff!Docs : v5'[d].status # "none" => v1[v5'[d].order] # v1[v8[a].order]
        BY <1>3, <1>6, <2>2, <2>3
    <2>5. \A e \in Firsts \ {a} : v8'[e].at = "create" => e # c /\ v8'[e] = v8[e]
        BY <1>5, <1>6
    <2> QED BY <2>1, <2>2, <2>4, <2>5
<1>8. r.left <= r.amount
    BY <1>5
<1>9. Once(v5', v8', v1', v10')
    <2> SUFFICES ASSUME NEW b \in Ones, b \notin v10.raced, ~v10.over
                 PROVE  Brought(b, v5', v1) + Splitting(b, v8', v1) <= Earned
        BY <1>1 DEF Once
    <2>1. Brought(b, v5, v1) + Splitting(b, v8, v1) <= Earned
        BY AffAgreed DEF Once
    <2>2. /\ Splitting(b, v8, v1) \in Nat /\ Splitting(b, v8', v1) = Splitting(b, v8, v1)
        <3>1. /\ Splitting(b, v8, v1) \in Nat
              /\ Splitting(b, v8', v1) = Splitting(b, v8, v1) - SplitTerm(b, m, v1) + SplitTerm(b, r, v1)
            BY <1>1, <1>5, <1>8, AffCallSums
        <3>2. SplitTerm(b, m, v1) = 0 /\ SplitTerm(b, r, v1) = 0
            BY <1>1, <1>5 DEF SplitTerm
        <3> QED BY <3>1, <3>2
    <2>3. /\ Brought(b, v5, v1) \in Nat
          /\ Brought(b, v5', v1) = Brought(b, v5, v1) - BroughtTerm(b, v5[n], v1) + BroughtTerm(b, doc, v1)
        <3>1. \A a, of :
                 /\ Brought(a, v5, of) \in Nat /\ Brought(a, v5', of) \in Nat
                 /\ BroughtTerm(a, v5[n], of) \in Nat /\ BroughtTerm(a, v5'[n], of) \in Nat
                 /\ Brought(a, v5', of) = Brought(a, v5, of) - BroughtTerm(a, v5[n], of) + BroughtTerm(a, v5'[n], of)
            BY <1>1, <1>6, AffStays, AffBroughtMoves
        <3> QED BY <1>6, <3>1
    <2>4. BroughtTerm(b, v5[n], v1) = 0
        BY <1>4 DEF BroughtTerm
    <2>5. CASE v1[m.order] = b
        <3>1. \A d \in Aff!Docs : v5[d].status # "none" => v1[v5[d].order] # b
            BY <1>1, <2>5, AffAgreed DEF Creating
        <3>2. Brought(b, v5, v1) = 0 /\ Splitting(b, v8, v1) = 0
            BY <3>1, AffNothingBrought
        <3>3. BroughtTerm(b, doc, v1) = Earned
            BY <1>3, <2>5 DEF BroughtTerm
        <3> QED BY <2>2, <2>3, <2>4, <3>2, <3>3, AffBounds
    <2>6. CASE v1[m.order] # b
        <3>1. BroughtTerm(b, doc, v1) = 0
            BY <1>3, <2>6 DEF BroughtTerm
        <3> QED BY <2>1, <2>2, <2>3, <2>4, <3>1, AffBounds
    <2> QED BY <2>5, <2>6
<1>10. ASSUME Aff!Straight'
       PROVE  /\ Aff!Straight /\ Apart(v8', v5', v4') /\ r.at # "settle"
              /\ v5'[n].status \in {"none", "QUALIFIED", "APPROVED", "CREDITED"} => v5'[n].payout = Nobody
              /\ \A e \in Aff!Docs \ {n} : IsOwed(e, v5', v8') <=> IsOwed(e, v5, v8)
              /\ OwedTerm(n, v5', v8') + RedeemTerm(m) = OwedTerm(n, v5, v8) + RedeemTerm(r)
              /\ \A p \in Ones : ReservedTerm(p, v5'[n]) + RequestTerm(p, r) = ReservedTerm(p, v5[n]) + RequestTerm(p, m)
    <2>0. Aff!Straight
        BY <1>1, <1>10 DEF Aff!Straight
    <2>1. Apart(v8', v5', v4')
        <3>1. \A a \in Firsts \ {c} : v8[a].op = "reverse" =>
                  \A e \in v8[a].todo : v8[a].doc[e].status = "CREDITED" => v5'[e] = v5[e]
            <4> SUFFICES ASSUME NEW a \in Firsts \ {c}, v8[a].op = "reverse", NEW e \in v8[a].todo,
                                v8[a].doc[e].status = "CREDITED"
                         PROVE  v5'[e] = v5[e]
                OBVIOUS
            <4>1. v5[e] = v8[a].doc[e] /\ e \in Aff!Docs
                BY <2>0, AffAgreed, AffStays DEF Apart, Aff!CallDoc
            <4> QED BY <1>4, <1>6, <4>1
        <3>2. v8' = [v8 EXCEPT ![c] = r] /\ v4' = v4 /\ r.op # "reverse"
            BY <1>1, <1>5
        <3> QED BY <1>5, <2>0, <3>1, <3>2, AffApart
    <2>2. \A e \in Aff!Docs \ {n} : IsOwed(e, v5', v8') <=> IsOwed(e, v5, v8)
        BY <1>1, <1>5, <1>6, AffOthersOwed
    <2>3. OwedTerm(n, v5', v8') = 0 /\ OwedTerm(n, v5, v8) = 0 /\ RedeemTerm(r) = 0 /\ RedeemTerm(m) = 0
        BY <1>2, <1>3, <1>4, <1>5, <1>6 DEF OwedTerm, IsOwed, RedeemTerm
    <2>4. \A p \in Ones : /\ ReservedTerm(p, v5'[n]) = 0 /\ ReservedTerm(p, v5[n]) = 0
                          /\ RequestTerm(p, r) = 0 /\ RequestTerm(p, m) = 0
        BY <1>2, <1>3, <1>4, <1>5, <1>6, AffBounds DEF ReservedTerm, RequestTerm
    <2> QED BY <1>3, <1>5, <1>6, <2>0, <2>1, <2>2, <2>3, <2>4
<1>11. /\ UNCHANGED <<v1, v4, v6, v7>> /\ v8' = [v8 EXCEPT ![c] = r] /\ v5'[n].payout = Nobody /\ n \in Aff!Docs
    BY <1>1, <1>3, <1>6
<1> QED BY <1>4, <1>5, <1>6, <1>7, <1>9, <1>10, <1>11, AffDocAgreed

LEMMA AffSettlesAgreed == ASSUME Aff!AffiliateInv, Aff!AgreeInv, NEW c \in Firsts, Aff!Settle(c) PROVE Aff!AgreeInv'
<1> DEFINE m == v8[c]
           p == m.payout
           s == IF m.act = "reject" THEN "APPROVED" ELSE "PAID_OUT"
           q == IF m.act = "reject" THEN Nobody ELSE p
           r == Aff!Ready
           b == \E o \in Firsts \ {c} : v8[o].payout = p
<1>0. m \in Aff!CallDoc /\ TieSelf(m) /\ TiePay(m, v7)
    BY AffStays, AffAgreed
<1>1. /\ m.op = "review" /\ m.at = "settle" /\ v8' = [v8 EXCEPT ![c] = r] /\ UNCHANGED <<v1, v4, v6, v7>>
      /\ v10' = [v10 EXCEPT !.over = @ \/ b]
      /\ v5' = [d \in Aff!Docs |-> IF v5[d].payout # p \/ v5[d].status # "PAYOUT_REQUESTED" THEN v5[d]
                                   ELSE [v5[d] EXCEPT !.status = s, !.payout = q]]
    BY DEF Aff!Settle, Aff!Done, Aff!Set
<1>2. p \in Ones /\ v7[p].status # "none" /\ p # Nobody
    BY <1>0, <1>1 DEF TieSelf, TiePay, Aff!CallDoc
<1>3. /\ b \in BOOLEAN /\ s \in {"APPROVED", "PAID_OUT"} /\ q \in Ones \cup {Nobody}
      /\ (m.act = "reject" => s = "APPROVED" /\ q = Nobody) /\ (m.act # "reject" => s = "PAID_OUT" /\ q = p)
    BY <1>2
<1>4. /\ r \in Aff!CallDoc /\ TieSelf(r) /\ (\A docs : TieDocs(r, docs)) /\ TiePay(r, v7) /\ r.at = "idle" /\ r.op = "none"
      /\ RedeemTerm(r) = 0 /\ (\A a, of : SplitTerm(a, r, of) = 0) /\ \A x : RequestTerm(x, r) = 0
      /\ r.left = 0 /\ r.amount = 0
    BY AffReadyTerms, AffIdle
<1> HIDE DEF b, s, q, p, r
<1>5. v10'.raced = v10.raced /\ (~v10'.over => ~v10.over) /\ (Aff!Straight' => Aff!Straight)
    BY <1>1, <1>3, AffMarkOver
<1>6. ASSUME NEW d \in Aff!Docs
      PROVE  /\ v5'[d] \in Aff!Commission /\ v5'[d].order = v5[d].order /\ v5'[d].amount = v5[d].amount
             /\ \/ v5'[d] = v5[d]
                \/ v5[d].status = "PAYOUT_REQUESTED" /\ v5[d].payout = p /\ v5'[d].status = s /\ v5'[d].payout = q
    <2>0. v5[d] \in Aff!Commission
        BY AffStays
    <2>1. CASE v5'[d] = v5[d]
        BY <2>0, <2>1
    <2>2. CASE v5'[d] # v5[d]
        <3> DEFINE doc == [v5[d] EXCEPT !.status = s, !.payout = q]
        <3>1. v5'[d] = doc /\ v5[d].status = "PAYOUT_REQUESTED" /\ v5[d].payout = p
            BY <1>1, <2>2
        <3>2. doc \in Aff!Commission /\ doc.order = v5[d].order /\ doc.amount = v5[d].amount /\ doc.status = s /\ doc.payout = q
            BY <1>3, <2>0 DEF Aff!Commission
        <3> HIDE DEF doc
        <3> QED BY <3>1, <3>2
    <2> QED BY <2>1, <2>2
<1>7. v8'[c] = r /\ \A a \in Firsts \ {c} : v8'[a] = v8[a]
    BY <1>1, AffStays
<1>8. Ties(v8', v5', v7')
    <2>1. \A d \in Aff!Docs : v5[d].status # "none" => v5'[d].status # "none" /\ v5'[d].order = v5[d].order
        BY <1>3, <1>6
    <2>2. TiePay(r, v7') /\ TieDocs(r, v5') /\ \A x \in Ones : v7[x].status # "none" => v7'[x].status # "none"
        BY <1>1, <1>4
    <2> QED BY <1>1, <1>4, <2>1, <2>2, AffTiesGo
<1>9. Creating(v8', v5', v1', v10'.raced)
    <2>1. \A d \in Aff!Docs : v5'[d].status # "none" =>
              \E e \in Aff!Docs : v5[e].status # "none" /\ v1[v5[e].order] = v1[v5'[d].order]
        BY <1>6
    <2>2. v1' = v1 /\ v8' = [v8 EXCEPT ![c] = r] /\ r.at # "create" /\ v10.raced \subseteq v10'.raced
        BY <1>1, <1>4, <1>5
    <2> QED BY <1>4, <2>1, <2>2, AffCreatingGoes
<1>10. /\ \A a : Splitting(a, v8', v1) = Splitting(a, v8, v1)
       /\ \A x : Requested(x, v8') = Requested(x, v8)
       /\ Redeemed(v8') = Redeemed(v8)
    <2>1. r.left <= r.amount
        BY <1>4
    <2>2. /\ \A a : Splitting(a, v8, v1) \in Nat /\ Splitting(a, v8', v1) = Splitting(a, v8, v1) - SplitTerm(a, m, v1) + SplitTerm(a, r, v1)
          /\ \A x : Requested(x, v8) \in Nat /\ Requested(x, v8') = Requested(x, v8) - RequestTerm(x, m) + RequestTerm(x, r)
          /\ Redeemed(v8) \in Nat /\ Redeemed(v8') = Redeemed(v8) - RedeemTerm(m) + RedeemTerm(r)
        BY <1>1, <1>4, <2>1, AffCallSums
    <2>3. (\A a : SplitTerm(a, m, v1) = 0) /\ (\A x : RequestTerm(x, m) = 0) /\ RedeemTerm(m) = 0
        BY <1>1 DEF SplitTerm, RequestTerm, RedeemTerm
    <2> QED BY <1>4, <2>2, <2>3
<1>11. \A a : Brought(a, v5', v1) = Brought(a, v5, v1)
    <2> SUFFICES ASSUME NEW a PROVE Brought(a, v5', v1) = Brought(a, v5, v1)
        OBVIOUS
    <2> DEFINE S == {d \in Aff!Docs : v5[d].status # "none" /\ v1[v5[d].order] = a}
               T == {d \in Aff!Docs : v5'[d].status # "none" /\ v1[v5'[d].order] = a}
    <2>1. \A e \in Aff!Docs : (e \in T <=> e \in S) /\ (e \in S => v5'[e].amount = v5[e].amount)
        BY <1>3, <1>6
    <2>2. Brought(a, v5, v1) = SumFunction(AmountsIn(v5, S)) /\ Brought(a, v5', v1) = SumFunction(AmountsIn(v5', T))
        BY DEF Brought
    <2> HIDE DEF S, T
    <2>3. SumFunction(AmountsIn(v5', T)) = SumFunction(AmountsIn(v5, S))
        BY <2>1, AffAmountsSame
    <2> QED BY <2>2, <2>3
<1>12. Once(v5', v8', v1', v10')
    BY <1>1, <1>5, <1>10, <1>11, AffAgreed DEF Once
<1>13. Named(v5', v7')
    BY <1>1, <1>2, <1>3, <1>6, AffAgreed DEF Named
<1>14. ASSUME Aff!Straight'
       PROVE  /\ Unnamed(v5') /\ Rejected(v8', v7') /\ Apart(v8', v5', v4') /\ Credited(v5', v8', v6') /\ Backs(v5', v8', v7')
    <2>0. Aff!Straight
        BY <1>5, <1>14
    <2>1. Unnamed(v5) /\ Rejected(v8, v7) /\ Apart(v8, v5, v4) /\ Credited(v5, v8, v6) /\ Backs(v5, v8, v7)
        BY <2>0, AffAgreed
    <2>2. Unnamed(v5')
        BY <1>3, <1>6, <2>1 DEF Unnamed
    <2>3. Rejected(v8', v7')
        BY <1>1, <1>4, <1>7, <2>1 DEF Rejected
    <2>4. Apart(v8', v5', v4')
        <3>1. \A a \in Firsts \ {c} : v8[a].op = "reverse" =>
                  \A e \in v8[a].todo : v8[a].doc[e].status = "CREDITED" => v5'[e] = v5[e]
            <4> SUFFICES ASSUME NEW a \in Firsts \ {c}, v8[a].op = "reverse", NEW e \in v8[a].todo,
                                v8[a].doc[e].status = "CREDITED"
                         PROVE  v5'[e] = v5[e]
                OBVIOUS
            <4>1. v5[e] = v8[a].doc[e] /\ e \in Aff!Docs
                BY <2>1, AffStays DEF Apart, Aff!CallDoc
            <4> QED BY <1>6, <4>1
        <3>2. v8' = [v8 EXCEPT ![c] = r] /\ v4' = v4 /\ r.op # "reverse"
            BY <1>1, <1>4
        <3> QED BY <1>4, <2>0, <3>1, <3>2, AffApart
    <2>5. Owed(v5', v8') = Owed(v5, v8)
        <3> DEFINE S == {d \in Aff!Docs : v5[d].status = "CREDITED" /\ \A a \in Firsts : v8[a].at = "reversed" => d # Aff!Min(v8[a].todo)}
                   T == {d \in Aff!Docs : v5'[d].status = "CREDITED" /\ \A a \in Firsts : v8'[a].at = "reversed" => d # Aff!Min(v8'[a].todo)}
        <3>1. \A d \in Aff!Docs : v5'[d].status = "CREDITED" <=> v5[d].status = "CREDITED"
            BY <1>3, <1>6
        <3>2. \A d : \A a \in Firsts : (v8'[a].at = "reversed" => d # Aff!Min(v8'[a].todo))
                                        <=> (v8[a].at = "reversed" => d # Aff!Min(v8[a].todo))
            BY <1>1, <1>4, <1>7
        <3>3. \A e \in Aff!Docs : (e \in T <=> e \in S) /\ (e \in S => v5'[e].amount = v5[e].amount)
            BY <1>6, <3>1, <3>2
        <3>4. Owed(v5, v8) = SumFunction(AmountsIn(v5, S)) /\ Owed(v5', v8') = SumFunction(AmountsIn(v5', T))
            BY DEF Owed
        <3> HIDE DEF S, T
        <3>5. SumFunction(AmountsIn(v5', T)) = SumFunction(AmountsIn(v5, S))
            BY <3>3, AffAmountsSame
        <3> QED BY <3>4, <3>5
    <2>6. Credited(v5', v8', v6')
        BY <1>1, <1>10, <2>1, <2>5 DEF Credited
    <2>7. ASSUME NEW x \in Ones, v7[x].status \in {"PENDING", "APPROVED", "PAID"} PROVE Reserved(x, v5') = Reserved(x, v5)
        <3> DEFINE S == {d \in Aff!Docs : v5[d].status # "none" /\ v5[d].payout = x}
                   T == {d \in Aff!Docs : v5'[d].status # "none" /\ v5'[d].payout = x}
        <3>1. m.act = "reject" => x # p /\ x # Nobody
            BY <1>1, <2>1, <2>7, AffBounds DEF Rejected, p
        <3>2. \A e \in Aff!Docs : (e \in T <=> e \in S) /\ (e \in S => v5'[e].amount = v5[e].amount)
            BY <1>3, <1>6, <3>1
        <3>3. Reserved(x, v5) = SumFunction(AmountsIn(v5, S)) /\ Reserved(x, v5') = SumFunction(AmountsIn(v5', T))
            BY DEF Reserved
        <3> HIDE DEF S, T
        <3>5. SumFunction(AmountsIn(v5', T)) = SumFunction(AmountsIn(v5, S))
            BY <3>2, AffAmountsSame
        <3> QED BY <3>3, <3>5
    <2>8. Backs(v5', v8', v7')
        BY <1>1, <1>10, <2>1, <2>7 DEF Backs
    <2> QED BY <2>2, <2>3, <2>4, <2>6, <2>8
<1> QED BY <1>8, <1>9, <1>12, <1>13, <1>14, AffAgreeNext

-----------------------------------------------------------------------------
(* Affiliates: the accounts agree.                                          *)

LEMMA AffAgreeBegins == Aff!AffiliateInit => Aff!AgreeInv
<1> SUFFICES ASSUME Aff!AffiliateInit PROVE Aff!AgreeInv
    OBVIOUS
<1>1. Aff!AffiliateInv
    BY AffInit
<1>2. /\ \A c \in Firsts : v8[c] = Aff!Ready
      /\ \A d \in Aff!Docs : v5[d] = Aff!NoCommission
      /\ v6 = 0 /\ \A p \in Ones : v7[p].status = "none"
    BY DEF Aff!AffiliateInit
<1>3. /\ Aff!NoCommission.status = "none" /\ Aff!NoCommission.payout = Nobody
      /\ Aff!Ready.op = "none" /\ Aff!Ready.at = "idle" /\ Aff!Ready.left = 0 /\ Aff!Ready.amount = 0
    BY AffIdle DEF Aff!NoCommission, Aff!Ready
<1>4. Ties(v8, v5, v7)
    BY <1>2, AffReadyTerms DEF Ties
<1>5. Creating(v8, v5, v1, v10.raced) /\ Named(v5, v7) /\ Unnamed(v5) /\ Rejected(v8, v7) /\ Apart(v8, v5, v4)
    BY <1>2, <1>3 DEF Creating, Named, Unnamed, Rejected, Apart
<1>6. /\ \A b : Brought(b, v5, v1) = 0 /\ Splitting(b, v8, v1) = 0
      /\ Owed(v5, v8) = 0 /\ Redeemed(v8) = 0
    <2>1. ASSUME NEW S, \A d \in Aff!Docs : d \notin S PROVE SumFunction(AmountsIn(v5, S)) = 0
        <3>1. AmountsIn(v5, S) \in [Aff!Docs -> Nat] /\ \A d \in Aff!Docs : AmountsIn(v5, S)[d] = 0
            BY <2>1 DEF AmountsIn
        <3> QED BY <3>1, AffFinite, SumOfZeros
    <2>2. ASSUME NEW C, \A c \in Firsts : c \notin C PROVE SumFunction(LeftIn(v8, C)) = 0
        <3>1. LeftIn(v8, C) \in [Firsts -> Nat] /\ \A c \in Firsts : LeftIn(v8, C)[c] = 0
            BY <2>2 DEF LeftIn
        <3> QED BY <3>1, AffFinite, SumOfZeros
    <2>3. RedeemedIn(v8) \in [Firsts -> Nat] /\ \A c \in Firsts : RedeemedIn(v8)[c] = 0
        BY <1>2, <1>3 DEF RedeemedIn
    <2>4. \A b : Brought(b, v5, v1) = 0
        BY <1>2, <1>3, <2>1 DEF Brought
    <2>5. \A b : Splitting(b, v8, v1) = 0
        BY <1>2, <1>3, <2>2 DEF Splitting
    <2>6. Owed(v5, v8) = 0
        BY <1>2, <1>3, <2>1 DEF Owed
    <2>7. Redeemed(v8) = 0
        BY <2>3, AffFinite, SumOfZeros DEF Redeemed
    <2> QED BY <2>4, <2>5, <2>6, <2>7
<1>7. Once(v5, v8, v1, v10)
    BY <1>6, AffBounds DEF Once
<1>8. Credited(v5, v8, v6) /\ Backs(v5, v8, v7)
    BY <1>2, <1>6 DEF Credited, Backs
<1> QED BY <1>4, <1>5, <1>7, <1>8, AffAgreeIs

\* Every step keeps what the sums agree in.
LEMMA AffAgreeKeeps ==
    Aff!AffiliateInv /\ Aff!AgreeInv /\ [Aff!AffiliateNext]_Aff!affiliateVars => Aff!AgreeInv'
<1> SUFFICES ASSUME Aff!AffiliateInv, Aff!AgreeInv, [Aff!AffiliateNext]_Aff!affiliateVars PROVE Aff!AgreeInv'
    OBVIOUS
<1>1. ASSUME NEW o \in Seconds, Aff!TrackReferral(o) PROVE Aff!AgreeInv'
    <2>1. UNCHANGED <<v1, v4, v5, v6, v7, v8, v10>>
        BY <1>1 DEF Aff!TrackReferral
    <2> QED BY <2>1, AffAsideAgreed
<1>2. CASE Aff!SetProfileStatus
    <2>1. UNCHANGED <<v1, v4, v5, v6, v7, v8, v10>>
        BY <1>2 DEF Aff!SetProfileStatus
    <2> QED BY <2>1, AffAsideAgreed
<1>3. ASSUME NEW c \in Firsts, Aff!Proceeding(c) PROVE Aff!AgreeInv'
    <2>1. CASE Aff!ApproveNext(c)
        BY <2>1, AffApprovesAgreed, AffApproveAgreed
    <2> QED BY <1>3, <2>1, AffApprovesAgreed, AffLooksAgreed, AffCreatesAgreed, AffStepsAgreed, AffRequestsAgreed,
               AffFindsAgreed, AffWholeAgreed, AffRestAgreed, AffPartAgreed, AffFailsAgreed, AffAllocatedAgreed,
               AffReverseReadsAgreed, AffDebitAgreed, AffReverseAgreed, AffReviewAgreed, AffSettlesAgreed DEF Aff!Proceeding
<1>4. CASE UNCHANGED Aff!affiliateVars
    <2>1. UNCHANGED <<v1, v4, v5, v6, v7, v8, v10>>
        BY <1>4 DEF Aff!affiliateVars
    <2> QED BY <2>1, AffAsideAgreed
<1> QED BY <1>1, <1>2, <1>3, <1>4, AffOpeningAgreed, AffFailsAgreed DEF Aff!AffiliateNext

LEMMA AffSumsAgree == Aff!AffiliateInv /\ Aff!AgreeInv => Aff!CommissionOnce /\ Aff!AccountsAgree
<1> SUFFICES ASSUME Aff!AffiliateInv, Aff!AgreeInv PROVE Aff!CommissionOnce /\ Aff!AccountsAgree
    OBVIOUS
<1>1. Aff!CommissionOnce
    <2> SUFFICES ASSUME NEW b \in Ones, b \notin v10.raced, ~v10.over PROVE Brought(b, v5, v1) <= Earned
        BY AffSumsNow DEF Aff!CommissionOnce
    <2>1. Brought(b, v5, v1) + Splitting(b, v8, v1) <= Earned
        BY AffAgreeIs DEF Once
    <2>2. Splitting(b, v8, v1) \in Nat
        <3> DEFINE C == {c \in Firsts : v8[c].at = "split" /\ v1[v8[c].doc[Aff!Min(v8[c].todo)].order] = b}
        <3>0. \A c \in Firsts : v8[c].left \in Nat
            BY AffStays DEF Aff!CallDoc
        <3> HIDE DEF C
        <3>1. LeftIn(v8, C) \in [Firsts -> Nat]
            BY <3>0 DEF LeftIn
        <3> QED BY <3>1, AffFinite, SumIsNumber DEF Splitting, C
    <2> QED BY <2>1, <2>2, AffBroughtIsNat, AffBounds
<1>2. ASSUME \A c \in Firsts : v8[c] = Aff!Ready, ~v10.over, ~v10.cut, ~v10.crossed
      PROVE  Aff!CreditBacked /\ Aff!PayoutsBacked /\ Aff!CommissionsOfPaid
    <2>0. Aff!Straight
        BY <1>2 DEF Aff!Straight
    <2>1. Credited(v5, v8, v6) /\ Backs(v5, v8, v7)
        BY <2>0, AffAgreeIs
    <2>2. Aff!Ready.op = "none" /\ Aff!Ready.at = "idle"
        BY AffIdle
    <2>3. Aff!Debt = Aff!Of("CREDITED")
        BY <1>2, <2>2 DEF Aff!Debt
    <2>4. Redeemed(v8) = 0
        <3>1. RedeemedIn(v8) \in [Firsts -> Nat] /\ \A c \in Firsts : RedeemedIn(v8)[c] = 0
            BY <1>2, <2>2 DEF RedeemedIn
        <3> QED BY <3>1, AffFinite, SumOfZeros DEF Redeemed
    <2>5. \A p : Requested(p, v8) = 0
        <3> SUFFICES ASSUME NEW p PROVE Requested(p, v8) = 0
            OBVIOUS
        <3> DEFINE C == {c \in Firsts : v8[c].op = "payout" /\ v8[c].payout = p}
        <3>1. \A c \in Firsts : c \notin C
            BY <1>2, <2>2
        <3> HIDE DEF C
        <3>2. LeftIn(v8, C) \in [Firsts -> Nat] /\ \A c \in Firsts : LeftIn(v8, C)[c] = 0
            BY <3>1 DEF LeftIn
        <3> QED BY <3>2, AffFinite, SumOfZeros DEF Requested, C
    <2>6. Aff!CreditBacked
        <3>1. Owed(v5, v8) = v6 /\ v6 \in Nat
            BY <2>1, <2>4, AffStays DEF Credited
        <3> QED BY <2>3, <3>1, AffSumsNow DEF Aff!CreditBacked
    <2>7. Aff!PayoutsBacked
        <3>1. \A p : Reserved(p, v5) \in Nat
            <4> SUFFICES ASSUME NEW p PROVE Reserved(p, v5) \in Nat
                OBVIOUS
            <4> DEFINE S == {d \in Aff!Docs : v5[d].status # "none" /\ v5[d].payout = p}
            <4>1. \A d \in Aff!Docs : v5[d].amount \in Nat
                BY AffStays DEF Aff!Commission
            <4> HIDE DEF S
            <4>2. AmountsIn(v5, S) \in [Aff!Docs -> Nat]
                BY <4>1 DEF AmountsIn
            <4> QED BY <4>2, AffFinite, SumIsNumber DEF Reserved, S
        <3>2. \A p \in Ones : v7[p].status \in {"PENDING", "APPROVED", "PAID"} => v7[p].amount = Reserved(p, v5)
            BY <2>1, <2>5, <3>1 DEF Backs
        <3> QED BY <3>2, AffSumsNow DEF Aff!PayoutsBacked
    <2>8. Aff!CommissionsOfPaid
        BY <1>2, <2>0, AffImplies DEF Aff!PaidAgree
    <2> QED BY <2>6, <2>7, <2>8
<1> QED BY <1>1, <1>2 DEF Aff!AccountsAgree

\* An affiliate's books agree.  A buyer brings no more than one commission, however its invoices are paid,
\* reverted and split; and when no call is changing the account, none having died or crossed another, its
\* credit is what was redeemed, each payout request is backed by the commissions reserved for it and
\* those that count are of paid invoices (affiliate.service.ts:318, :553, :575, :664).
THEOREM BusinessAccountsAgree == BusinessSpec => []AccountsAgree
<1> DEFINE Agreed == scenario = "affiliates" => Aff!AgreeInv
<1>1. BusinessInit => Agreed
    BY AffAgreeBegins DEF BusinessInit, Senders, Routers, Shelves
<1>2. BusinessInv /\ Agreed /\ [BusinessNext]_businessVars => Agreed'
    <2> SUFFICES ASSUME BusinessInv, Agreed, [BusinessNext]_businessVars, scenario' = "affiliates" PROVE Aff!AgreeInv'
        OBVIOUS
    <2>1. CASE BusinessNext
        <3>1. scenario = "affiliates" /\ Aff!AffiliateNext
            BY <2>1, BusinessMoves DEF BusinessNext
        <3> QED BY <3>1, AffAgreeKeeps DEF BusinessInv
    <2>2. CASE UNCHANGED businessVars
        <3>1. scenario = "affiliates"
            BY <2>2 DEF businessVars
        <3>2. UNCHANGED Aff!affiliateVars
            BY <2>2 DEF businessVars, shared, Aff!affiliateVars
        <3> QED BY <3>1, <3>2, AffAgreeKeeps DEF BusinessInv
    <2> QED BY <2>1, <2>2
<1>3. BusinessInv /\ Agreed => AccountsAgree
    BY AffSumsAgree DEF AccountsAgree, BusinessInv
<1> QED BY <1>1, <1>2, <1>3, BusinessBegins, BusinessKeeps, PTL DEF BusinessSpec
=============================================================================
