-------------------------- MODULE Requests_proofs --------------------------
(***************************************************************************)
(* Proofs about what requests are served with: the library of voices, the  *)
(* billing of realtime sessions, the continuations of a WebSocket          *)
(* connection, the search quota, the health of accounts and the prices,    *)
(* for any calls, sessions, turns, providers, requests, cards and bounds.  *)
(***************************************************************************)
EXTENDS CustomVoices, Realtime, ResponseSockets, SearchQuota, AccountHealth, Pricing, Sums

(***************************************************************************)
(* CustomVoices.  The slot has one holder, so the registry is, until a     *)
(* call persists its answer, what the call saw of it (HeldInv); a voice is *)
(* asked about only once its creation was dispatched, and is registered    *)
(* only once that call has ended, so no other source is ever its own.      *)
(***************************************************************************)
CvRecord == [at : {"new", "held", "loaded", "chosen", "answered", "done"},
             kind : CvKinds, voice : CvCalls \cup {CvNobody},
             binding : CvSources \cup {CvNoSource}, source : CvSources \cup {CvNoSource}]
CvHolding == {"held", "loaded", "chosen", "answered"}

\* A call that holds the slot, and what it knows of the registry.
HeldInv(c) ==
    LET q == cvCall[c] IN
    /\ q.at \in CvHolding => cvSlot = c /\ q.voice \in CvCalls /\ (q.kind = "create" <=> q.voice = c)
    /\ q.at \in CvHolding \ {"held"} =>
         IF q.kind = "create" THEN \A v \in DOMAIN cvReg : cvReg[v] = q.binding
         ELSE q.voice \in DOMAIN cvReg /\ q.binding = cvReg[q.voice]
    /\ q.at \in {"chosen", "answered"} => q.source \in CvSources /\ q.binding \in {CvNoSource, q.source}
    /\ q.at = "answered" /\ q.kind = "create" => cvMade[c] = q.source[1]
    /\ q.at \notin {"answered", "done"} => cvMade[c] = CvNobody

\* A voice, from its creation on.
VoiceInv(v) ==
    /\ cvHome[v] \in {CvNobody, cvMade[v]}
    /\ v \in DOMAIN cvReg => cvReg[v][1] = cvMade[v] /\ v \notin cvGone
    /\ v \in DOMAIN cvReg \cup cvGone => cvCall[v].at = "done"
    /\ \A a \in CvAccounts : <<v, a>> \in cvTold => cvMade[v] \in {CvNobody, a} /\ cvCall[v].at \in {"answered", "done"}

LibraryInv ==
    /\ CvTypeOK /\ cvEdits \in 0..CvMaxEdits /\ \A a \in CvAccounts : cvTarget[a] <= cvEdits
    /\ \A c \in CvCalls : HeldInv(c) /\ VoiceInv(c)
    /\ \A v, w \in DOMAIN cvReg : cvReg[v] = cvReg[w]

\* Where a library has one source, that is the source of each voice.
LEMMA OneSource ==
  ASSUME \A v, w \in DOMAIN cvReg : cvReg[v] = cvReg[w]
  PROVE  Cardinality(LibrarySources) <= 1 /\ \A v \in DOMAIN cvReg : LibrarySources = {cvReg[v]}
<1>1. \A v \in DOMAIN cvReg : LibrarySources = {cvReg[v]}
  BY DEF LibrarySources, Range
<1>2. CASE DOMAIN cvReg = {}
  <2>1. LibrarySources = {}
    BY <1>2 DEF LibrarySources, Range
  <2> QED
    BY <1>1, <2>1, FS_EmptySet
<1>3. CASE DOMAIN cvReg # {}
  <2>1. PICK v : LibrarySources = {cvReg[v]}
    BY <1>1, <1>3
  <2>2. Cardinality({cvReg[v]}) = 1
    BY FS_Singleton
  <2> QED
    BY <1>1, <2>1, <2>2
<1> QED
  BY <1>2, <1>3

\* Initially there is neither a call nor a voice.
LEMMA LibraryInit == VoiceInit => LibraryInv
<1> SUFFICES ASSUME VoiceInit PROVE LibraryInv
  OBVIOUS
<1>1. CvNew \in CvRecord /\ CvNew.at = "new"
  BY DEF CvNew, CvRecord, CvKinds
<1>2. DOMAIN cvReg = {} /\ Range(cvReg) = {}
  BY DEF VoiceInit, Range
<1>3. CvTypeOK
  BY <1>1, <1>2, CvAssumption DEF VoiceInit, CvTypeOK, CvRecord
<1>4. \A c \in CvCalls : HeldInv(c) /\ VoiceInv(c)
  BY <1>1, <1>2 DEF VoiceInit, HeldInv, VoiceInv, CvHolding
<1> QED
  BY <1>2, <1>3, <1>4, CvAssumption DEF VoiceInit, LibraryInv

\* The calls that do not hold the slot.
LEMMA OthersIdle ==
  ASSUME LibraryInv, NEW c \in CvCalls, cvCall[c].at \in CvHolding
  PROVE  cvSlot = c /\ \A x \in CvCalls \ {c} : cvCall[x].at \in {"new", "done"}
<1>1. \A x \in CvCalls : cvCall[x].at \in CvHolding => cvSlot = x
  BY DEF LibraryInv, HeldInv
<1>2. \A x \in CvCalls : cvCall[x].at \in CvHolding \cup {"new", "done"}
  BY DEF LibraryInv, CvTypeOK, CvHolding
<1> QED
  BY <1>1, <1>2

\* A call that does not hold the slot and is not written.
LEMMA IdleKept ==
  ASSUME NEW x, HeldInv(x), cvCall[x].at \in {"new", "done"}, cvCall'[x] = cvCall[x], cvMade'[x] = cvMade[x]
  PROVE  HeldInv(x)'
  BY DEF HeldInv, CvHolding

\* A voice that is not written, whatever its call does before it is answered.
LEMMA VoiceKept ==
  ASSUME NEW v, VoiceInv(v), cvHome'[v] = cvHome[v], cvMade'[v] = cvMade[v],
         v \in DOMAIN cvReg' => v \in DOMAIN cvReg /\ cvReg'[v] = cvReg[v],
         v \in cvGone' => v \in cvGone,
         cvCall[v].at \in {"answered", "done"} => cvCall'[v].at \in {"done", cvCall[v].at},
         \A a \in CvAccounts : <<v, a>> \in cvTold' => <<v, a>> \in cvTold
  PROVE  VoiceInv(v)'
  BY DEF VoiceInv

\* A call that ends.
LEMMA CallEnds ==
  ASSUME LibraryInv, NEW c \in CvCalls, cvCall[c].at # "done", CvEnds(c)
  PROVE  /\ cvCall'[c].at = "done" /\ cvCall' \in [CvCalls -> CvRecord] /\ cvSlot' \in CvCalls \cup {CvNobody}
         /\ \A x \in CvCalls \ {c} : cvCall'[x] = cvCall[x]
<1>1. CvDone \in CvRecord /\ CvDone.at = "done"
  BY DEF CvDone, CvNew, CvRecord, CvKinds
<1> QED
  BY <1>1 DEF CvEnds, LibraryInv, CvTypeOK, CvRecord

\* A step that writes neither the registry nor a voice.
LEMMA QuietCall ==
  ASSUME LibraryInv, NEW c \in CvCalls, UNCHANGED <<cvReg, cvProvider, cvGone, cvRest>>,
         cvSlot' \in CvCalls \cup {CvNobody}, cvCall' \in [CvCalls -> CvRecord], HeldInv(c)',
         cvCall[c].at \in {"answered", "done"} => cvCall'[c].at = "done",
         \A x \in CvCalls \ {c} : cvCall[x].at \in {"new", "done"} /\ cvCall'[x] = cvCall[x]
  PROVE  LibraryInv'
<1>1. UNCHANGED <<cvHome, cvMade, cvTold, cvTarget, cvSession, cvEdits, cvReg, cvGone>>
  BY DEF cvProvider, cvRest
<1>2. CvTypeOK'
  BY <1>1 DEF LibraryInv, CvTypeOK, CvRecord
<1>3. ASSUME NEW x \in CvCalls PROVE HeldInv(x)'
  BY <1>1, IdleKept DEF LibraryInv
<1>4. ASSUME NEW x \in CvCalls PROVE VoiceInv(x)'
  BY <1>1, VoiceKept DEF LibraryInv
<1> QED
  BY <1>1, <1>2, <1>3, <1>4 DEF LibraryInv

\* The end of a call that has not told the provider anything since.
LEMMA QuietEnd ==
  ASSUME LibraryInv, NEW c \in CvCalls, cvCall[c].at \in CvHolding, CvEnds(c),
         UNCHANGED <<cvReg, cvProvider, cvGone, cvRest>>
  PROVE  LibraryInv'
<1>1. /\ cvCall'[c].at = "done" /\ cvCall' \in [CvCalls -> CvRecord] /\ cvSlot' \in CvCalls \cup {CvNobody}
      /\ \A x \in CvCalls \ {c} : cvCall'[x] = cvCall[x]
  BY CallEnds DEF CvHolding
<1>2. HeldInv(c)'
  BY <1>1 DEF HeldInv, CvHolding
<1> QED
  BY <1>1, <1>2, OthersIdle, QuietCall

\* The slot is taken, or the call refused.
LEMMA BeginVoiceStep ==
  ASSUME LibraryInv, NEW c \in CvCalls, NEW kind \in CvKinds, NEW v \in CvCalls, BeginVoice(c, kind, v)
  PROVE  LibraryInv'
<1>1. cvCall[c].at = "new" /\ (kind = "create" <=> v = c) /\ UNCHANGED <<cvReg, cvProvider, cvGone, cvRest>>
  BY DEF BeginVoice
<1>2. cvCall \in [CvCalls -> CvRecord] /\ cvMade[c] = CvNobody /\ cvMade' = cvMade
  BY <1>1 DEF LibraryInv, CvTypeOK, CvRecord, HeldInv, cvProvider
<1>3. CASE cvSlot = CvNobody
  <2> DEFINE n == [[[CvNew EXCEPT !.at = "held"] EXCEPT !.kind = kind] EXCEPT !.voice = v]
  <2>1. cvSlot' = c /\ cvCall' = [cvCall EXCEPT ![c] = n]
    BY <1>3 DEF BeginVoice
  <2>2. n \in CvRecord /\ n.at = "held" /\ n.kind = kind /\ n.voice = v
    BY DEF CvNew, CvRecord, CvKinds
  <2> HIDE DEF n
  <2>3. \A x \in CvCalls : cvCall[x].at \notin CvHolding
    BY <1>3, CvAssumption DEF LibraryInv, HeldInv
  <2>4. \A x \in CvCalls \ {c} : cvCall[x].at \in {"new", "done"} /\ cvCall'[x] = cvCall[x]
    BY <1>2, <2>1, <2>3 DEF CvRecord, CvHolding
  <2>5. cvCall' \in [CvCalls -> CvRecord] /\ cvCall'[c] = n
    BY <1>2, <2>1, <2>2
  <2>6. HeldInv(c)'
    BY <1>1, <1>2, <2>1, <2>2, <2>5 DEF HeldInv, CvHolding
  <2> QED
    BY <1>1, <2>1, <2>4, <2>5, <2>6, QuietCall
<1>4. CASE cvSlot # CvNobody
  <2>1. cvCall' = [cvCall EXCEPT ![c] = CvDone] /\ cvSlot' = cvSlot
    BY <1>4 DEF BeginVoice
  <2>2. CvDone \in CvRecord /\ CvDone.at = "done"
    BY DEF CvDone, CvNew, CvRecord, CvKinds
  <2>3. cvCall' \in [CvCalls -> CvRecord] /\ cvCall'[c] = CvDone /\ \A x \in CvCalls \ {c} : cvCall'[x] = cvCall[x]
    BY <1>2, <2>1, <2>2
  <2>4. UNCHANGED <<cvHome, cvMade, cvTold, cvTarget, cvSession, cvEdits, cvReg, cvGone>>
    BY <1>1 DEF cvProvider, cvRest
  <2>5. CvTypeOK'
    BY <2>1, <2>3, <2>4 DEF LibraryInv, CvTypeOK, CvRecord
  <2>6. ASSUME NEW x \in CvCalls PROVE HeldInv(x)' /\ VoiceInv(x)'
    <3>1. HeldInv(x) /\ VoiceInv(x)
      BY DEF LibraryInv
    <3>2. HeldInv(x)'
      <4>1. CASE x = c
        BY <2>2, <2>3, <4>1 DEF HeldInv, CvHolding
      <4>2. CASE x # c
        <5>1. cvCall'[x] = cvCall[x]
          BY <2>3, <4>2
        <5> QED
          BY <2>1, <2>4, <3>1, <5>1 DEF HeldInv
      <4> QED
        BY <4>1, <4>2
    <3>3. cvCall[x].at \in {"answered", "done"} => cvCall'[x].at \in {"done", cvCall[x].at}
      BY <1>1, <2>3
    <3> QED
      BY <2>4, <3>1, <3>2, <3>3, VoiceKept
  <2> QED
    BY <2>4, <2>5, <2>6 DEF LibraryInv
<1> QED
  BY <1>3, <1>4

\* What a call has read of the registry.
LEMMA LoadVoiceStep ==
  ASSUME LibraryInv, NEW c \in CvCalls, LoadVoice(c)
  PROVE  LibraryInv'
<1> PICK q : q = cvCall[c]
  OBVIOUS
<1>1. q.at = "held" /\ q \in CvRecord /\ cvCall \in [CvCalls -> CvRecord] /\ HeldInv(c) /\ cvSlot \in CvCalls \cup {CvNobody}
  BY DEF LoadVoice, LibraryInv, CvTypeOK, CvRecord
<1>2. UNCHANGED <<cvReg, cvProvider, cvGone, cvRest>>
  BY DEF LoadVoice
<1>3. CASE CvEnds(c)
  BY <1>1, <1>2, <1>3, QuietEnd DEF CvHolding
<1>4. CASE ~CvEnds(c)
  <2> PICK b : b = VoiceBinding(c)
    OBVIOUS
  <2>1. /\ IF q.kind = "create" THEN Cardinality(LibrarySources) <= 1 ELSE q.voice \in DOMAIN cvReg
        /\ cvCall' = [cvCall EXCEPT ![c].at = "loaded", ![c].binding = b] /\ cvSlot' = cvSlot
    BY <1>4 DEF LoadVoice
  <2>2. /\ b \in CvSources \cup {CvNoSource}
        /\ IF q.kind = "create" THEN \A v \in DOMAIN cvReg : cvReg[v] = b ELSE b = cvReg[q.voice]
    <3>1. Range(cvReg) \subseteq CvSources /\ \A v \in DOMAIN cvReg : cvReg[v] \in CvSources
      BY DEF LibraryInv, CvTypeOK, Range
    <3>2. CASE q.kind # "create"
      BY <2>1, <3>1, <3>2 DEF VoiceBinding
    <3>3. CASE q.kind = "create" /\ LibrarySources = {}
      <4>1. DOMAIN cvReg = {}
        BY <3>3 DEF LibrarySources, Range
      <4> QED
        BY <3>3, <4>1 DEF VoiceBinding
    <3>4. CASE q.kind = "create" /\ LibrarySources # {}
      <4>1. \A v \in DOMAIN cvReg : LibrarySources = {cvReg[v]}
        BY OneSource DEF LibraryInv
      <4>2. b \in LibrarySources
        BY <3>4 DEF VoiceBinding
      <4> QED
        BY <3>1, <3>4, <4>1, <4>2 DEF LibrarySources
    <3> QED
      BY <3>2, <3>3, <3>4
  <2> DEFINE n == [[q EXCEPT !.at = "loaded"] EXCEPT !.binding = b]
  <2>3. cvCall' = [cvCall EXCEPT ![c] = n]
    BY <2>1, <1>1
  <2>4. n \in CvRecord /\ n.at = "loaded" /\ n.kind = q.kind /\ n.voice = q.voice /\ n.binding = b
    BY <1>1, <2>2 DEF CvRecord
  <2> HIDE DEF n
  <2>5. cvCall' \in [CvCalls -> CvRecord] /\ cvCall'[c] = n /\ \A x \in CvCalls \ {c} : cvCall'[x] = cvCall[x]
    BY <1>1, <2>3, <2>4
  <2>6. HeldInv(c)'
    <3>1. cvMade' = cvMade /\ cvReg' = cvReg
      BY <1>2 DEF cvProvider
    <3> QED
      BY <1>1, <2>1, <2>2, <2>4, <2>5, <3>1 DEF HeldInv, CvHolding
  <2> QED
    BY <1>1, <1>2, <2>1, <2>5, <2>6, OthersIdle, QuietCall DEF CvHolding
<1> QED
  BY <1>3, <1>4

\* The account of a call is the one of its library, with the target it had.
LEMMA ChooseVoiceStep ==
  ASSUME LibraryInv, NEW c \in CvCalls, ChooseVoiceAccount(c)
  PROVE  LibraryInv'
<1> PICK q : q = cvCall[c]
  OBVIOUS
<1>1. q.at = "loaded" /\ q \in CvRecord /\ cvCall \in [CvCalls -> CvRecord] /\ HeldInv(c) /\ cvSlot \in CvCalls \cup {CvNobody}
  BY DEF ChooseVoiceAccount, LibraryInv, CvTypeOK, CvRecord
<1>2. UNCHANGED <<cvReg, cvProvider, cvGone, cvRest>>
  BY DEF ChooseVoiceAccount
<1>3. CASE CvEnds(c)
  BY <1>1, <1>2, <1>3, QuietEnd DEF CvHolding
<1>4. CASE ~CvEnds(c)
  <2>1. PICK a \in CvAccounts : /\ MayServe(q.binding, a) /\ cvSlot' = cvSlot
                                /\ cvCall' = [cvCall EXCEPT ![c].at = "chosen", ![c].source = <<a, cvTarget[a]>>]
    BY <1>4 DEF ChooseVoiceAccount
  <2> PICK s : s = <<a, cvTarget[a]>>
    OBVIOUS
  <2>2. s \in CvSources /\ q.binding \in {CvNoSource, s}
    BY <2>1 DEF MayServe, CvSources, LibraryInv, CvTypeOK
  <2> DEFINE n == [[q EXCEPT !.at = "chosen"] EXCEPT !.source = s]
  <2>3. cvCall' = [cvCall EXCEPT ![c] = n]
    BY <2>1, <1>1
  <2>4. n \in CvRecord /\ n.at = "chosen" /\ n.kind = q.kind /\ n.voice = q.voice /\ n.binding = q.binding /\ n.source = s
    BY <1>1, <2>2 DEF CvRecord
  <2> HIDE DEF n
  <2>5. cvCall' \in [CvCalls -> CvRecord] /\ cvCall'[c] = n /\ \A x \in CvCalls \ {c} : cvCall'[x] = cvCall[x]
    BY <1>1, <2>3, <2>4
  <2>6. HeldInv(c)'
    <3>1. cvMade' = cvMade /\ cvReg' = cvReg
      BY <1>2 DEF cvProvider
    <3> QED
      BY <1>1, <2>1, <2>2, <2>4, <2>5, <3>1 DEF HeldInv, CvHolding
  <2> QED
    BY <1>1, <1>2, <2>1, <2>5, <2>6, OthersIdle, QuietCall DEF CvHolding
<1> QED
  BY <1>3, <1>4

\* No source is without an account.
LEMMA SourcesNamed == \A s \in CvSources : s # CvNoSource /\ s[1] \in CvAccounts
  BY CvAssumption DEF CvSources, CvNoSource

\* The provider is asked about a voice it has made, or makes now.
LEMMA DispatchVoiceStep ==
  ASSUME LibraryInv, NEW c \in CvCalls, DispatchVoice(c)
  PROVE  LibraryInv'
<1> PICK q : q = cvCall[c]
  OBVIOUS
<1> PICK v, a, made : v = q.voice /\ a = q.source[1] /\ made = (q.kind = "create")
  OBVIOUS
<1>1. /\ q.at = "chosen" /\ q \in CvRecord /\ cvCall \in [CvCalls -> CvRecord] /\ HeldInv(c)
      /\ cvSlot \in CvCalls \cup {CvNobody}
      /\ cvHome \in [CvCalls -> CvAccounts \cup {CvNobody}] /\ cvMade \in [CvCalls -> CvAccounts \cup {CvNobody}]
      /\ \A x \in CvCalls : VoiceInv(x) /\ HeldInv(x)
  BY DEF DispatchVoice, LibraryInv, CvTypeOK, CvRecord
<1>2. UNCHANGED <<cvReg, cvGone, cvRest>> /\ cvTold' = cvTold \cup {<<v, a>>}
  BY DEF DispatchVoice
<1>3. v \in CvCalls /\ a \in CvAccounts /\ a # CvNobody /\ (made <=> v = c)
  BY <1>1, CvAssumption DEF HeldInv, CvHolding, CvSources
<1>4. IF made THEN cvMade[v] = CvNobody /\ cvHome[v] = CvNobody
                   /\ (\A b \in CvAccounts : <<v, b>> \notin cvTold) /\ v \notin DOMAIN cvReg \cup cvGone
      ELSE v # c /\ cvMade[v] = a /\ cvCall[v].at = "done"
  <2>1. CASE made
    BY <1>1, <1>3, <2>1 DEF HeldInv, VoiceInv
  <2>2. CASE ~made
    <3>1. v \in DOMAIN cvReg /\ q.binding = cvReg[v] /\ q.binding \in {CvNoSource, q.source}
      BY <1>1, <2>2 DEF HeldInv, CvHolding
    <3>2. cvReg[v] # CvNoSource
      <4>1. \A x \in DOMAIN cvReg : cvReg[x] \in CvSources
        BY DEF LibraryInv, CvTypeOK, Range
      <4> QED
        BY <3>1, <4>1, SourcesNamed
    <3>3. cvReg[v][1] = a
      BY <3>1, <3>2
    <3> QED
      BY <1>1, <1>3, <2>2, <3>1, <3>3 DEF VoiceInv
  <2> QED
    BY <2>1, <2>2
<1>5. /\ cvHome' \in [CvCalls -> CvAccounts \cup {CvNobody}]
      /\ \A x \in CvCalls \ {v} : cvHome'[x] = cvHome[x]
      /\ cvHome'[v] \in {cvHome[v], CvNobody} \/ (made /\ cvHome'[v] = a)
      /\ \/ CvEnds(c)
         \/ /\ cvCall' = [cvCall EXCEPT ![c].at = "answered"] /\ cvSlot' = cvSlot
            /\ made => cvHome'[v] = a
  BY <1>1, <1>3 DEF DispatchVoice
<1>6. /\ cvMade' = [cvMade EXCEPT ![v] = IF cvHome'[v] # CvNobody THEN cvHome'[v] ELSE @]
      /\ \A x \in CvCalls \ {v} : cvMade'[x] = cvMade[x]
  BY <1>1 DEF DispatchVoice
<1>7. /\ cvMade' \in [CvCalls -> CvAccounts \cup {CvNobody}] /\ cvMade'[v] \in {CvNobody, a}
      /\ cvHome'[v] \in {CvNobody, cvMade'[v]} /\ (cvHome'[v] = a => cvMade'[v] = a) /\ (~made => cvMade'[v] = cvMade[v])
  <2>1. cvHome[v] \in {CvNobody, cvMade[v]}
    BY <1>1, <1>3 DEF VoiceInv
  <2>2. cvMade'[v] = IF cvHome'[v] # CvNobody THEN cvHome'[v] ELSE cvMade[v]
    BY <1>1, <1>3, <1>6
  <2>3. cvHome'[v] \in CvAccounts \cup {CvNobody} /\ cvMade' \in [CvCalls -> CvAccounts \cup {CvNobody}]
    BY <1>1, <1>3, <1>5, <1>6
  <2> QED
    BY <1>3, <1>4, <1>5, <2>1, <2>2, <2>3
<1>8. /\ cvCall' \in [CvCalls -> CvRecord] /\ cvSlot' \in CvCalls \cup {CvNobody}
      /\ \A x \in CvCalls \ {c} : cvCall'[x] = cvCall[x] /\ cvCall[x].at \in {"new", "done"}
      /\ cvCall'[c].at \in {"answered", "done"} /\ HeldInv(c)'
  <2>1. \A x \in CvCalls \ {c} : cvCall[x].at \in {"new", "done"}
    BY <1>1, OthersIdle DEF CvHolding
  <2>2. CASE CvEnds(c)
    <3>1. /\ cvCall'[c].at = "done" /\ cvCall' \in [CvCalls -> CvRecord] /\ cvSlot' \in CvCalls \cup {CvNobody}
          /\ \A x \in CvCalls \ {c} : cvCall'[x] = cvCall[x]
      BY <1>1, <2>2, CallEnds
    <3>2. HeldInv(c)'
      BY <3>1 DEF HeldInv, CvHolding
    <3> QED
      BY <2>1, <3>1, <3>2
  <2>3. CASE ~CvEnds(c)
    <3> DEFINE n == [q EXCEPT !.at = "answered"]
    <3>1. cvCall' = [cvCall EXCEPT ![c] = n] /\ cvSlot' = cvSlot /\ (made => cvHome'[v] = a)
      BY <1>1, <1>5, <2>3
    <3>2. n \in CvRecord /\ n.at = "answered" /\ n.kind = q.kind /\ n.voice = v /\ n.binding = q.binding /\ n.source = q.source
      BY <1>1 DEF CvRecord
    <3> HIDE DEF n
    <3>3. cvCall' \in [CvCalls -> CvRecord] /\ cvCall'[c] = n /\ \A x \in CvCalls \ {c} : cvCall'[x] = cvCall[x]
      BY <1>1, <3>1, <3>2
    <3>4. HeldInv(c)'
      BY <1>1, <1>2, <1>3, <1>7, <3>1, <3>2, <3>3 DEF HeldInv, CvHolding
    <3> QED
      BY <1>1, <2>1, <3>1, <3>2, <3>3, <3>4
  <2> QED
    BY <2>2, <2>3
<1>9. CvTypeOK'
  <2>1. cvTold' \subseteq CvCalls \X CvAccounts
    BY <1>2, <1>3 DEF LibraryInv, CvTypeOK
  <2> QED
    BY <1>2, <1>5, <1>7, <1>8, <2>1 DEF LibraryInv, CvTypeOK, CvRecord, cvRest
<1>10. ASSUME NEW x \in CvCalls PROVE HeldInv(x)'
  <2>1. CASE x # c
    <3>1. cvMade'[x] = cvMade[x]
      BY <1>3, <1>6, <1>7, <2>1
    <3> QED
      BY <1>1, <1>8, <2>1, <3>1, IdleKept
  <2> QED
    BY <1>8, <2>1
<1>11. ASSUME NEW x \in CvCalls PROVE VoiceInv(x)'
  <2>1. CASE x # v
    BY <1>1, <1>2, <1>5, <1>6, <1>8, <2>1, VoiceKept
  <2>2. CASE x = v
    <3>1. CASE made
      BY <1>2, <1>3, <1>4, <1>7, <1>8, <2>2, <3>1 DEF VoiceInv
    <3>2. CASE ~made
      BY <1>1, <1>2, <1>3, <1>4, <1>7, <1>8, <2>2, <3>2 DEF VoiceInv
    <3> QED
      BY <3>1, <3>2
  <2> QED
    BY <2>1, <2>2
<1> QED
  BY <1>2, <1>9, <1>10, <1>11 DEF LibraryInv, cvRest

\* The registry follows the answer.
LEMMA PersistVoiceStep ==
  ASSUME LibraryInv, NEW c \in CvCalls, PersistVoice(c)
  PROVE  LibraryInv'
<1> PICK q : q = cvCall[c]
  OBVIOUS
<1> PICK v, a, made : v = q.voice /\ a = q.source[1] /\ made = (q.kind = "create")
  OBVIOUS
<1>1. /\ q.at = "answered" /\ q \in CvRecord /\ HeldInv(c) /\ CvEnds(c)
      /\ \A x \in CvCalls : VoiceInv(x) /\ HeldInv(x)
  BY DEF PersistVoice, LibraryInv, CvTypeOK, CvRecord
<1>2. UNCHANGED <<cvHome, cvMade, cvTold, cvTarget, cvSession, cvEdits>>
  BY DEF PersistVoice, cvProvider, cvRest
<1>3. v \in CvCalls /\ (made <=> v = c) /\ q.source \in CvSources
  BY <1>1 DEF HeldInv, CvHolding
<1>4. /\ cvCall'[c].at = "done" /\ cvCall' \in [CvCalls -> CvRecord] /\ cvSlot' \in CvCalls \cup {CvNobody}
      /\ \A x \in CvCalls \ {c} : cvCall'[x] = cvCall[x] /\ cvCall[x].at \in {"new", "done"}
  BY <1>1, CallEnds, OthersIdle DEF CvHolding
<1>5. DOMAIN cvReg \subseteq CvCalls /\ \A x \in DOMAIN cvReg : cvReg[x] \in CvSources
  BY DEF LibraryInv, CvTypeOK, Range
<1> PICK s : s = IF made THEN q.source ELSE q.binding
  OBVIOUS
<1>6. /\ s \in CvSources /\ s[1] = cvMade[v] /\ \A x \in DOMAIN cvReg : cvReg[x] = s
      /\ made \/ v \in DOMAIN cvReg
  <2>1. CASE made
    <3>1. \A x \in DOMAIN cvReg : cvReg[x] = q.binding /\ q.binding # CvNoSource
      <4>1. \A x \in DOMAIN cvReg : cvReg[x] = q.binding
        BY <1>1, <2>1 DEF HeldInv, CvHolding
      <4> QED
        BY <1>5, <4>1, SourcesNamed
    <3> QED
      BY <1>1, <1>3, <2>1, <3>1 DEF HeldInv
  <2>2. CASE ~made
    <3>1. v \in DOMAIN cvReg /\ s = cvReg[v]
      BY <1>1, <2>2 DEF HeldInv, CvHolding
    <3>2. \A x \in DOMAIN cvReg : cvReg[x] = cvReg[v]
      BY <3>1 DEF LibraryInv
    <3> QED
      BY <1>1, <1>3, <1>5, <3>1, <3>2 DEF VoiceInv
  <2> QED
    BY <2>1, <2>2
<1>7. /\ DOMAIN cvReg' \subseteq CvCalls /\ \A x \in DOMAIN cvReg' : cvReg'[x] = s
      /\ \A x \in CvCalls \ {v} : x \in DOMAIN cvReg' <=> x \in DOMAIN cvReg
      /\ q.kind = "delete" => cvReg' = cvReg \/ v \notin DOMAIN cvReg'
      /\ v \in DOMAIN cvReg' => made \/ v \in DOMAIN cvReg
  <2>1. cvReg' \in {cvReg, Registered(c)}
    BY DEF PersistVoice
  <2>2. CASE q.kind = "delete"
    <3>1. Registered(c) = Restrict(cvReg, DOMAIN cvReg \ {v})
      BY <2>2 DEF Registered
    <3> QED
      BY <1>5, <1>6, <2>1, <2>2, <3>1 DEF Restrict
  <2>3. CASE q.kind = "audio"
    <3>1. Registered(c) = cvReg
      BY <2>3 DEF Registered
    <3> QED
      BY <1>5, <1>6, <2>1, <2>3, <3>1
  <2>4. CASE q.kind \notin {"delete", "audio"}
    <3>1. Registered(c) = [w \in DOMAIN cvReg \cup {v} |-> IF w # v THEN cvReg[w] ELSE s]
      BY <2>4 DEF Registered
    <3> QED
      BY <1>3, <1>5, <1>6, <2>1, <2>4, <3>1
  <2> QED
    BY <2>2, <2>3, <2>4
<1>8. /\ cvGone' \subseteq cvGone \cup {v} /\ cvGone \subseteq cvGone'
      /\ v \in cvGone' => v \in cvGone \/ (~made /\ v \notin DOMAIN cvReg')
  <2>1. cvGone' = cvGone \/ (cvGone' = cvGone \cup {v} /\ q.kind = "delete" /\ cvReg' = Registered(c))
    BY DEF PersistVoice
  <2>2. q.kind = "delete" => ~made /\ v \notin DOMAIN Registered(c)
    BY DEF Registered, Restrict
  <2> QED
    BY <2>1, <2>2
<1>9. CvTypeOK'
  BY <1>2, <1>3, <1>4, <1>6, <1>7, <1>8 DEF LibraryInv, CvTypeOK, CvRecord, Range
<1>10. ASSUME NEW x \in CvCalls PROVE HeldInv(x)'
  <2>1. CASE x = c
    BY <1>4, <2>1 DEF HeldInv, CvHolding
  <2>2. CASE x # c
    BY <1>1, <1>2, <1>4, <2>2, IdleKept
  <2> QED
    BY <2>1, <2>2
<1>11. ASSUME NEW x \in CvCalls PROVE VoiceInv(x)'
  <2>1. cvCall[x].at \in {"answered", "done"} => cvCall'[x].at = "done"
    BY <1>4
  <2>2. CASE x # v
    <3>1. x \in DOMAIN cvReg' => x \in DOMAIN cvReg /\ cvReg'[x] = cvReg[x]
      BY <1>6, <1>7, <2>2
    <3>2. x \in cvGone' => x \in cvGone
      BY <1>8, <2>2
    <3> QED
      BY <1>1, <1>2, <2>1, <3>1, <3>2, VoiceKept
  <2>3. CASE x = v
    <3>1. cvCall'[v].at = "done"
      BY <1>1, <1>3, <1>4, <1>6 DEF VoiceInv
    <3>2. v \in cvGone /\ v \in DOMAIN cvReg' => FALSE
      BY <1>1, <1>3, <1>7 DEF VoiceInv
    <3> QED
      BY <1>1, <1>2, <1>3, <1>6, <1>7, <1>8, <2>3, <3>1, <3>2 DEF VoiceInv
  <2> QED
    BY <2>2, <2>3
<1> QED
  BY <1>2, <1>7, <1>9, <1>10, <1>11 DEF LibraryInv

\* Sessions, edits and crashes.
LEMMA SessionVoiceStep ==
  ASSUME LibraryInv, OpenVoiceSession \/ (\E v \in CvCalls : NameVoice(v)) \/ \E a \in CvAccounts : RotateTarget(a)
  PROVE  LibraryInv'
<1>1. UNCHANGED <<cvReg, cvHome, cvMade, cvSlot, cvCall, cvGone>>
  BY DEF OpenVoiceSession, NameVoice, RotateTarget, cvProvider
<1>2. CASE OpenVoiceSession
  <2>1. UNCHANGED <<cvTarget, cvTold, cvEdits>> /\ cvSession' \in CvSources
    BY <1>2 DEF OpenVoiceSession, cvProvider, LibraryInv, CvTypeOK, CvSources
  <2> QED
    BY <1>1, <2>1 DEF LibraryInv, CvTypeOK, HeldInv, VoiceInv
<1>3. CASE \E v \in CvCalls : NameVoice(v)
  <2>1. PICK v \in CvCalls : NameVoice(v)
    BY <1>3
  <2>2. UNCHANGED <<cvTarget, cvEdits>>
    BY <2>1 DEF NameVoice
  <2>3. CASE v \in DOMAIN cvReg /\ cvReg[v] = cvSession
    <3>1. cvTold' = cvTold \cup {<<v, cvSession[1]>>} /\ cvSession' = cvSession
      BY <2>1, <2>3 DEF NameVoice
    <3>2. cvSession[1] \in CvAccounts
      BY <2>1, <2>3 DEF NameVoice, LibraryInv, CvTypeOK, CvSources
    <3>3. ASSUME NEW x \in CvCalls PROVE VoiceInv(x)'
      BY <1>1, <2>3, <3>1, <3>2 DEF LibraryInv, VoiceInv
    <3>4. \A x \in CvCalls : HeldInv(x)'
      BY <1>1 DEF LibraryInv, HeldInv
    <3>5. CvTypeOK'
      BY <1>1, <2>1, <2>2, <3>1, <3>2 DEF LibraryInv, CvTypeOK
    <3> QED
      BY <1>1, <2>2, <3>3, <3>4, <3>5 DEF LibraryInv
  <2>4. CASE ~(v \in DOMAIN cvReg /\ cvReg[v] = cvSession)
    <3>1. cvTold' = cvTold /\ cvSession' = CvNoSource
      BY <2>1, <2>4 DEF NameVoice
    <3> QED
      BY <1>1, <2>2, <3>1 DEF LibraryInv, CvTypeOK, HeldInv, VoiceInv
  <2> QED
    BY <2>3, <2>4
<1>4. CASE \E a \in CvAccounts : RotateTarget(a)
  <2>1. PICK a \in CvAccounts : RotateTarget(a)
    BY <1>4
  <2>2. UNCHANGED <<cvTold, cvSession>> /\ cvEdits' = cvEdits + 1 /\ cvEdits < CvMaxEdits
        /\ cvTarget' = [cvTarget EXCEPT ![a] = @ + 1]
    BY <2>1 DEF RotateTarget, cvProvider
  <2>3. /\ cvEdits' \in 0..CvMaxEdits /\ \A x \in CvAccounts : cvTarget'[x] <= cvEdits'
        /\ cvTarget' \in [CvAccounts -> 0..CvMaxEdits]
    BY <2>2, CvAssumption DEF LibraryInv, CvTypeOK
  <2>4. \A x \in CvCalls : HeldInv(x)' /\ VoiceInv(x)'
    BY <1>1, <2>2 DEF LibraryInv, HeldInv, VoiceInv
  <2> QED
    BY <1>1, <2>2, <2>3, <2>4 DEF LibraryInv, CvTypeOK
<1> QED
  BY <1>2, <1>3, <1>4

\* A crash ends every call that has begun.
LEMMA CrashVoiceStep ==
  ASSUME LibraryInv, VoiceCrash
  PROVE  LibraryInv'
<1>1. UNCHANGED <<cvTarget, cvReg, cvHome, cvMade, cvTold, cvGone, cvEdits>> /\ cvSlot' = CvNobody /\ cvSession' = CvNoSource
      /\ cvCall' = [c \in CvCalls |-> IF cvCall[c].at = "new" THEN cvCall[c] ELSE CvDone]
  BY DEF VoiceCrash, cvProvider
<1>2. CvDone \in CvRecord /\ CvDone.at = "done"
  BY DEF CvDone, CvNew, CvRecord, CvKinds
<1>3. cvCall' \in [CvCalls -> CvRecord]
  BY <1>1, <1>2 DEF LibraryInv, CvTypeOK, CvRecord
<1>4. CvTypeOK'
  BY <1>1, <1>3 DEF LibraryInv, CvTypeOK, CvRecord
<1>5. ASSUME NEW x \in CvCalls PROVE HeldInv(x)' /\ VoiceInv(x)'
  <2>1. HeldInv(x) /\ VoiceInv(x)
    BY DEF LibraryInv
  <2>2. cvCall'[x].at = IF cvCall[x].at = "new" THEN "new" ELSE "done"
    BY <1>1, <1>2
  <2>3. VoiceInv(x)'
    BY <1>1, <2>1, <2>2, VoiceKept
  <2>4. HeldInv(x)'
    BY <1>1, <2>1, <2>2 DEF HeldInv, CvHolding
  <2> QED
    BY <2>3, <2>4
<1> QED
  BY <1>1, <1>4, <1>5 DEF LibraryInv

\* Every step keeps the library.
LEMMA LibraryStep == LibraryInv /\ [VoiceNext]_cvVars => LibraryInv'
<1> SUFFICES ASSUME LibraryInv, [VoiceNext]_cvVars PROVE LibraryInv'
  OBVIOUS
<1>1. CASE \E c \in CvCalls : VoiceStep(c)
  BY <1>1, LoadVoiceStep, ChooseVoiceStep, DispatchVoiceStep, PersistVoiceStep DEF VoiceStep
<1>2. CASE \E c \in CvCalls, kind \in CvKinds, v \in CvCalls : BeginVoice(c, kind, v)
  BY <1>2, BeginVoiceStep
<1>3. CASE OpenVoiceSession \/ (\E v \in CvCalls : NameVoice(v)) \/ \E a \in CvAccounts : RotateTarget(a)
  BY <1>3, SessionVoiceStep
<1>4. CASE VoiceCrash
  BY <1>4, CrashVoiceStep
<1>5. CASE UNCHANGED cvVars
  BY <1>5 DEF cvVars, LibraryInv, CvTypeOK, HeldInv, VoiceInv
<1> QED
  BY <1>1, <1>2, <1>3, <1>4, <1>5 DEF VoiceNext

\* For any calls, accounts, edits and failures: a library is at one account, which alone is
\* asked about its voices, and a deleted voice is not listed again (custom_voices.go,
\* realtimeVoices in grok_realtime.go).
THEOREM LibraryStaysFaithful == VoiceSpec => []LibraryFaithful
<1>1. LibraryInv => LibraryFaithful
  <2> SUFFICES ASSUME LibraryInv PROVE LibraryFaithful
    OBVIOUS
  <2>1. CvTypeOK /\ LibraryOneSource
    BY OneSource DEF LibraryInv, LibraryOneSource
  <2>2. DeletedVoiceStaysDeleted
    BY DEF LibraryInv, CvTypeOK, VoiceInv, DeletedVoiceStaysDeleted
  <2>3. VoicesStayHome
    BY DEF LibraryInv, CvTypeOK, VoiceInv, VoicesStayHome
  <2> QED
    BY <2>1, <2>2, <2>3 DEF LibraryFaithful
<1> QED
  BY LibraryInit, LibraryStep, <1>1, PTL DEF VoiceSpec

(***************************************************************************)
(* Realtime.  Until a session freezes its receipt nothing has been read    *)
(* of its snapshot; from then on all that Redis, the books and the         *)
(* settlements in progress hold for it is one duration (AgreeOn).  What    *)
(* was relayed is covered by that, or by the checkpoint of an open session *)
(* (Covered): but for an interval, or for as long as a tick had waited     *)
(* that has taken the checkpoint back since.  A tick never carries a later *)
(* time than now.  CleanInv is what remains true while nothing fails.      *)
(***************************************************************************)
RtSnapshot == [at : {"idle", "read", "note", "apply", "forget", "drop"}, id : RtActors, cost : 0..RtHour, noted : BOOLEAN]

RtFrozen(s) == rtPc[s] \in {"leave", "done"} \/ (rtPc[s] = "settle" /\ rtJob[s].at # "idle")

AgreeOn(s, f) ==
    /\ rtHash[s] \in {0, f} /\ rtPending[s] \in {0, f} /\ rtBooks[s] \in {0, f}
    /\ \A a \in RtActors : rtJob[a].id = s => rtJob[a].cost \in {0, f}
    /\ \A n \in 1..RtHour : <<s, n>> \in rtScan /\ Head(rtAgenda) = "receipts" => n = f

Covered(s) == rtSent[s] # 0 => \E v \in {rtHash[s], rtPending[s], rtBooks[s]} : rtSent[s] - v < rtSlack[s]

\* What a session relays and what is kept of it.
RelayInv(s) ==
    /\ RtFrozen(s) => \E f \in 1..RtHour : AgreeOn(s, f)
    /\ ~RtFrozen(s) => /\ rtPending[s] = 0 /\ rtBooks[s] = 0 /\ \A a \in RtActors : rtJob[a].id # s
                       /\ \A n \in 1..RtHour : <<s, n>> \in rtScan => Head(rtAgenda) = "realtime"
    /\ rtPc[s] = "new" => \A n \in 1..RtHour : <<s, n>> \notin rtScan
    /\ (rtPc[s] \in {"new", "dial"} => ~rtAudio[s]) /\ (rtPc[s] = "settle" => rtAudio[s])
    /\ rtPc[s] \notin {"new", "done"} => s \in rtLive
    /\ ~rtAudio[s] => rtHash[s] = 0 /\ rtSent[s] = 0
    /\ rtMark[s] <= rtClock[s] /\ rtTick[s] <= rtClock[s] /\ (rtSent[s] <= rtClock[s] \/ rtSent[s] <= 1)
    /\ rtSlack[s] >= 1
    /\ rtPc[s] = "open" /\ rtAudio[s] => rtHash[s] = IF rtMark[s] >= 1 THEN rtMark[s] ELSE 1
    /\ Covered(s)

\* A settlement.
RtJobInv(a) ==
    LET j == rtJob[a] IN
    /\ j.at = "idle" => j = RtIdle
    /\ j.at # "idle" => j.id \in RtSessions /\ (a \in RtSessions => j.id = a /\ rtPc[a] = "settle")
    /\ j.at \in {"note", "apply", "forget", "drop"} => j.cost # 0
    /\ j.at \in {"forget", "drop"} => rtBooks[j.id] = j.cost

\* Nothing has failed, and the process has at most been stopped.
RtClean == rtFaults = 0 /\ rtCrashes = IF rtApp = "up" THEN 0 ELSE 1
CleanSession(s) ==
    /\ rtPc[s] \in {"leave", "done"} => rtHash[s] = 0 /\ rtPending[s] = 0 /\ rtSent[s] <= rtBooks[s]
    /\ rtPc[s] = "settle" /\ rtJob[s].at # "idle" => rtHash[s] # 0 /\ rtSent[s] <= rtHash[s]
    /\ rtJob[s].at = "drop" => rtPending[s] = 0
CleanActor(a) ==
    /\ rtJob[a].at = "apply" => rtJob[a].noted
    /\ a = RtWorker => /\ rtJob[a].at \in {"idle", "read", "apply", "forget"}
                       /\ rtJob[a].at = "read" => rtPc[rtJob[a].id] = "done"
                       /\ rtJob[a].at \in {"apply", "forget"} => Head(rtAgenda) = "receipts"
CleanInv == (\A s \in RtSessions : CleanSession(s)) /\ (\A a \in RtActors : CleanActor(a))

RealtimeInv ==
    /\ RtTypeOK /\ (\A s \in RtSessions : RelayInv(s)) /\ (\A a \in RtActors : RtJobInv(a))
    /\ (rtApp # "up" => rtCrashes > 0) /\ (rtApp = "closed" => rtLive = {}) /\ (RtClean => CleanInv)

\* A duration at some time.
LEMMA DurationAt ==
  ASSUME NEW at \in 0..RtHour
  PROVE  RtDuration(at) = (IF at >= 1 THEN at ELSE 1) /\ RtDuration(at) \in 1..RtHour
<1>1. RtHour \in Nat /\ RtHour > 0
  BY RtAssumption
<1>2. at \in Nat /\ 1 \in Nat
  BY <1>1
<1>3. RtDuration(at) = IF at >= 1 THEN at ELSE 1
  BY <1>2, MaxOfTwo DEF RtDuration
<1> QED
  BY <1>1, <1>3

\* The times of a session, and its duration now.
LEMMA Durations ==
  ASSUME RtTypeOK, NEW s \in RtSessions
  PROVE  /\ RtDuration(rtClock[s]) = (IF rtClock[s] >= 1 THEN rtClock[s] ELSE 1) /\ RtDuration(rtClock[s]) \in 1..RtHour
         /\ rtClock[s] \in 0..RtHour /\ rtTick[s] \in 0..RtHour /\ rtSlack[s] \in Nat
         /\ rtClock[s] \in Nat /\ rtMark[s] \in Nat /\ rtTick[s] \in Nat /\ rtSent[s] \in Nat /\ rtHash[s] \in Nat
         /\ RtHour \in Nat /\ RtHour > 0
<1>1. /\ rtClock[s] \in 0..RtHour /\ rtMark[s] \in 0..RtHour /\ rtTick[s] \in 0..RtHour /\ rtSent[s] \in 0..RtHour
      /\ rtHash[s] \in 0..RtHour /\ rtSlack[s] \in Nat
  BY DEF RtTypeOK
<1>2. RtHour \in Nat /\ RtHour > 0
  BY RtAssumption
<1> QED
  BY <1>1, <1>2, DurationAt

\* Initially nothing runs but the worker.
LEMMA RealtimeInit == RtInit => RealtimeInv
<1> SUFFICES ASSUME RtInit PROVE RealtimeInv
  OBVIOUS
<1>1. RtHour \in Nat /\ RtHour > 0 /\ 0 \in 0..RtHour /\ RtInterval \in Nat /\ RtInterval >= 1 /\ RtMaxFaults \in Nat /\ RtMaxCrashes \in Nat
  BY RtAssumption
<1>2. \A a \in RtActors : rtJob[a] = RtIdle
  BY DEF RtInit
<1>3. RtIdle \in RtSnapshot /\ RtIdle.at = "idle" /\ RtIdle.id = RtWorker
  BY <1>1 DEF RtIdle, RtSnapshot, RtActors
<1>4. rtHash = [s \in RtSessions |-> 0] /\ rtPending = [s \in RtSessions |-> 0] /\ rtBooks = [s \in RtSessions |-> 0]
      /\ rtClock = [s \in RtSessions |-> 0] /\ rtMark = [s \in RtSessions |-> 0] /\ rtSent = [s \in RtSessions |-> 0]
      /\ rtTick = [s \in RtSessions |-> 0] /\ rtSlack = [s \in RtSessions |-> RtInterval]
  BY DEF RtInit
<1>5. RtTypeOK
  <2>1. rtJob \in [RtActors -> RtSnapshot]
    BY <1>3 DEF RtInit
  <2>2. rtAgenda \in Seq({"realtime", "receipts"}) /\ Len(rtAgenda) <= 2
    BY DEF RtInit
  <2> QED
    BY <1>1, <1>4, <2>1, <2>2 DEF RtInit, RtTypeOK, RtSnapshot
<1>6. \A s \in RtSessions : RelayInv(s)
  <2>1. \A s \in RtSessions : s # RtWorker
    BY RtAssumption
  <2> QED
    BY <1>1, <1>2, <1>3, <1>4, <2>1 DEF RtInit, RelayInv, RtFrozen, Covered
<1>7. \A a \in RtActors : RtJobInv(a)
  BY <1>2, <1>3 DEF RtJobInv
<1>8. CleanInv
  BY <1>2, <1>3 DEF RtInit, CleanInv, CleanSession, CleanActor, RtActors
<1> QED
  BY <1>5, <1>6, <1>7, <1>8 DEF RtInit, RealtimeInv

\* Nothing about a session is written.
SameSession(s) ==
    /\ rtHash'[s] = rtHash[s] /\ rtPending'[s] = rtPending[s] /\ rtBooks'[s] = rtBooks[s]
    /\ rtClock'[s] = rtClock[s] /\ rtMark'[s] = rtMark[s] /\ rtSent'[s] = rtSent[s] /\ rtAudio'[s] = rtAudio[s]
    /\ rtTick'[s] = rtTick[s] /\ rtSlack'[s] = rtSlack[s]
    /\ rtPc'[s] = rtPc[s] /\ (s \in rtLive => s \in rtLive') /\ (rtJob'[s].at = "idle" <=> rtJob[s].at = "idle")
    /\ \A a \in RtActors : rtJob'[a].id = s => rtJob[a].id = s /\ rtJob'[a].cost \in {0, rtJob[a].cost}
    /\ \A n \in 1..RtHour : <<s, n>> \in rtScan' => <<s, n>> \in rtScan /\ Head(rtAgenda') = Head(rtAgenda)

\* A session that nothing is written about.
LEMMA SessionKept ==
  ASSUME NEW s, RelayInv(s), SameSession(s)
  PROVE  RelayInv(s)'
<1>1. RtFrozen(s)' <=> RtFrozen(s)
  BY DEF RtFrozen, SameSession
<1>2. ASSUME NEW f \in 1..RtHour, AgreeOn(s, f) PROVE AgreeOn(s, f)'
  BY <1>2 DEF AgreeOn, SameSession
<1>3. Covered(s)'
  BY DEF RelayInv, Covered, SameSession
<1>4. RtFrozen(s)' => \E f \in 1..RtHour : AgreeOn(s, f)'
  BY <1>1, <1>2 DEF RelayInv
<1> QED
  BY <1>1, <1>3, <1>4 DEF RelayInv, SameSession

\* The types of what a handler writes.
RelayTypes ==
    /\ rtPc \in [RtSessions -> {"new", "dial", "open", "settle", "leave", "done"}]
    /\ rtClock \in [RtSessions -> 0..RtHour] /\ rtMark \in [RtSessions -> 0..RtHour]
    /\ rtTick \in [RtSessions -> 0..RtHour] /\ rtSlack \in [RtSessions -> Nat]
    /\ rtSent \in [RtSessions -> 0..RtHour] /\ rtHash \in [RtSessions -> 0..RtHour]
    /\ rtAudio \in [RtSessions -> BOOLEAN] /\ rtLive \subseteq RtSessions /\ rtFaults \in 0..RtMaxFaults

\* A handler writes nothing of other sessions, nor the books.
OnlyWrites(s) ==
    /\ UNCHANGED <<rtPending, rtBooks, rtJob, rtAgenda, rtScan, rtApp, rtCrashes>>
    /\ \A x \in RtSessions \ {s} :
         /\ rtPc'[x] = rtPc[x] /\ rtClock'[x] = rtClock[x] /\ rtMark'[x] = rtMark[x] /\ rtSent'[x] = rtSent[x]
         /\ rtTick'[x] = rtTick[x] /\ rtSlack'[x] = rtSlack[x]
         /\ rtHash'[x] = rtHash[x] /\ rtAudio'[x] = rtAudio[x] /\ (x \in rtLive => x \in rtLive')
    /\ (rtFaults' = 0 => rtFaults = 0) /\ (rtApp = "closed" => rtLive' \subseteq rtLive)

\* The rest of the state, after a step of a handler.
LEMMA OthersKept ==
  ASSUME RealtimeInv, NEW s \in RtSessions, rtJob[s].at = "idle", RelayTypes', OnlyWrites(s), RelayInv(s)',
         RtClean' /\ rtPc'[s] \in {"leave", "done"} => rtHash'[s] = 0 /\ rtPending[s] = 0 /\ rtSent'[s] <= rtBooks[s],
         rtPc[s] = "done" => rtPc'[s] = "done"
  PROVE  RealtimeInv'
<1>1. RtTypeOK'
  BY DEF RealtimeInv, RtTypeOK, RelayTypes, OnlyWrites
<1>2. ASSUME NEW x \in RtSessions PROVE RelayInv(x)'
  <2>1. CASE x # s
    <3>1. SameSession(x)
      BY <2>1 DEF OnlyWrites, SameSession, RealtimeInv
    <3> QED
      BY <3>1, SessionKept DEF RealtimeInv
  <2> QED
    BY <2>1
<1>3. ASSUME NEW a \in RtActors PROVE RtJobInv(a)'
  <2>1. CASE a = s
    BY <2>1 DEF RealtimeInv, RtJobInv, OnlyWrites
  <2>2. CASE a # s
    <3>1. a \in RtSessions => rtPc'[a] = rtPc[a]
      BY <2>2 DEF OnlyWrites
    <3> QED
      BY <3>1 DEF RealtimeInv, RtJobInv, OnlyWrites
  <2> QED
    BY <2>1, <2>2
<1>4. RtClean' => CleanInv'
  <2> SUFFICES ASSUME RtClean' PROVE CleanInv'
    OBVIOUS
  <2>1. CleanInv
    BY DEF RtClean, OnlyWrites, RealtimeInv
  <2>2. ASSUME NEW x \in RtSessions PROVE CleanSession(x)'
    <3>1. CASE x = s
      BY <3>1 DEF CleanSession, OnlyWrites
    <3>2. CASE x # s
      BY <2>1, <3>2 DEF CleanInv, CleanSession, OnlyWrites
    <3> QED
      BY <3>1, <3>2
  <2>3. ASSUME NEW a \in RtActors PROVE CleanActor(a)'
    <3>1. RtJobInv(a) /\ CleanActor(a)
      BY <2>1 DEF RealtimeInv, CleanInv
    <3> QED
      BY <3>1 DEF RtJobInv, CleanActor, OnlyWrites
  <2> QED
    BY <2>2, <2>3 DEF CleanInv
<1>5. (rtApp' # "up" => rtCrashes' > 0) /\ (rtApp' = "closed" => rtLive' = {})
  BY DEF OnlyWrites, RealtimeInv
<1> QED
  BY <1>1, <1>2, <1>3, <1>4, <1>5 DEF RealtimeInv

\* A step of the handler before the receipt is frozen.
LEMMA RelayStep ==
  ASSUME RealtimeInv, NEW s \in RtSessions, ~RtFrozen(s), RelayTypes', OnlyWrites(s),
         rtPc'[s] # "new", rtPc'[s] = "dial" => ~rtAudio'[s], rtPc'[s] = "settle" => rtAudio'[s], rtPc'[s] # "done" => s \in rtLive',
         ~rtAudio'[s] => rtHash'[s] = 0 /\ rtSent'[s] = 0,
         rtMark'[s] <= rtClock'[s], rtTick'[s] <= rtClock'[s], rtSent'[s] <= rtClock'[s] \/ rtSent'[s] <= 1, rtSlack'[s] >= 1,
         rtPc'[s] = "open" /\ rtAudio'[s] => rtHash'[s] = (IF rtMark'[s] >= 1 THEN rtMark'[s] ELSE 1),
         rtSent'[s] # 0 => rtSent'[s] - rtHash'[s] < rtSlack'[s],
         RtClean' /\ rtPc'[s] \in {"leave", "done"} => ~rtAudio'[s]
  PROVE  RealtimeInv'
<1>1. rtPending[s] = 0 /\ rtBooks[s] = 0 /\ (\A a \in RtActors : rtJob[a].id # s)
      /\ (\A n \in 1..RtHour : <<s, n>> \in rtScan => Head(rtAgenda) = "realtime")
  BY DEF RealtimeInv, RelayInv
<1>2. rtJob[s].at = "idle"
  <2>1. RtJobInv(s)
    BY DEF RealtimeInv, RtActors
  <2> QED
    BY <2>1 DEF RtJobInv, RtFrozen
<1>3. UNCHANGED <<rtPending, rtBooks, rtJob, rtAgenda, rtScan>>
  BY DEF OnlyWrites
<1>4. \E f \in 1..RtHour : AgreeOn(s, f)'
  <2> PICK f : f = IF rtHash'[s] = 0 THEN 1 ELSE rtHash'[s]
    OBVIOUS
  <2>1. f \in 1..RtHour /\ rtHash'[s] \in {0, f}
    BY RtAssumption DEF RelayTypes
  <2>2. AgreeOn(s, f)'
    BY <1>1, <1>3, <2>1 DEF AgreeOn
  <2> QED
    BY <2>1, <2>2
<1>5. Covered(s)'
  BY DEF Covered
<1>6. rtPc'[s] \notin {"new"} /\ (rtPc'[s] \in {"new", "dial"} => ~rtAudio'[s]) /\ (rtPc'[s] \notin {"new", "done"} => s \in rtLive')
  OBVIOUS
<1>7. RelayInv(s)'
  BY <1>1, <1>3, <1>4, <1>5, <1>6 DEF RelayInv
<1>8. RtClean' /\ rtPc'[s] \in {"leave", "done"} => rtHash'[s] = 0 /\ rtPending[s] = 0 /\ rtSent'[s] <= rtBooks[s]
  BY <1>1
<1>9. rtPc[s] # "done"
  BY DEF RtFrozen
<1> QED
  BY <1>2, <1>7, <1>8, <1>9, OthersKept

\* What an open, dialling or settling session is.
LEMMA Unfrozen ==
  ASSUME RealtimeInv, NEW s \in RtSessions, rtPc[s] \in {"new", "dial", "open"} \/ (rtPc[s] = "settle" /\ rtJob[s] = RtIdle)
  PROVE  /\ ~RtFrozen(s) /\ rtPending[s] = 0 /\ rtBooks[s] = 0 /\ RelayTypes
         /\ (rtSent[s] # 0 => rtSent[s] - rtHash[s] < rtSlack[s]) /\ RelayInv(s)
<1>1. RelayInv(s) /\ RelayTypes /\ rtSent[s] \in Nat /\ rtHash[s] \in Nat /\ rtSlack[s] \in Nat
  <2>1. RelayInv(s) /\ RelayTypes
    BY DEF RealtimeInv, RtTypeOK, RelayTypes
  <2>2. rtSent[s] \in 0..RtHour /\ rtHash[s] \in 0..RtHour /\ rtSlack[s] \in Nat
    BY <2>1 DEF RelayTypes
  <2> QED
    BY <2>1, <2>2, RtAssumption
<1>2. ~RtFrozen(s)
  BY DEF RtFrozen, RtIdle
<1>3. rtPending[s] = 0 /\ rtBooks[s] = 0
  BY <1>1, <1>2 DEF RelayInv
<1>4. rtSent[s] # 0 => rtSent[s] - rtHash[s] < rtSlack[s]
  BY <1>1, <1>3 DEF RelayInv, Covered
<1> QED
  BY <1>1, <1>2, <1>3, <1>4

\* What is written of one session alone.
WrittenOf(s) ==
    /\ rtPc' = [rtPc EXCEPT ![s] = rtPc'[s]] /\ rtPc'[s] \in {"new", "dial", "open", "settle", "leave", "done"}
    /\ rtHash' = [rtHash EXCEPT ![s] = rtHash'[s]] /\ rtHash'[s] \in 0..RtHour
    /\ rtMark' = [rtMark EXCEPT ![s] = rtMark'[s]] /\ rtMark'[s] \in 0..RtHour
    /\ rtTick' = [rtTick EXCEPT ![s] = rtTick'[s]] /\ rtTick'[s] \in 0..RtHour
    /\ rtSent' = [rtSent EXCEPT ![s] = rtSent'[s]] /\ rtSent'[s] \in 0..RtHour
    /\ rtSlack' = [rtSlack EXCEPT ![s] = rtSlack'[s]] /\ rtSlack'[s] \in Nat
    /\ rtClock' = [rtClock EXCEPT ![s] = rtClock'[s]] /\ rtClock'[s] \in 0..RtHour
    /\ rtAudio' = [rtAudio EXCEPT ![s] = rtAudio'[s]] /\ rtAudio'[s] \in BOOLEAN
    /\ UNCHANGED <<rtPending, rtBooks, rtJob, rtAgenda, rtScan, rtApp, rtCrashes>>
    /\ rtLive' = rtLive \/ rtLive' = rtLive \ {s} \/ (rtLive' = rtLive \cup {s} /\ rtApp = "up")
    /\ rtFaults' = rtFaults \/ (rtFaults' = rtFaults + 1 /\ rtFaults < RtMaxFaults)

\* The rest is as it was, and everything has its type.
LEMMA OneSession ==
  ASSUME RealtimeInv, NEW s \in RtSessions, WrittenOf(s)
  PROVE  RelayTypes' /\ OnlyWrites(s)
<1>1. RelayTypes
  BY DEF RealtimeInv, RtTypeOK, RelayTypes
<1>2. rtFaults' \in 0..RtMaxFaults /\ (rtFaults' = 0 => rtFaults = 0)
  BY <1>1, RtAssumption DEF RelayTypes, WrittenOf
<1>3. RelayTypes'
  BY <1>1, <1>2 DEF RelayTypes, WrittenOf
<1>4. ASSUME NEW x \in RtSessions \ {s}
      PROVE  /\ rtPc'[x] = rtPc[x] /\ rtClock'[x] = rtClock[x] /\ rtMark'[x] = rtMark[x] /\ rtSent'[x] = rtSent[x]
             /\ rtTick'[x] = rtTick[x] /\ rtSlack'[x] = rtSlack[x]
             /\ rtHash'[x] = rtHash[x] /\ rtAudio'[x] = rtAudio[x] /\ (x \in rtLive => x \in rtLive')
  BY <1>1 DEF RelayTypes, WrittenOf
<1>5. rtApp = "closed" => rtLive' \subseteq rtLive
  BY DEF WrittenOf
<1> QED
  BY <1>2, <1>3, <1>4, <1>5 DEF OnlyWrites, WrittenOf

\* A session that goes on to pc, and whose clock to d and tick to w.
LEMMA PassStep ==
  ASSUME RealtimeInv, NEW s \in RtSessions, rtPc[s] \in {"new", "dial", "open"},
         UNCHANGED <<rtPending, rtBooks, rtJob, rtAgenda, rtScan, rtApp, rtCrashes, rtHash, rtMark, rtSent, rtSlack, rtAudio, rtFaults>>,
         NEW pc, pc \in {"dial", "open", "settle", "leave", "done"}, rtPc' = [rtPc EXCEPT ![s] = pc],
         NEW d \in 0..RtHour, rtClock' = [rtClock EXCEPT ![s] = d], rtClock[s] <= d,
         NEW w \in 0..RtHour, rtTick' = [rtTick EXCEPT ![s] = w], w <= d,
         rtLive' = rtLive \/ (rtLive' = rtLive \cup {s} /\ rtApp = "up"), pc # "done" => s \in rtLive',
         pc = "open" => rtPc[s] \in {"dial", "open"}, pc \in {"dial", "leave", "done"} => ~rtAudio[s],
         pc = "settle" => rtAudio[s]
  PROVE  RealtimeInv'
<1> PICK n, m, k, c, b, z : n = rtHash[s] /\ m = rtMark[s] /\ k = rtSent[s] /\ c = rtClock[s] /\ b = rtAudio[s] /\ z = rtSlack[s]
  OBVIOUS
<1>1. /\ ~RtFrozen(s) /\ rtPending[s] = 0 /\ rtBooks[s] = 0 /\ RelayTypes /\ (k # 0 => k - n < z) /\ RelayInv(s)
  BY Unfrozen
<1>2. /\ n \in 0..RtHour /\ m \in 0..RtHour /\ k \in 0..RtHour /\ c \in 0..RtHour /\ b \in BOOLEAN /\ RtHour \in Nat
      /\ rtHash' = [rtHash EXCEPT ![s] = n] /\ rtMark' = [rtMark EXCEPT ![s] = m] /\ rtSent' = [rtSent EXCEPT ![s] = k]
      /\ rtAudio' = [rtAudio EXCEPT ![s] = b] /\ rtFaults' = rtFaults /\ z \in Nat /\ rtSlack' = [rtSlack EXCEPT ![s] = z]
  BY <1>1, RtAssumption DEF RelayTypes
<1>3. rtPc'[s] = pc /\ rtHash'[s] = n /\ rtMark'[s] = m /\ rtSent'[s] = k /\ rtClock'[s] = d /\ rtAudio'[s] = b
      /\ rtTick'[s] = w /\ rtSlack'[s] = z
  BY <1>1, <1>2 DEF RelayTypes
<1>6. WrittenOf(s)
  BY <1>1, <1>2, <1>3 DEF RelayTypes, WrittenOf
<1>7. RelayTypes' /\ OnlyWrites(s)
  BY <1>6, OneSession
<1>4. pc = "open" /\ b => n = IF m >= 1 THEN m ELSE 1
  BY <1>1 DEF RelayInv
<1>5. m <= d /\ (k <= d \/ k <= 1) /\ (~b => n = 0 /\ k = 0) /\ z >= 1
  BY <1>1, <1>2 DEF RelayInv
<1> QED
  BY <1>1, <1>3, <1>4, <1>5, <1>7, RelayStep

\* Registration, the dial, the passing of time and the ends of the loop.
LEMMA ConnectStep ==
  ASSUME RealtimeInv, NEW s \in RtSessions, RegisterSocket(s) \/ DialRealtime(s) \/ RtPass(s) \/ RtEnd(s)
  PROVE  RealtimeInv'
<1> PICK c, w : c = rtClock[s] /\ w = rtTick[s]
  OBVIOUS
<1>1. rtPc[s] \in {"new", "dial", "open"}
  BY DEF RegisterSocket, DialRealtime, RtPass, RtEnd
<1>2. RelayTypes /\ RelayInv(s) /\ RtHour \in Nat
  BY <1>1, Unfrozen, RtAssumption
<1>3. /\ c \in 0..RtHour /\ rtClock = [rtClock EXCEPT ![s] = c] /\ rtClock[s] <= c
      /\ w \in 0..RtHour /\ rtTick = [rtTick EXCEPT ![s] = w] /\ w <= c
  BY <1>2 DEF RelayTypes, RelayInv
<1>4. UNCHANGED <<rtPending, rtBooks, rtJob, rtAgenda, rtScan, rtApp, rtCrashes, rtHash, rtMark, rtSent, rtSlack, rtAudio, rtFaults>>
  BY DEF RegisterSocket, DialRealtime, RtPass, RtEnd, rtStore, rtWork, rtProcess, rtRelay
<1>5. \E pc \in {"dial", "open", "settle", "leave", "done"}, d \in 0..RtHour, v \in 0..RtHour :
        /\ rtPc' = [rtPc EXCEPT ![s] = pc] /\ rtClock' = [rtClock EXCEPT ![s] = d] /\ rtClock[s] <= d
        /\ rtTick' = [rtTick EXCEPT ![s] = v] /\ v <= d
        /\ (rtLive' = rtLive \/ (rtLive' = rtLive \cup {s} /\ rtApp = "up")) /\ (pc # "done" => s \in rtLive')
        /\ (pc = "open" => rtPc[s] \in {"dial", "open"}) /\ (pc \in {"dial", "leave", "done"} => ~rtAudio[s])
        /\ (pc = "settle" => rtAudio[s])
  <2>1. CASE RegisterSocket(s)
    <3>1. ~rtAudio[s] /\ rtClock' = [rtClock EXCEPT ![s] = c] /\ rtTick' = [rtTick EXCEPT ![s] = w]
      BY <1>2, <1>3, <2>1 DEF RegisterSocket, RelayInv, rtRelay
    <3>2. CASE rtApp = "up" /\ Cardinality(rtLive) < RtMaxSockets
      BY <1>3, <2>1, <3>1, <3>2 DEF RegisterSocket
    <3>3. CASE ~(rtApp = "up" /\ Cardinality(rtLive) < RtMaxSockets)
      BY <1>3, <2>1, <3>1, <3>3 DEF RegisterSocket
    <3> QED
      BY <3>2, <3>3
  <2>2. CASE DialRealtime(s)
    <3>1. ~rtAudio[s] /\ rtClock' = [rtClock EXCEPT ![s] = c] /\ rtTick' = [rtTick EXCEPT ![s] = w] /\ s \in rtLive /\ rtLive' = rtLive /\ rtPc[s] = "dial"
      BY <1>2, <1>3, <2>2 DEF DialRealtime, RelayInv, rtRelay, rtProcess
    <3>2. rtPc' = [rtPc EXCEPT ![s] = "open"] \/ rtPc' = [rtPc EXCEPT ![s] = "leave"]
      BY <2>2 DEF DialRealtime
    <3> QED
      BY <1>3, <3>1, <3>2
  <2>3. CASE RtPass(s)
    <3>1. /\ rtClock' = [rtClock EXCEPT ![s] = c + 1] /\ c < RtHour /\ rtLive' = rtLive /\ rtPc' = rtPc /\ rtPc[s] = "open"
      BY <2>3 DEF RtPass, rtProcess
    <3>2. s \in rtLive /\ rtPc' = [rtPc EXCEPT ![s] = "open"]
      BY <1>2, <3>1 DEF RelayInv, RelayTypes
    <3>3. c + 1 \in 0..RtHour /\ c <= c + 1 /\ w <= c + 1 /\ c + 1 <= c + 1
      BY <1>2, <1>3, <3>1
    <3>4. rtTick' = [rtTick EXCEPT ![s] = w] \/ rtTick' = [rtTick EXCEPT ![s] = c + 1]
      BY <1>3, <2>3 DEF RtPass
    <3>5. CASE rtTick' = [rtTick EXCEPT ![s] = w]
      BY <1>3, <3>1, <3>2, <3>3, <3>5
    <3>6. CASE rtTick' = [rtTick EXCEPT ![s] = c + 1]
      BY <1>3, <3>1, <3>2, <3>3, <3>6
    <3> QED
      BY <3>4, <3>5, <3>6
  <2>4. CASE RtEnd(s)
    <3>1. /\ rtPc[s] = "open" /\ rtClock' = [rtClock EXCEPT ![s] = c] /\ rtTick' = [rtTick EXCEPT ![s] = w] /\ rtLive' = rtLive /\ s \in rtLive
          /\ rtPc' = [rtPc EXCEPT ![s] = IF rtAudio[s] THEN "settle" ELSE "leave"]
      BY <1>2, <1>3, <2>4 DEF RtEnd, RtEnding, RelayInv, rtRelay, rtProcess
    <3> QED
      BY <1>3, <3>1
  <2> QED
    BY <2>1, <2>2, <2>3, <2>4
<1> QED
  BY <1>1, <1>4, <1>5, PassStep

\* A checkpoint of some time, done or not.
LEMMA Checkpoints ==
  ASSUME RealtimeInv, NEW s \in RtSessions, NEW at \in 0..RtHour,
         CheckpointOk(s, at) \/ CheckpointFails(s, at) \/ (RtFine /\ UNCHANGED <<rtHash, rtMark>>)
  PROVE  /\ rtHash' = [rtHash EXCEPT ![s] = rtHash'[s]] /\ rtHash'[s] \in 0..RtHour
         /\ rtMark' = [rtMark EXCEPT ![s] = rtMark'[s]] /\ rtMark'[s] \in 0..RtHour
         /\ rtHash'[s] \in {rtHash[s], RtDuration(at)} /\ rtMark'[s] \in {rtMark[s], at}
         /\ (rtFaults' = rtFaults \/ (rtFaults' = rtFaults + 1 /\ rtFaults < RtMaxFaults))
         /\ (CheckpointOk(s, at) => rtHash'[s] = RtDuration(at) /\ rtMark'[s] = at)
         /\ (CheckpointFails(s, at) => rtFaults' # 0 /\ rtMark'[s] = rtMark[s])
<1>1. RelayTypes /\ RtDuration(at) \in 0..RtHour
  <2>1. RtTypeOK
    BY DEF RealtimeInv
  <2>2. RtDuration(at) \in 1..RtHour /\ RtHour \in Nat
    BY DurationAt, RtAssumption
  <2> QED
    BY <2>1, <2>2, SMTT(30) DEF RtTypeOK, RelayTypes
<1>2. rtMark[s] \in 0..RtHour /\ rtClock[s] \in 0..RtHour /\ rtHash[s] \in 0..RtHour /\ rtFaults \in Nat
      /\ rtHash = [rtHash EXCEPT ![s] = rtHash[s]] /\ rtMark = [rtMark EXCEPT ![s] = rtMark[s]]
  BY <1>1, RtAssumption DEF RelayTypes
<1> PICK D : D = RtDuration(at)
  OBVIOUS
<1>3. CheckpointFails(s, at) => rtFaults' = rtFaults + 1 /\ rtFaults < RtMaxFaults
  BY DEF CheckpointFails, RtFault
<1>4. CheckpointOk(s, at) => rtFaults' = rtFaults
  BY DEF CheckpointOk, RtFine
<1>5. rtFaults' # 0 \/ ~CheckpointFails(s, at)
  BY <1>2, <1>3
<1>6. CASE CheckpointOk(s, at)
  <2>1. rtHash' = [rtHash EXCEPT ![s] = D] /\ rtMark' = [rtMark EXCEPT ![s] = at]
    BY <1>6 DEF CheckpointOk
  <2>2. rtHash'[s] = D /\ rtMark'[s] = at
    BY <1>1, <2>1 DEF RelayTypes
  <2>3. ~CheckpointFails(s, at)
    BY <1>2, <1>3, <1>4, <1>6
  <2> QED
    BY <1>1, <1>2, <1>4, <1>6, <2>1, <2>2, <2>3
<1>7. CASE CheckpointFails(s, at)
  <2>1. rtHash' \in {rtHash, [rtHash EXCEPT ![s] = D]} /\ rtMark' = rtMark
    BY <1>7 DEF CheckpointFails
  <2>2. rtHash'[s] \in {rtHash[s], D} /\ rtHash' = [rtHash EXCEPT ![s] = rtHash'[s]]
    BY <1>1, <1>2, <2>1 DEF RelayTypes
  <2>3. ~CheckpointOk(s, at)
    BY <1>2, <1>3, <1>4, <1>7
  <2> QED
    BY <1>1, <1>2, <1>3, <1>5, <1>7, <2>1, <2>2, <2>3
<1>8. CASE RtFine /\ UNCHANGED <<rtHash, rtMark>>
  <2>1. rtHash' = rtHash /\ rtMark' = rtMark /\ rtFaults' = rtFaults
    BY <1>8 DEF RtFine
  <2>2. ~CheckpointFails(s, at)
    BY <1>2, <1>3, <2>1
  <2>3. CheckpointOk(s, at) => rtHash'[s] = D /\ rtMark'[s] = at
    BY <1>1 DEF CheckpointOk, RelayTypes
  <2> QED
    BY <1>2, <2>1, <2>2, <2>3
<1> QED
  BY <1>6, <1>7, <1>8

\* A frame that is relayed, or not.
LEMMA WriteStep ==
  ASSUME RealtimeInv, NEW s \in RtSessions, rtPc[s] = "open", NEW c, c = rtClock[s],
         CheckpointOk(s, c) \/ CheckpointFails(s, c) \/ (RtFine /\ UNCHANGED <<rtHash, rtMark>>),
         rtPc' = [rtPc EXCEPT ![s] = rtPc'[s]], rtPc'[s] \in {"open", "settle", "leave"},
         rtAudio' = [rtAudio EXCEPT ![s] = rtAudio'[s]], rtAudio'[s] \in BOOLEAN, rtAudio[s] => rtAudio'[s],
         ~rtAudio'[s] => (RtFine /\ UNCHANGED <<rtHash, rtMark>>) /\ rtSent' = rtSent,
         \/ UNCHANGED <<rtSent, rtSlack>>
         \/ /\ rtSent' = [rtSent EXCEPT ![s] = RtDuration(c)] /\ rtSlack' = [rtSlack EXCEPT ![s] = RtInterval]
            /\ CheckpointOk(s, c) \/ (rtAudio[s] /\ c - rtMark[s] < RtInterval /\ UNCHANGED rtHash),
         rtPc'[s] = "open" /\ rtAudio'[s] => CheckpointOk(s, c) \/ (rtAudio[s] /\ UNCHANGED <<rtHash, rtMark>>),
         rtPc'[s] = "leave" => ~rtAudio'[s], rtPc'[s] = "settle" => rtAudio'[s],
         UNCHANGED <<rtClock, rtTick, rtPending, rtBooks, rtJob, rtAgenda, rtScan, rtLive, rtApp, rtCrashes>>
  PROVE  RealtimeInv'
<1>1. /\ ~RtFrozen(s) /\ RelayTypes /\ (rtSent[s] # 0 => rtSent[s] - rtHash[s] < rtSlack[s]) /\ RelayInv(s)
  BY Unfrozen
<1>2. RtTypeOK
  BY DEF RealtimeInv
<1> PICK h, m, k, z, w, D, H, M : /\ h = rtHash[s] /\ m = rtMark[s] /\ k = rtSent[s] /\ z = rtSlack[s] /\ w = rtTick[s]
                                  /\ D = RtDuration(c) /\ H = rtHash'[s] /\ M = rtMark'[s]
  OBVIOUS
<1> PICK K, Z : K = rtSent'[s] /\ Z = rtSlack'[s]
  OBVIOUS
<1>4. /\ D = (IF c >= 1 THEN c ELSE 1) /\ D \in 1..RtHour /\ c \in 0..RtHour /\ c \in Nat /\ m \in Nat /\ k \in Nat /\ h \in Nat
      /\ RtHour \in Nat /\ D \in Nat /\ z \in Nat /\ w \in 0..RtHour
  BY <1>2, Durations
<1>3. /\ rtHash' = [rtHash EXCEPT ![s] = H] /\ H \in 0..RtHour /\ rtMark' = [rtMark EXCEPT ![s] = M] /\ M \in 0..RtHour
      /\ H \in {h, D} /\ M \in {m, c} /\ (rtFaults' = rtFaults \/ (rtFaults' = rtFaults + 1 /\ rtFaults < RtMaxFaults))
      /\ (CheckpointOk(s, c) => H = D /\ M = c)
  BY <1>4, Checkpoints
<1>13. RtInterval \in Nat /\ RtInterval >= 1 /\ D \in 0..RtHour
  BY <1>4, RtAssumption
<1>14. \/ K = k /\ Z = z /\ rtSent' = [rtSent EXCEPT ![s] = K] /\ rtSlack' = [rtSlack EXCEPT ![s] = Z]
       \/ /\ K = D /\ Z = RtInterval /\ rtSent' = [rtSent EXCEPT ![s] = K] /\ rtSlack' = [rtSlack EXCEPT ![s] = Z]
          /\ CheckpointOk(s, c) \/ (rtAudio[s] /\ c - m < RtInterval /\ UNCHANGED rtHash)
  <2>1. CASE UNCHANGED <<rtSent, rtSlack>>
    BY <1>1, <2>1 DEF RelayTypes
  <2>2. CASE rtSent' = [rtSent EXCEPT ![s] = RtDuration(c)] /\ rtSlack' = [rtSlack EXCEPT ![s] = RtInterval]
    <3>1. K = D /\ Z = RtInterval
      BY <1>1, <2>2 DEF RelayTypes
    <3>2. CASE UNCHANGED <<rtSent, rtSlack>>
      BY <2>1, <3>2
    <3> QED
      BY <2>2, <3>1, <3>2
  <2> QED
    BY <2>1, <2>2
<1>15. rtSent' = [rtSent EXCEPT ![s] = K] /\ K \in {k, D} /\ rtSlack' = [rtSlack EXCEPT ![s] = Z] /\ Z \in Nat
  BY <1>4, <1>13, <1>14
<1>5. /\ k \in 0..RtHour /\ K \in 0..RtHour /\ rtClock' = [rtClock EXCEPT ![s] = rtClock'[s]] /\ rtClock'[s] = c
      /\ rtTick' = [rtTick EXCEPT ![s] = rtTick'[s]] /\ rtTick'[s] = w
  BY <1>1, <1>13, <1>15 DEF RelayTypes
<1>6. WrittenOf(s)
  BY <1>3, <1>4, <1>5, <1>15 DEF WrittenOf
<1>7. RelayTypes' /\ OnlyWrites(s)
  BY <1>6, OneSession
<1>8. /\ m <= c /\ w <= c /\ z >= 1 /\ (k <= c \/ k <= 1) /\ (rtAudio[s] => h = IF m >= 1 THEN m ELSE 1)
      /\ (~rtAudio[s] => h = 0 /\ k = 0) /\ s \in rtLive
  BY <1>1 DEF RelayInv
<1>9. /\ D <= c \/ D <= 1
      /\ k - D < z /\ D - D < RtInterval /\ (c - m < RtInterval => D - (IF m >= 1 THEN m ELSE 1) < RtInterval)
  <2>1. /\ m <= c /\ z >= 1 /\ (k <= c \/ k <= 1) /\ D = (IF c >= 1 THEN c ELSE 1) /\ c \in Nat /\ m \in Nat /\ k \in Nat /\ z \in Nat
    BY <1>4, <1>8
  <2> QED
    BY <1>13, <2>1
<1>10. (K # 0 => K - H < Z) /\ Z >= 1
  <2>1. CASE K = k /\ Z = z
    BY <1>1, <1>3, <1>8, <1>9, <2>1
  <2>2. CASE K = D /\ Z = RtInterval /\ (CheckpointOk(s, c) \/ (rtAudio[s] /\ c - m < RtInterval /\ UNCHANGED rtHash))
    <3>1. CASE CheckpointOk(s, c)
      BY <1>3, <1>9, <1>13, <2>2, <3>1
    <3>2. CASE rtAudio[s] /\ c - m < RtInterval /\ UNCHANGED rtHash
      BY <1>8, <1>9, <1>13, <2>2, <3>2
    <3> QED
      BY <2>2, <3>1, <3>2
  <2> QED
    BY <1>14, <2>1, <2>2
<1>11. M <= c /\ (K <= c \/ K <= 1)
  <2>1. M \in {m, c} /\ m <= c /\ c \in Nat
    BY <1>3, <1>4, <1>8
  <2>2. K \in {k, D} /\ (k <= c \/ k <= 1) /\ (D <= c \/ D <= 1)
    BY <1>8, <1>9, <1>15
  <2> QED
    BY <2>1, <2>2
<1>12. rtPc'[s] = "open" /\ rtAudio'[s] => H = IF M >= 1 THEN M ELSE 1
  BY <1>3, <1>4, <1>8
<1>16. ~rtAudio'[s] => H = 0 /\ K = 0
  BY <1>8
<1> QED
  BY <1>1, <1>5, <1>7, <1>8, <1>10, <1>11, <1>12, <1>16, RelayStep

\* A tick.  One that waited takes the checkpoint back to its own time; what
\* was relayed since is at most as long as it waited.
LEMMA TickStep == ASSUME RealtimeInv, NEW s \in RtSessions, RtTick(s) PROVE RealtimeInv'
<1>1. /\ rtPc[s] = "open" /\ rtTick[s] # 0 /\ rtTick' = [rtTick EXCEPT ![s] = 0]
      /\ UNCHANGED <<rtClock, rtAudio, rtSent, rtPending, rtBooks, rtJob, rtAgenda, rtScan, rtLive, rtApp, rtCrashes>>
  BY DEF RtTick, rtWork, rtProcess
<1>2. ~RtFrozen(s) /\ RelayTypes /\ (rtSent[s] # 0 => rtSent[s] - rtHash[s] < rtSlack[s]) /\ RelayInv(s)
  BY <1>1, Unfrozen
<1>3. RtTypeOK
  BY DEF RealtimeInv
<1> PICK h, k, c, z, w, D, H, M, Z : /\ h = rtHash[s] /\ k = rtSent[s] /\ c = rtClock[s] /\ z = rtSlack[s] /\ w = rtTick[s]
                                     /\ D = RtDuration(w) /\ H = rtHash'[s] /\ M = rtMark'[s] /\ Z = rtSlack'[s]
  OBVIOUS
<1>4. /\ c \in 0..RtHour /\ c \in Nat /\ k \in Nat /\ h \in Nat /\ z \in Nat /\ w \in 0..RtHour /\ w \in Nat /\ w # 0 /\ w >= 1
      /\ RtHour \in Nat
  BY <1>1, <1>3, Durations
<1>5. D = w
  BY <1>4, DurationAt
<1>6. w <= c /\ z >= 1 /\ rtMark[s] <= c /\ (k <= c \/ k <= 1) /\ (~rtAudio[s] => h = 0 /\ k = 0) /\ s \in rtLive
  BY <1>1, <1>2 DEF RelayInv
<1>7. /\ rtSent' = [rtSent EXCEPT ![s] = rtSent'[s]] /\ rtSent'[s] = k /\ k \in 0..RtHour
      /\ rtClock' = [rtClock EXCEPT ![s] = rtClock'[s]] /\ rtClock'[s] = c
      /\ rtAudio' = [rtAudio EXCEPT ![s] = rtAudio'[s]] /\ rtAudio'[s] = rtAudio[s] /\ rtAudio[s] \in BOOLEAN
      /\ rtTick' = [rtTick EXCEPT ![s] = rtTick'[s]] /\ rtTick'[s] = 0 /\ 0 \in 0..RtHour
  BY <1>1, <1>2, <1>4 DEF RelayTypes
<1>8. CASE ~rtAudio[s] /\ RtFine /\ UNCHANGED <<rtPc, rtHash, rtMark, rtSlack>>
  <2>1. WrittenOf(s)
    BY <1>1, <1>2, <1>7, <1>8 DEF WrittenOf, RelayTypes, RtFine
  <2>2. RelayTypes' /\ OnlyWrites(s)
    BY <2>1, OneSession
  <2>3. rtPc'[s] = "open" /\ H = h /\ M = rtMark[s] /\ Z = z
    BY <1>1, <1>8
  <2> QED
    BY <1>1, <1>2, <1>4, <1>6, <1>7, <1>8, <2>2, <2>3, RelayStep
<1>9. CASE /\ rtAudio[s] /\ rtSlack' = [rtSlack EXCEPT ![s] = Max({rtSlack[s], rtClock[s] - rtTick[s] + 1})]
           /\ \/ CheckpointOk(s, rtTick[s]) /\ UNCHANGED rtPc
              \/ CheckpointFails(s, rtTick[s]) /\ rtPc' = [rtPc EXCEPT ![s] = "settle"]
  <2>1. c - w + 1 \in Nat
    BY <1>4, <1>6
  <2>2. Z = IF z >= c - w + 1 THEN z ELSE c - w + 1
    <3>1. Z = Max({z, c - w + 1})
      BY <1>2, <1>9 DEF RelayTypes
    <3> QED
      BY <1>4, <2>1, <3>1, MaxOfTwo
  <2>3. Z \in Nat /\ z <= Z /\ c - w < Z /\ rtSlack' = [rtSlack EXCEPT ![s] = Z]
    <3>1. Z \in Nat /\ z <= Z /\ c - w < Z
      BY <1>4, <2>1, <2>2
    <3> QED
      BY <1>2, <1>9, <3>1 DEF RelayTypes
  <2>4. /\ rtHash' = [rtHash EXCEPT ![s] = H] /\ H \in 0..RtHour /\ rtMark' = [rtMark EXCEPT ![s] = M] /\ M \in 0..RtHour
        /\ H \in {h, w} /\ M \in {rtMark[s], w} /\ (rtFaults' = rtFaults \/ (rtFaults' = rtFaults + 1 /\ rtFaults < RtMaxFaults))
        /\ (CheckpointOk(s, w) => H = w /\ M = w)
    BY <1>4, <1>5, <1>9, Checkpoints
  <2>5. /\ rtPc' = [rtPc EXCEPT ![s] = rtPc'[s]]
        /\ (rtPc'[s] = "open" /\ CheckpointOk(s, w)) \/ rtPc'[s] = "settle"
    BY <1>1, <1>2, <1>9 DEF RelayTypes
  <2>6. WrittenOf(s)
    BY <1>1, <1>4, <1>7, <2>3, <2>4, <2>5 DEF WrittenOf
  <2>7. RelayTypes' /\ OnlyWrites(s)
    BY <2>6, OneSession
  <2>8. k # 0 => k - H < Z
    <3>1. CASE H = h
      BY <1>2, <1>4, <2>3, <3>1
    <3>2. CASE H = w
      BY <1>4, <1>6, <2>3, <3>2
    <3> QED
      BY <2>4, <3>1, <3>2
  <2>9. M <= c /\ Z >= 1 /\ (rtPc'[s] = "open" => H = IF M >= 1 THEN M ELSE 1)
    BY <1>4, <1>6, <2>3, <2>4, <2>5
  <2>10. rtPc'[s] \in {"open", "settle"} /\ rtAudio'[s] /\ s \in rtLive' /\ rtTick'[s] <= rtClock'[s]
    BY <1>1, <1>4, <1>6, <1>7, <1>9, <2>5
  <2> QED
    BY <1>2, <1>6, <1>7, <2>7, <2>8, <2>9, <2>10, RelayStep
<1> QED
  BY <1>8, <1>9 DEF RtTick

\* A frame.
LEMMA FrameStep ==
  ASSUME RealtimeInv, NEW s \in RtSessions, NEW audio \in BOOLEAN, RtFrame(s, audio)
  PROVE  RealtimeInv'
<1>1. rtPc[s] = "open" /\ UNCHANGED <<rtClock, rtTick, rtPending, rtBooks, rtJob, rtAgenda, rtScan, rtLive, rtApp, rtCrashes>>
  BY DEF RtFrame, rtWork, rtProcess
<1>2. RelayTypes
  BY DEF RealtimeInv, RtTypeOK, RelayTypes
<1>3. rtAudio' = [rtAudio EXCEPT ![s] = rtAudio[s] \/ audio]
  BY DEF RtFrame
<1>4. rtAudio' = [rtAudio EXCEPT ![s] = rtAudio'[s]] /\ rtAudio'[s] \in BOOLEAN /\ (rtAudio'[s] <=> rtAudio[s] \/ audio)
  BY <1>2, <1>3 DEF RelayTypes
<1> PICK ending : ending = IF rtAudio'[s] THEN "settle" ELSE "leave"
  OBVIOUS
<1>5. RtEnding(s) = ending
  BY DEF RtEnding
<1>6. RtMustCheckpoint(s, audio) => rtAudio'[s]
  BY <1>4 DEF RtMustCheckpoint
<1>7. rtPc = [rtPc EXCEPT ![s] = "open"]
  BY <1>1, <1>2 DEF RelayTypes
<1>8. CASE (RtMustCheckpoint(s, audio) /\ CheckpointOk(s, rtClock[s])) \/ (~RtMustCheckpoint(s, audio) /\ RtFine /\ UNCHANGED <<rtHash, rtMark>>)
  <2>1. CASE /\ rtApp = "up" /\ UNCHANGED rtPc
             /\ IF rtAudio'[s]
                THEN rtSent' = [rtSent EXCEPT ![s] = RtDuration(rtClock[s])] /\ rtSlack' = [rtSlack EXCEPT ![s] = RtInterval]
                ELSE UNCHANGED <<rtSent, rtSlack>>
    <3>1. rtPc' = [rtPc EXCEPT ![s] = rtPc'[s]] /\ rtPc'[s] = "open"
      BY <1>1, <1>7, <2>1
    <3>2. /\ \/ UNCHANGED <<rtSent, rtSlack>>
             \/ /\ rtSent' = [rtSent EXCEPT ![s] = RtDuration(rtClock[s])] /\ rtSlack' = [rtSlack EXCEPT ![s] = RtInterval]
                /\ rtAudio'[s]
          /\ (~rtAudio'[s] => rtSent' = rtSent)
      BY <2>1
    <3>3. CASE RtMustCheckpoint(s, audio) /\ CheckpointOk(s, rtClock[s])
      <4>1. rtAudio'[s]
        BY <1>6, <3>3
      <4> QED
        BY <1>1, <1>4, <3>1, <3>2, <3>3, <4>1, WriteStep
    <3>4. CASE ~RtMustCheckpoint(s, audio) /\ RtFine /\ UNCHANGED <<rtHash, rtMark>>
      <4>1. rtAudio'[s] => rtAudio[s]
        BY <1>4, <3>4 DEF RtMustCheckpoint
      <4>2. rtAudio[s] => rtClock[s] - rtMark[s] < RtInterval
        <5>1. rtAudio[s] => ~(rtClock[s] - rtMark[s] >= RtInterval)
          BY <3>4 DEF RtMustCheckpoint
        <5>2. rtClock[s] \in 0..RtHour /\ rtMark[s] \in 0..RtHour /\ RtInterval \in Nat /\ RtHour \in Nat
          BY <1>2, RtAssumption DEF RelayTypes
        <5> QED
          BY <5>1, <5>2
      <4> QED
        BY <1>1, <1>4, <3>1, <3>2, <3>4, <4>1, <4>2, WriteStep
    <3> QED
      BY <1>8, <3>3, <3>4
  <2>2. CASE rtPc' = [rtPc EXCEPT ![s] = RtEnding(s)] /\ UNCHANGED <<rtSent, rtSlack>>
    <3>1. rtPc' = [rtPc EXCEPT ![s] = rtPc'[s]] /\ rtPc'[s] = ending
      BY <1>2, <1>5, <2>2 DEF RelayTypes
    <3>2. UNCHANGED <<rtSent, rtSlack>> /\ rtSent' = rtSent
      BY <2>2
    <3>3. rtPc'[s] \in {"open", "settle", "leave"} /\ rtPc'[s] # "open" /\ (rtPc'[s] = "leave" => ~rtAudio'[s]) /\ (rtPc'[s] = "settle" => rtAudio'[s])
      BY <3>1
    <3>4. CheckpointOk(s, rtClock[s]) \/ (RtFine /\ UNCHANGED <<rtHash, rtMark>>)
      BY <1>8
    <3>5. ~rtAudio'[s] => RtFine /\ UNCHANGED <<rtHash, rtMark>>
      BY <1>6, <1>8
    <3> QED
      BY <1>1, <1>4, <3>1, <3>2, <3>3, <3>4, <3>5, WriteStep
  <2> QED
    <3>1. RtMustCheckpoint(s, audio) /\ CheckpointFails(s, rtClock[s]) => ~CheckpointOk(s, rtClock[s])
      <4>1. rtFaults \in Nat
        BY <1>2, RtAssumption DEF RelayTypes
      <4> QED
        BY <4>1 DEF CheckpointFails, CheckpointOk, RtFault, RtFine
    <3> QED
      BY <1>8, <2>1, <2>2, <3>1 DEF RtFrame
<1>9. CASE RtMustCheckpoint(s, audio) /\ CheckpointFails(s, rtClock[s])  /\ rtPc' = [rtPc EXCEPT ![s] = RtEnding(s)] /\ UNCHANGED <<rtSent, rtSlack>>
  <2>1. rtAudio'[s]
    BY <1>6, <1>9
  <2>2. rtPc' = [rtPc EXCEPT ![s] = rtPc'[s]] /\ rtPc'[s] = "settle"
    BY <1>2, <1>5, <1>9, <2>1 DEF RelayTypes
  <2> QED
    BY <1>1, <1>4, <1>9, <2>1, <2>2, WriteStep
<1> QED
  BY <1>8, <1>9 DEF RtFrame

\* What a settlement of session s by actor a leaves alone.
SettleWrites(a, s) ==
    /\ UNCHANGED <<rtClock, rtAudio, rtTick, rtSent, rtSlack, rtLive, rtApp, rtCrashes, rtAgenda>>
    /\ \A x \in RtSessions \ {s} : /\ rtHash'[x] = rtHash[x] /\ rtPending'[x] = rtPending[x] /\ rtBooks'[x] = rtBooks[x]
                                   /\ rtMark'[x] = rtMark[x] /\ rtPc'[x] = rtPc[x]
    /\ \A b \in RtActors \ {a} : rtJob'[b] = rtJob[b]
    /\ rtJob'[a].id \in {s, RtWorker} /\ rtScan' \subseteq rtScan
    /\ (rtBooks[s] # 0 => rtBooks'[s] = rtBooks[s]) /\ (rtFaults' = 0 => rtFaults = 0)
    /\ (a = s => rtPc[s] = "settle") /\ (a = RtWorker => rtPc'[s] = rtPc[s])

\* The types of what a settlement writes.
SettleTypes ==
    /\ rtPc \in [RtSessions -> {"new", "dial", "open", "settle", "leave", "done"}]
    /\ rtMark \in [RtSessions -> 0..RtHour] /\ rtHash \in [RtSessions -> 0..RtHour]
    /\ rtPending \in [RtSessions -> 0..RtHour] /\ rtBooks \in [RtSessions -> 0..RtHour]
    /\ rtJob \in [RtActors -> RtSnapshot] /\ rtFaults \in 0..RtMaxFaults

\* The rest of the state, after a step of a settlement.
LEMMA SettleKept ==
  ASSUME RealtimeInv, NEW s \in RtSessions, NEW a \in RtActors, a = s \/ a = RtWorker, SettleWrites(a, s), SettleTypes',
         RelayInv(s)', RtJobInv(a)', RtClean' => CleanSession(s)' /\ CleanActor(a)'
  PROVE  RealtimeInv'
<1>1. RtTypeOK'
  BY DEF RealtimeInv, RtTypeOK, SettleTypes, SettleWrites, RtSnapshot
<1>2. ASSUME NEW x \in RtSessions, x # s PROVE SameSession(x)
  <2>1. x # a /\ x \in RtActors /\ x # RtWorker
    BY <1>2, RtAssumption DEF RtActors
  <2>2. \A b \in RtActors : rtJob'[b].id = x => rtJob'[b] = rtJob[b]
    BY <1>2, <2>1 DEF SettleWrites
  <2>3. rtJob \in [RtActors -> RtSnapshot]
    BY DEF RealtimeInv, RtTypeOK, RtSnapshot
  <2> QED
    BY <1>2, <2>1, <2>2, <2>3 DEF SettleWrites, SameSession
<1>3. ASSUME NEW x \in RtSessions PROVE RelayInv(x)'
  <2>1. CASE x # s
    BY <1>2, <2>1, SessionKept DEF RealtimeInv
  <2> QED
    BY <2>1
<1>4. ASSUME NEW b \in RtActors PROVE RtJobInv(b)'
  <2>1. CASE b # a
    <3>1. RtJobInv(b) /\ rtJob'[b] = rtJob[b]
      BY <2>1 DEF RealtimeInv, SettleWrites
    <3>2. rtJob[b].id \in RtSessions /\ rtBooks[rtJob[b].id] # 0 => rtBooks'[rtJob[b].id] = rtBooks[rtJob[b].id]
      BY DEF SettleWrites
    <3>3. b \in RtSessions => rtPc'[b] = rtPc[b]
      BY <2>1 DEF SettleWrites
    <3> QED
      BY <3>1, <3>2, <3>3 DEF RtJobInv
  <2> QED
    BY <2>1
<1>5. RtClean' => CleanInv'
  <2> SUFFICES ASSUME RtClean' PROVE CleanInv'
    OBVIOUS
  <2>1. CleanInv
    BY DEF RtClean, SettleWrites, RealtimeInv
  <2>2. ASSUME NEW x \in RtSessions, x # s PROVE CleanSession(x)'
    <3>1. x # a /\ x \in RtActors /\ x # RtWorker
      BY <2>2, RtAssumption DEF RtActors
    <3>2. CleanSession(x) /\ rtJob'[x] = rtJob[x]
      BY <2>1, <3>1 DEF CleanInv, SettleWrites
    <3> QED
      BY <2>2, <3>2 DEF CleanSession, SettleWrites
  <2>3. ASSUME NEW b \in RtActors, b # a PROVE CleanActor(b)'
    <3>1. CleanActor(b) /\ rtJob'[b] = rtJob[b] /\ RtJobInv(b)
      BY <2>1, <2>3 DEF CleanInv, SettleWrites, RealtimeInv
    <3>2. b = RtWorker => a = s /\ rtPc[s] = "settle"
      BY <2>3 DEF SettleWrites
    <3>3. b = RtWorker /\ rtJob[b].at = "read" => rtPc'[rtJob[b].id] = "done"
      BY <3>1, <3>2 DEF RtJobInv, CleanActor, SettleWrites
    <3> QED
      BY <3>1, <3>3 DEF CleanActor, SettleWrites
  <2> QED
    BY <2>2, <2>3 DEF CleanInv
<1> QED
  BY <1>1, <1>3, <1>4, <1>5 DEF RealtimeInv, SettleWrites

\* A session whose receipt is frozen, after a step of its settlement.
LEMMA FrozenKept ==
  ASSUME RealtimeInv, NEW s \in RtSessions, NEW a \in RtActors, SettleWrites(a, s), NEW f \in 1..RtHour, AgreeOn(s, f),
         RtFrozen(s), RtFrozen(s)', rtMark' = rtMark, SettleTypes',
         rtHash'[s] \in {rtHash[s], 0}, rtPending'[s] \in {rtPending[s], 0, f}, rtBooks'[s] \in {rtBooks[s], f},
         rtBooks'[s] = f \/ (rtHash'[s] = rtHash[s] /\ rtPending'[s] \in {rtPending[s], f}),
         rtJob'[a].id = s => rtJob'[a].cost \in {0, f}, rtPc'[s] \in {rtPc[s], "leave"}, rtPc[s] = "done" => rtPc'[s] = "done"
  PROVE  RelayInv(s)'
<1>1. RelayInv(s) /\ RtTypeOK
  BY DEF RealtimeInv
<1>2. AgreeOn(s, f)'
  <2>1. \A b \in RtActors : rtJob'[b].id = s => rtJob'[b].cost \in {0, f}
    BY DEF AgreeOn, SettleWrites
  <2>2. \A n \in 1..RtHour : <<s, n>> \in rtScan' /\ Head(rtAgenda') = "receipts" => n = f
    BY DEF AgreeOn, SettleWrites
  <2> QED
    BY <2>1, <2>2 DEF AgreeOn
<1>3. Covered(s)'
  <2> PICK h, p, k, t, z : h = rtHash[s] /\ p = rtPending[s] /\ k = rtBooks[s] /\ t = rtSent[s] /\ z = rtSlack[s]
    OBVIOUS
  <2>1. h \in {0, f} /\ p \in {0, f} /\ k \in {0, f}
    BY DEF AgreeOn
  <2>2. t # 0 => \E v \in {h, p, k} : t - v < z
    BY <1>1 DEF RelayInv, Covered
  <2>3. t \in Nat /\ f \in Nat /\ z \in Nat /\ RtHour \in Nat
    BY <1>1, RtAssumption DEF RtTypeOK
  <2>4. t # 0 => t - f < z
    BY <2>1, <2>2, <2>3
  <2>5. rtSent'[s] = t /\ rtSlack'[s] = z
    BY DEF SettleWrites
  <2>6. CASE rtBooks'[s] = f
    BY <2>4, <2>5, <2>6 DEF Covered
  <2>7. CASE rtHash'[s] = rtHash[s] /\ rtPending'[s] \in {rtPending[s], f}
    BY <2>2, <2>4, <2>5, <2>7 DEF Covered
  <2> QED
    BY <2>6, <2>7
<1>4. rtPc[s] \notin {"new", "dial", "open"} /\ rtPc'[s] \notin {"new", "dial", "open"}
  BY DEF RtFrozen
<1>5. (rtPc'[s] = "settle" => rtPc[s] = "settle") /\ (rtPc'[s] \notin {"new", "done"} => rtPc[s] \notin {"new", "done"})
  BY <1>4
<1> QED
  BY <1>1, <1>2, <1>3, <1>4, <1>5 DEF RelayInv, SettleWrites

\* What is settled: its session is frozen.
LEMMA Settled ==
  ASSUME RealtimeInv, NEW a \in RtActors, rtJob[a].at # "idle"
  PROVE  /\ rtJob[a].id \in RtSessions /\ (a = rtJob[a].id \/ a = RtWorker) /\ (a = rtJob[a].id => rtPc[a] = "settle")
         /\ RtFrozen(rtJob[a].id) /\ (\E f \in 1..RtHour : AgreeOn(rtJob[a].id, f)) /\ rtJob[a] \in RtSnapshot /\ RtJobInv(a)
<1>1. RtJobInv(a) /\ rtJob[a] \in RtSnapshot
  BY DEF RealtimeInv, RtTypeOK, RtSnapshot
<1> PICK s : s = rtJob[a].id
  OBVIOUS
<1>2. s \in RtSessions /\ (a \in RtSessions => s = a /\ rtPc[a] = "settle")
  BY <1>1 DEF RtJobInv
<1>3. RelayInv(s)
  BY <1>2 DEF RealtimeInv
<1>4. RtFrozen(s)
  BY <1>3 DEF RelayInv
<1>5. \E f \in 1..RtHour : AgreeOn(s, f)
  BY <1>3, <1>4 DEF RelayInv
<1>6. a \in RtSessions \/ a = RtWorker
  BY DEF RtActors
<1> QED
  BY <1>1, <1>2, <1>4, <1>5, <1>6

\* A settlement goes on, or is over.
Goes(a) ==
    /\ UNCHANGED <<rtPc, rtScan>> /\ rtJob' = [rtJob EXCEPT ![a] = rtJob'[a]]
    /\ rtJob'[a] \in RtSnapshot /\ rtJob'[a].at # "idle" /\ rtJob'[a].id = rtJob[a].id
Returns(a) ==
    /\ rtJob' = [rtJob EXCEPT ![a] = RtIdle] /\ rtScan' \subseteq rtScan
    /\ rtPc' = IF a = RtWorker THEN rtPc ELSE [rtPc EXCEPT ![a] = "leave"]

\* What a step of a settlement may write.
LEMMA SettleStep ==
  ASSUME RealtimeInv, NEW a \in RtActors, rtJob[a].at # "idle", NEW s, s = rtJob[a].id, NEW f \in 1..RtHour, AgreeOn(s, f),
         UNCHANGED <<rtClock, rtAudio, rtMark, rtTick, rtSent, rtSlack, rtLive, rtApp, rtCrashes, rtAgenda>>,
         rtHash' = [rtHash EXCEPT ![s] = rtHash'[s]], rtHash'[s] \in {rtHash[s], 0},
         rtPending' = [rtPending EXCEPT ![s] = rtPending'[s]], rtPending'[s] \in {rtPending[s], 0, f},
         rtBooks' = [rtBooks EXCEPT ![s] = rtBooks'[s]], rtBooks'[s] \in {rtBooks[s], f},
         rtBooks'[s] = f \/ (rtHash'[s] = rtHash[s] /\ rtPending'[s] \in {rtPending[s], f}),
         rtFaults' = rtFaults \/ (rtFaults' = rtFaults + 1 /\ rtFaults < RtMaxFaults),
         Goes(a) \/ Returns(a), rtJob'[a].cost \in {0, f}, Goes(a) => RtJobInv(a)',
         RtClean' => CleanSession(s)' /\ CleanActor(a)'
  PROVE  RealtimeInv'
<1>1. s \in RtSessions /\ (a = s \/ a = RtWorker) /\ (a = s => rtPc[a] = "settle") /\ RtFrozen(s) /\ s # RtWorker
  BY Settled, RtAssumption
<1>2. SettleTypes /\ RtIdle \in RtSnapshot /\ RtHour \in Nat
  <2>1. SettleTypes
    BY DEF RealtimeInv, RtTypeOK, SettleTypes, RtSnapshot
  <2>2. RtIdle \in RtSnapshot /\ RtHour \in Nat
    BY RtAssumption DEF RtSnapshot, RtIdle, RtActors
  <2> QED
    BY <2>1, <2>2
<1>3. f \in 0..RtHour /\ rtHash'[s] \in 0..RtHour /\ rtPending'[s] \in 0..RtHour /\ rtBooks'[s] \in 0..RtHour
  BY <1>1, <1>2 DEF SettleTypes
<1>4. rtFaults' \in 0..RtMaxFaults /\ (rtFaults' = 0 => rtFaults = 0)
  BY <1>2, RtAssumption DEF SettleTypes
<1>5. rtJob' \in [RtActors -> RtSnapshot] /\ rtPc' \in [RtSessions -> {"new", "dial", "open", "settle", "leave", "done"}]
  BY <1>1, <1>2 DEF SettleTypes, Goes, Returns
<1>6. SettleTypes'
  BY <1>2, <1>3, <1>4, <1>5 DEF SettleTypes
<1>7. rtJob'[a].id \in {s, RtWorker} /\ (\A b \in RtActors \ {a} : rtJob'[b] = rtJob[b]) /\ rtScan' \subseteq rtScan
  BY <1>2 DEF SettleTypes, Goes, Returns, RtIdle
<1>8. \A x \in RtSessions \ {s} : /\ rtHash'[x] = rtHash[x] /\ rtPending'[x] = rtPending[x] /\ rtBooks'[x] = rtBooks[x]
                                  /\ rtMark'[x] = rtMark[x] /\ rtPc'[x] = rtPc[x]
  <2> TAKE x \in RtSessions \ {s}
  <2>1. rtHash'[x] = rtHash[x] /\ rtPending'[x] = rtPending[x] /\ rtBooks'[x] = rtBooks[x]
    BY <1>1, <1>2 DEF SettleTypes
  <2>2. rtPc'[x] = rtPc[x]
    BY <1>1, <1>2 DEF SettleTypes, Goes, Returns
  <2> QED
    BY <2>1, <2>2
<1>9. rtBooks[s] # 0 => rtBooks'[s] = rtBooks[s]
  BY DEF AgreeOn
<1>10. rtPc'[s] \in {rtPc[s], "leave"} /\ (a = RtWorker => rtPc'[s] = rtPc[s]) /\ RtFrozen(s)'
  <2>1. CASE Goes(a)
    <3>1. rtPc' = rtPc /\ (rtJob'[s].at # "idle" <=> rtJob[s].at # "idle")
      <4>1. a = s => rtJob'[s].at # "idle" /\ rtJob[s].at # "idle"
        BY <2>1 DEF Goes
      <4>2. a # s => rtJob'[s] = rtJob[s]
        BY <1>1, <1>7 DEF RtActors
      <4> QED
        BY <2>1, <4>1, <4>2, SMTT(30) DEF Goes
    <3> QED
      BY <1>1, <3>1 DEF RtFrozen
  <2>2. CASE Returns(a)
    <3>1. CASE a = s
      BY <1>1, <1>2, <2>2, <3>1 DEF Returns, RtFrozen, SettleTypes
    <3>2. CASE a = RtWorker
      <4>1. rtPc' = rtPc /\ rtJob'[s] = rtJob[s]
        BY <1>1, <1>7, <2>2, <3>2 DEF Returns, RtActors
      <4> QED
        BY <1>1, <3>2, <4>1 DEF RtFrozen
    <3> QED
      BY <1>1, <3>1, <3>2, SMTT(30)
  <2> QED
    BY <2>1, <2>2
<1>11. SettleWrites(a, s)
  BY <1>1, <1>4, <1>7, <1>8, <1>9, <1>10 DEF SettleWrites
<1>12. rtPc[s] = "done" => rtPc'[s] = "done"
  BY <1>1, <1>10
<1>13. RelayInv(s)'
  BY <1>1, <1>6, <1>10, <1>11, <1>12, FrozenKept
<1>14. RtJobInv(a)'
  <2>1. CASE Returns(a)
    <3>1. rtJob'[a] = RtIdle
      BY <1>2, <2>1 DEF Returns, SettleTypes
    <3> QED
      BY <3>1 DEF RtJobInv, RtIdle
  <2> QED
    BY <2>1
<1> QED
  BY <1>1, <1>6, <1>11, <1>13, <1>14, SettleKept

\* A settlement ends.
LEMMA ReturnsSo ==
  ASSUME RealtimeInv, NEW a \in RtActors, NEW failed \in BOOLEAN, RtReturn(a, failed)
  PROVE  Returns(a) /\ rtJob'[a] = RtIdle /\ rtJob'[a].cost = 0 /\ rtJob'[a].at = "idle" /\ ~Goes(a) /\ UNCHANGED rtAgenda
<1>1. rtJob \in [RtActors -> RtSnapshot]
  BY DEF RealtimeInv, RtTypeOK, RtSnapshot
<1>2. rtJob'[a] = RtIdle
  BY <1>1 DEF RtReturn
<1> QED
  BY <1>2 DEF RtReturn, Returns, Goes, RtIdle

\* What a settlement works with.
LEMMA SettleFacts ==
  ASSUME RealtimeInv, NEW a \in RtActors, rtJob[a].at # "idle", NEW s, s = rtJob[a].id
  PROVE  /\ s \in RtSessions /\ SettleTypes /\ rtJob[a] \in RtSnapshot /\ RtJobInv(a) /\ rtSent[s] \in Nat /\ rtBooks[s] \in Nat /\ rtFaults \in Nat
         /\ rtHash = [rtHash EXCEPT ![s] = rtHash[s]] /\ rtPending = [rtPending EXCEPT ![s] = rtPending[s]]
         /\ rtBooks = [rtBooks EXCEPT ![s] = rtBooks[s]] /\ RelayInv(s) /\ (RtClean => CleanSession(s) /\ CleanActor(a))
         /\ (a = RtWorker \/ (a = s /\ rtPc[s] = "settle" /\ a # RtWorker))
<1>1. s \in RtSessions /\ rtJob[a] \in RtSnapshot /\ RtJobInv(a) /\ (a = RtWorker \/ (a = s /\ rtPc[s] = "settle" /\ a # RtWorker))
  BY Settled, RtAssumption
<1>2. SettleTypes
  BY DEF RealtimeInv, RtTypeOK, SettleTypes, RtSnapshot
<1>3. rtSent[s] \in 0..RtHour /\ rtBooks[s] \in 0..RtHour
  BY <1>1 DEF RealtimeInv, RtTypeOK
<1>4. rtHash = [rtHash EXCEPT ![s] = rtHash[s]] /\ rtPending = [rtPending EXCEPT ![s] = rtPending[s]]
      /\ rtBooks = [rtBooks EXCEPT ![s] = rtBooks[s]]
  BY <1>1, <1>2 DEF SettleTypes
<1>5. rtFaults \in Nat /\ rtSent[s] \in Nat /\ rtBooks[s] \in Nat
  BY <1>2, <1>3, RtAssumption DEF SettleTypes
<1>6. RelayInv(s) /\ (RtClean => CleanSession(s) /\ CleanActor(a))
  BY <1>1 DEF RealtimeInv, CleanInv
<1> QED
  BY <1>1, <1>2, <1>4, <1>5, <1>6

\* A step of a clean run was clean before.
LEMMA FaultCounts ==
  ASSUME rtFaults \in Nat, UNCHANGED <<rtApp, rtCrashes>>
  PROVE  (RtFault => ~RtClean' /\ rtFaults' = rtFaults + 1 /\ rtFaults < RtMaxFaults) /\ (RtFine => rtFaults' = rtFaults /\ (RtClean' => RtClean))
BY DEF RtFault, RtFine, RtClean

\* A checkpoint is read.
LEMMA ReadStep == ASSUME RealtimeInv, NEW a \in RtActors, ReadCheckpoint(a) PROVE RealtimeInv'
<1> PICK s, j : s = rtJob[a].id /\ j = rtJob[a]
  OBVIOUS
<1>1. j.at = "read" /\ UNCHANGED <<rtClock, rtAudio, rtMark, rtTick, rtSent, rtSlack, rtLive, rtApp, rtCrashes, rtHash, rtPending, rtBooks>>
  BY DEF ReadCheckpoint, rtRelay, rtStore, rtProcess
<1>2. rtJob[a].at # "idle"
  BY <1>1
<1>3. /\ s \in RtSessions /\ SettleTypes /\ j \in RtSnapshot /\ RtJobInv(a) /\ rtSent[s] \in Nat /\ rtBooks[s] \in Nat /\ rtFaults \in Nat
      /\ rtHash = [rtHash EXCEPT ![s] = rtHash[s]] /\ rtPending = [rtPending EXCEPT ![s] = rtPending[s]]
      /\ rtBooks = [rtBooks EXCEPT ![s] = rtBooks[s]] /\ RelayInv(s) /\ (RtClean => CleanSession(s) /\ CleanActor(a))
      /\ (a = RtWorker \/ (a = s /\ rtPc[s] = "settle" /\ a # RtWorker))
  BY <1>2, SettleFacts
<1>4. PICK f \in 1..RtHour : AgreeOn(s, f)
  BY <1>2, Settled
<1>5. (RtFault => ~RtClean' /\ rtFaults' = rtFaults + 1 /\ rtFaults < RtMaxFaults) /\ (RtFine => rtFaults' = rtFaults /\ (RtClean' => RtClean))
  BY <1>1, <1>3, FaultCounts
<1>6. /\ rtHash' = [rtHash EXCEPT ![s] = rtHash'[s]] /\ rtHash'[s] = rtHash[s] /\ rtPending' = [rtPending EXCEPT ![s] = rtPending'[s]]
      /\ rtPending'[s] = rtPending[s] /\ rtBooks' = [rtBooks EXCEPT ![s] = rtBooks'[s]] /\ rtBooks'[s] = rtBooks[s]
  BY <1>1, <1>3
<1>7. ASSUME RtReturn(a, TRUE), RtFine \/ RtFault, RtClean' => RtClean /\ rtHash[s] = 0 PROVE RealtimeInv'
  <2>1. Returns(a) /\ rtJob'[a].cost = 0 /\ rtJob'[a].at = "idle" /\ ~Goes(a) /\ UNCHANGED rtAgenda
    BY <1>7, ReturnsSo
  <2>2. RtClean' => a = RtWorker
    BY <1>1, <1>3, <1>7 DEF CleanSession
  <2>3. RtClean' => rtPc' = rtPc /\ (rtJob'[s] = rtJob[s])
    BY <1>3, <2>1, <2>2, RtAssumption DEF Returns, SettleTypes
  <2>4. RtClean' => CleanSession(s)' /\ CleanActor(a)'
    BY <1>1, <1>3, <1>7, <2>1, <2>3 DEF CleanSession, CleanActor
  <2>5. rtFaults' = rtFaults \/ (rtFaults' = rtFaults + 1 /\ rtFaults < RtMaxFaults)
    BY <1>5, <1>7
  <2> QED
    BY <1>1, <1>2, <1>4, <1>6, <2>1, <2>4, <2>5, SettleStep
<1>8. CASE rtHash[s] # 0 /\ RtFine /\ rtJob' = [rtJob EXCEPT ![a].at = "note", ![a].cost = rtHash[s]] /\ UNCHANGED <<rtPc, rtScan, rtAgenda>>
  <2> DEFINE n == [[j EXCEPT !.at = "note"] EXCEPT !.cost = rtHash[s]]
  <2>1. n \in RtSnapshot /\ n.at = "note" /\ n.cost = rtHash[s] /\ n.id = s /\ rtJob' = [rtJob EXCEPT ![a] = n]
    <3>1. rtHash[s] \in 0..RtHour
      BY <1>3 DEF SettleTypes
    <3> QED
      BY <1>3, <1>8, <3>1 DEF RtSnapshot, SettleTypes
  <2> HIDE DEF n
  <2>2. rtJob'[a] = n
    BY <1>3, <2>1 DEF SettleTypes
  <2>3. Goes(a) /\ rtJob'[a].cost \in {0, f}
    BY <1>4, <1>8, <2>1, <2>2 DEF Goes, AgreeOn
  <2>4. RtJobInv(a)'
    BY <1>2, <1>3, <1>8, <2>1, <2>2 DEF RtJobInv
  <2>5. RtClean' => CleanSession(s)' /\ CleanActor(a)'
    <3> SUFFICES ASSUME RtClean' PROVE CleanSession(s)' /\ CleanActor(a)'
      OBVIOUS
    <3>1. CleanSession(s) /\ CleanActor(a)
      BY <1>3, <1>5, <1>8
    <3>2. a # RtWorker
      BY <1>1, <1>8, <3>1 DEF CleanActor, CleanSession
    <3> QED
      BY <1>1, <1>3, <1>8, <2>1, <2>2, <3>1, <3>2 DEF CleanSession, CleanActor
  <2> QED
    BY <1>1, <1>2, <1>4, <1>5, <1>6, <1>8, <2>3, <2>4, <2>5, SettleStep
<1>9. CASE rtHash[s] = 0 /\ RtFine /\ RtReturn(a, TRUE)
  BY <1>5, <1>7, <1>9
<1>10. CASE RtFault /\ RtReturn(a, TRUE)
  BY <1>5, <1>7, <1>10
<1> QED
  BY <1>8, <1>9, <1>10 DEF ReadCheckpoint

\* A receipt is noted.
LEMMA NoteStep == ASSUME RealtimeInv, NEW a \in RtActors, NoteReceipt(a) PROVE RealtimeInv'
<1> PICK s, j : s = rtJob[a].id /\ j = rtJob[a]
  OBVIOUS
<1>1. j.at = "note" /\ UNCHANGED <<rtClock, rtAudio, rtMark, rtTick, rtSent, rtSlack, rtLive, rtApp, rtCrashes, rtHash, rtBooks, rtPc, rtScan, rtAgenda>>
  BY DEF NoteReceipt, rtRelay, rtStore, rtProcess
<1>2. rtJob[a].at # "idle"
  BY <1>1
<1>3. /\ s \in RtSessions /\ SettleTypes /\ j \in RtSnapshot /\ RtJobInv(a) /\ rtSent[s] \in Nat /\ rtBooks[s] \in Nat /\ rtFaults \in Nat
      /\ rtHash = [rtHash EXCEPT ![s] = rtHash[s]] /\ rtPending = [rtPending EXCEPT ![s] = rtPending[s]]
      /\ rtBooks = [rtBooks EXCEPT ![s] = rtBooks[s]] /\ RelayInv(s) /\ (RtClean => CleanSession(s) /\ CleanActor(a))
      /\ (a = RtWorker \/ (a = s /\ rtPc[s] = "settle" /\ a # RtWorker))
  BY <1>2, SettleFacts
<1>4. PICK f \in 1..RtHour : AgreeOn(s, f)
  BY <1>2, Settled
<1>5. (RtFault => ~RtClean' /\ rtFaults' = rtFaults + 1 /\ rtFaults < RtMaxFaults) /\ (RtFine => rtFaults' = rtFaults /\ (RtClean' => RtClean))
  BY <1>1, <1>3, FaultCounts
<1>6. j.cost = f /\ f # 0 /\ f \in Nat /\ j.cost \in 0..RtHour
  BY <1>1, <1>3, <1>4, RtAssumption DEF AgreeOn, RtJobInv, RtSnapshot
<1>7. PICK n \in RtSnapshot : /\ n.at = "apply" /\ n.cost = f /\ n.id = s /\ rtJob' = [rtJob EXCEPT ![a] = n]
                              /\ \/ RtFine /\ n.noted /\ rtPending' = [rtPending EXCEPT ![s] = f]
                                 \/ RtFault /\ rtPending' \in {rtPending, [rtPending EXCEPT ![s] = f]}
  <2>1. CASE RtFine /\ rtPending' = [rtPending EXCEPT ![s] = f] /\ rtJob' = [rtJob EXCEPT ![a].at = "apply", ![a].noted = TRUE]
    <3> DEFINE n == [[j EXCEPT !.at = "apply"] EXCEPT !.noted = TRUE]
    <3>1. n \in RtSnapshot /\ n.at = "apply" /\ n.cost = f /\ n.id = s /\ n.noted
      BY <1>3, <1>6 DEF RtSnapshot
    <3>2. rtJob' = [rtJob EXCEPT ![a] = n]
      BY <1>3, <2>1 DEF SettleTypes
    <3> HIDE DEF n
    <3> QED
      BY <2>1, <3>1, <3>2
  <2>2. CASE RtFault /\ rtPending' \in {rtPending, [rtPending EXCEPT ![s] = f]} /\ rtJob' = [rtJob EXCEPT ![a].at = "apply"]
    <3> DEFINE n == [j EXCEPT !.at = "apply"]
    <3>1. n \in RtSnapshot /\ n.at = "apply" /\ n.cost = f /\ n.id = s
      BY <1>3, <1>6 DEF RtSnapshot
    <3>2. rtJob' = [rtJob EXCEPT ![a] = n]
      BY <1>3, <2>2 DEF SettleTypes
    <3> HIDE DEF n
    <3> QED
      BY <2>2, <3>1, <3>2
  <2> QED
    BY <1>6, <2>1, <2>2 DEF NoteReceipt
<1>8. rtJob'[a] = n
  BY <1>3, <1>7 DEF SettleTypes
<1>9. Goes(a) /\ rtJob'[a].cost \in {0, f}
  BY <1>1, <1>7, <1>8 DEF Goes
<1>10. RtJobInv(a)'
  BY <1>1, <1>2, <1>3, <1>6, <1>7, <1>8 DEF RtJobInv
<1>11. rtPending' = [rtPending EXCEPT ![s] = rtPending'[s]] /\ rtPending'[s] \in {rtPending[s], f}
  BY <1>3, <1>7 DEF SettleTypes
<1>12. /\ rtHash' = [rtHash EXCEPT ![s] = rtHash'[s]] /\ rtHash'[s] = rtHash[s] /\ rtBooks' = [rtBooks EXCEPT ![s] = rtBooks'[s]]
       /\ rtBooks'[s] = rtBooks[s]
  BY <1>1, <1>3
<1>13. RtClean' => CleanSession(s)' /\ CleanActor(a)'
  <2> SUFFICES ASSUME RtClean' PROVE CleanSession(s)' /\ CleanActor(a)'
    OBVIOUS
  <2>1. n.noted /\ CleanSession(s) /\ CleanActor(a)
    BY <1>3, <1>5, <1>7
  <2>2. a # RtWorker
    BY <1>1, <2>1 DEF CleanActor
  <2> QED
    BY <1>1, <1>3, <1>7, <1>8, <2>1, <2>2 DEF CleanSession, CleanActor
<1>14. rtFaults' = rtFaults \/ (rtFaults' = rtFaults + 1 /\ rtFaults < RtMaxFaults)
  BY <1>5, <1>7
<1> QED
  BY <1>1, <1>2, <1>4, <1>9, <1>10, <1>11, <1>12, <1>13, <1>14, SettleStep

\* A receipt is charged.
LEMMA ApplyStep == ASSUME RealtimeInv, NEW a \in RtActors, RtApply(a) PROVE RealtimeInv'
<1> PICK s, j : s = rtJob[a].id /\ j = rtJob[a]
  OBVIOUS
<1>1. j.at = "apply" /\ UNCHANGED <<rtClock, rtAudio, rtMark, rtTick, rtSent, rtSlack, rtLive, rtApp, rtCrashes, rtHash, rtPending>>
  BY DEF RtApply, rtRelay, rtStore, rtProcess
<1>2. rtJob[a].at # "idle"
  BY <1>1
<1>3. /\ s \in RtSessions /\ SettleTypes /\ j \in RtSnapshot /\ RtJobInv(a) /\ rtSent[s] \in Nat /\ rtBooks[s] \in Nat /\ rtFaults \in Nat
      /\ rtHash = [rtHash EXCEPT ![s] = rtHash[s]] /\ rtPending = [rtPending EXCEPT ![s] = rtPending[s]]
      /\ rtBooks = [rtBooks EXCEPT ![s] = rtBooks[s]] /\ RelayInv(s) /\ (RtClean => CleanSession(s) /\ CleanActor(a))
      /\ (a = RtWorker \/ (a = s /\ rtPc[s] = "settle" /\ a # RtWorker))
  BY <1>2, SettleFacts
<1>4. PICK f \in 1..RtHour : AgreeOn(s, f)
  BY <1>2, Settled
<1>5. (RtFault => ~RtClean' /\ rtFaults' = rtFaults + 1 /\ rtFaults < RtMaxFaults) /\ (RtFine => rtFaults' = rtFaults /\ (RtClean' => RtClean))
  BY <1>1, <1>3, FaultCounts
<1>6. j.cost = f /\ f # 0 /\ f \in Nat /\ j.cost \in 0..RtHour
  BY <1>1, <1>3, <1>4, RtAssumption DEF AgreeOn, RtJobInv, RtSnapshot
<1>7. rtBooks[s] \in {0, j.cost} /\ (rtBooks' = rtBooks \/ rtBooks' = [rtBooks EXCEPT ![s] = f])
      /\ (RtFine => rtBooks' = IF rtBooks[s] = 0 THEN [rtBooks EXCEPT ![s] = f] ELSE rtBooks)
  <2>1. rtBooks[s] \in {0, f}
    BY <1>4 DEF AgreeOn
  <2>2. RtFine => ~RtFault
    BY <1>3 DEF RtFine, RtFault
  <2> QED
    BY <1>6, <2>1, <2>2 DEF RtApply
<1>8. /\ rtHash' = [rtHash EXCEPT ![s] = rtHash'[s]] /\ rtHash'[s] = rtHash[s] /\ rtPending' = [rtPending EXCEPT ![s] = rtPending'[s]]
      /\ rtPending'[s] = rtPending[s] /\ rtBooks' = [rtBooks EXCEPT ![s] = rtBooks'[s]] /\ rtBooks'[s] \in {rtBooks[s], f}
  BY <1>1, <1>3, <1>7 DEF SettleTypes
<1>9. CASE RtFine /\ RtGoto(a, IF j.noted THEN "forget" ELSE "drop")
  <2> PICK at \in {"forget", "drop"} : at = (IF j.noted THEN "forget" ELSE "drop") /\ RtGoto(a, at)
    BY <1>9
  <2> DEFINE n == [j EXCEPT !.at = at]
  <2>1. n \in RtSnapshot /\ n.at = at /\ n.cost = f /\ n.id = s /\ rtJob' = [rtJob EXCEPT ![a] = n]
    BY <1>3, <1>6 DEF RtSnapshot, SettleTypes, RtGoto
  <2> HIDE DEF n
  <2>2. rtJob'[a] = n
    BY <1>3, <2>1 DEF SettleTypes
  <2>3. Goes(a) /\ rtJob'[a].cost \in {0, f} /\ UNCHANGED <<rtAgenda, rtPc>>
    BY <2>1, <2>2 DEF Goes, RtGoto
  <2>4. rtBooks'[s] = f
    <3>1. rtBooks[s] \in {0, f}
      BY <1>6, <1>7
    <3>2. rtBooks' = IF rtBooks[s] = 0 THEN [rtBooks EXCEPT ![s] = f] ELSE rtBooks
      BY <1>7, <1>9
    <3> QED
      BY <1>3, <3>1, <3>2 DEF SettleTypes
  <2>5. RtJobInv(a)'
    BY <1>2, <1>3, <1>6, <2>1, <2>2, <2>3, <2>4 DEF RtJobInv
  <2>6. RtClean' => CleanSession(s)' /\ CleanActor(a)'
    <3> SUFFICES ASSUME RtClean' PROVE CleanSession(s)' /\ CleanActor(a)'
      OBVIOUS
    <3>1. CleanSession(s) /\ CleanActor(a)
      BY <1>3, <1>5, <1>9
    <3>2. at = "forget"
      BY <1>1, <3>1 DEF CleanActor
    <3>3. rtSent[s] <= rtBooks[s] => rtSent[s] <= f
      BY <1>3, <1>6, <1>7
    <3>4. CleanActor(a)'
      BY <1>1, <1>3, <2>1, <2>2, <2>3, <3>1, <3>2, SMTT(30) DEF CleanActor
    <3>5. CASE a = s
      BY <1>1, <1>3, <2>1, <2>2, <2>3, <2>4, <3>1, <3>2, <3>3, <3>4, <3>5 DEF CleanSession
    <3>6. CASE a = RtWorker
      <4>1. rtJob'[s] = rtJob[s]
        BY <1>3, <2>1, <3>6, RtAssumption DEF RtActors, SettleTypes
      <4> QED
        BY <1>1, <1>3, <2>3, <2>4, <3>1, <3>3, <3>4, <4>1 DEF CleanSession
    <3> QED
      BY <1>3, <3>5, <3>6
  <2> QED
    BY <1>1, <1>2, <1>4, <1>5, <1>8, <1>9, <2>3, <2>4, <2>5, <2>6, SettleStep
<1>10. CASE RtFault /\ RtReturn(a, TRUE)
  <2>1. Returns(a) /\ rtJob'[a].cost = 0 /\ rtJob'[a].at = "idle" /\ ~Goes(a) /\ UNCHANGED rtAgenda
    BY <1>10, ReturnsSo
  <2> QED
    BY <1>1, <1>2, <1>4, <1>5, <1>8, <1>10, <2>1, SettleStep
<1> QED
  BY <1>7, <1>9, <1>10 DEF RtApply

\* A receipt is no longer pending.
LEMMA ForgetStep == ASSUME RealtimeInv, NEW a \in RtActors, RtForgetReceipt(a) PROVE RealtimeInv'
<1> PICK s, j : s = rtJob[a].id /\ j = rtJob[a]
  OBVIOUS
<1>1. j.at = "forget" /\ UNCHANGED <<rtClock, rtAudio, rtMark, rtTick, rtSent, rtSlack, rtLive, rtApp, rtCrashes, rtHash, rtBooks>>
  BY DEF RtForgetReceipt, rtRelay, rtStore, rtProcess
<1>2. rtJob[a].at # "idle"
  BY <1>1
<1>3. /\ s \in RtSessions /\ SettleTypes /\ j \in RtSnapshot /\ RtJobInv(a) /\ rtSent[s] \in Nat /\ rtBooks[s] \in Nat /\ rtFaults \in Nat
      /\ rtHash = [rtHash EXCEPT ![s] = rtHash[s]] /\ rtPending = [rtPending EXCEPT ![s] = rtPending[s]]
      /\ rtBooks = [rtBooks EXCEPT ![s] = rtBooks[s]] /\ RelayInv(s) /\ (RtClean => CleanSession(s) /\ CleanActor(a))
      /\ (a = RtWorker \/ (a = s /\ rtPc[s] = "settle" /\ a # RtWorker))
  BY <1>2, SettleFacts
<1>4. PICK f \in 1..RtHour : AgreeOn(s, f)
  BY <1>2, Settled
<1>5. (RtFault => ~RtClean' /\ rtFaults' = rtFaults + 1 /\ rtFaults < RtMaxFaults) /\ (RtFine => rtFaults' = rtFaults /\ (RtClean' => RtClean))
  BY <1>1, <1>3, FaultCounts
<1>6. j.cost = f /\ f # 0 /\ f \in Nat /\ j.cost \in 0..RtHour
  BY <1>1, <1>3, <1>4, RtAssumption DEF AgreeOn, RtJobInv, RtSnapshot
<1>7. /\ rtHash' = [rtHash EXCEPT ![s] = rtHash'[s]] /\ rtHash'[s] = rtHash[s] /\ rtBooks' = [rtBooks EXCEPT ![s] = rtBooks'[s]]
      /\ rtBooks'[s] = rtBooks[s] /\ rtBooks[s] = f
  BY <1>1, <1>3, <1>6 DEF RtJobInv
<1>8. (RtFine /\ rtPending' = [rtPending EXCEPT ![s] = 0]) \/ (RtFault /\ rtPending' \in {rtPending, [rtPending EXCEPT ![s] = 0]})
  BY DEF RtForgetReceipt
<1>9. rtPending' = [rtPending EXCEPT ![s] = rtPending'[s]] /\ rtPending'[s] \in {rtPending[s], 0} /\ (RtClean' => rtPending'[s] = 0)
  BY <1>3, <1>5, <1>8 DEF SettleTypes
<1>10. rtFaults' = rtFaults \/ (rtFaults' = rtFaults + 1 /\ rtFaults < RtMaxFaults)
  BY <1>5, <1>8
<1> PICK recovering : recovering = (a = RtWorker /\ Head(rtAgenda) = "receipts")
  OBVIOUS
<1>11. RtClean' => CleanSession(s) /\ CleanActor(a)
  BY <1>3, <1>5, <1>8
<1>12. RtClean' /\ a = RtWorker => Head(rtAgenda) = "receipts"
  BY <1>1, <1>11 DEF CleanActor
<1>13. ASSUME NEW failed \in BOOLEAN, RtReturn(a, failed), a = RtWorker /\ Head(rtAgenda) = "receipts" PROVE RealtimeInv'
  <2>1. Returns(a) /\ rtJob'[a].cost = 0 /\ rtJob'[a].at = "idle" /\ ~Goes(a) /\ UNCHANGED rtAgenda
    BY <1>13, ReturnsSo
  <2>2. RtClean' => CleanSession(s)' /\ CleanActor(a)'
    <3>1. rtJob'[s] = rtJob[s] /\ rtPc' = rtPc
      BY <1>3, <1>13, <2>1, RtAssumption DEF RtActors, SettleTypes, Returns
    <3> QED
      BY <1>1, <1>9, <1>11, <2>1, <3>1 DEF CleanSession, CleanActor
  <2> QED
    BY <1>1, <1>2, <1>4, <1>7, <1>9, <1>10, <2>1, <2>2, SettleStep
<1>14. ASSUME RtGoto(a, "drop"), ~(a = RtWorker /\ Head(rtAgenda) = "receipts") PROVE RealtimeInv'
  <2> DEFINE n == [j EXCEPT !.at = "drop"]
  <2>1. n \in RtSnapshot /\ n.at = "drop" /\ n.cost = f /\ n.id = s /\ rtJob' = [rtJob EXCEPT ![a] = n]
    BY <1>3, <1>6, <1>14 DEF RtSnapshot, SettleTypes, RtGoto
  <2> HIDE DEF n
  <2>2. rtJob'[a] = n
    BY <1>3, <2>1 DEF SettleTypes
  <2>3. Goes(a) /\ rtJob'[a].cost \in {0, f} /\ UNCHANGED <<rtAgenda, rtPc>>
    BY <1>14, <2>1, <2>2 DEF Goes, RtGoto
  <2>4. RtJobInv(a)'
    BY <1>2, <1>3, <1>6, <1>7, <2>1, <2>2, <2>3 DEF RtJobInv
  <2>5. RtClean' => CleanSession(s)' /\ CleanActor(a)'
    <3> SUFFICES ASSUME RtClean' PROVE CleanSession(s)' /\ CleanActor(a)'
      OBVIOUS
    <3>1. a = s /\ a # RtWorker
      BY <1>3, <1>12, <1>14
    <3> QED
      BY <1>1, <1>3, <1>9, <1>11, <2>1, <2>2, <2>3, <3>1 DEF CleanSession, CleanActor
  <2> QED
    BY <1>1, <1>2, <1>4, <1>7, <1>9, <1>10, <2>3, <2>4, <2>5, SettleStep
<1>15. (a = RtWorker /\ Head(rtAgenda) = "receipts" /\ (RtReturn(a, FALSE) \/ RtReturn(a, TRUE)))
       \/ (~(a = RtWorker /\ Head(rtAgenda) = "receipts") /\ RtGoto(a, "drop"))
  BY DEF RtForgetReceipt
<1> QED
  BY <1>13, <1>14, <1>15

\* A checkpoint is removed.
LEMMA DropStep == ASSUME RealtimeInv, NEW a \in RtActors, DropCheckpoint(a) PROVE RealtimeInv'
<1> PICK s, j : s = rtJob[a].id /\ j = rtJob[a]
  OBVIOUS
<1>1. j.at = "drop" /\ UNCHANGED <<rtClock, rtAudio, rtMark, rtTick, rtSent, rtSlack, rtLive, rtApp, rtCrashes, rtPending, rtBooks>>
  BY DEF DropCheckpoint, rtRelay, rtStore, rtProcess
<1>2. rtJob[a].at # "idle"
  BY <1>1
<1>3. /\ s \in RtSessions /\ SettleTypes /\ j \in RtSnapshot /\ RtJobInv(a) /\ rtSent[s] \in Nat /\ rtBooks[s] \in Nat /\ rtFaults \in Nat
      /\ rtHash = [rtHash EXCEPT ![s] = rtHash[s]] /\ rtPending = [rtPending EXCEPT ![s] = rtPending[s]]
      /\ rtBooks = [rtBooks EXCEPT ![s] = rtBooks[s]] /\ RelayInv(s) /\ (RtClean => CleanSession(s) /\ CleanActor(a))
      /\ (a = RtWorker \/ (a = s /\ rtPc[s] = "settle" /\ a # RtWorker))
  BY <1>2, SettleFacts
<1>4. PICK f \in 1..RtHour : AgreeOn(s, f)
  BY <1>2, Settled
<1>5. (RtFault => ~RtClean' /\ rtFaults' = rtFaults + 1 /\ rtFaults < RtMaxFaults) /\ (RtFine => rtFaults' = rtFaults /\ (RtClean' => RtClean))
  BY <1>1, <1>3, FaultCounts
<1>6. j.cost = f /\ f # 0 /\ f \in Nat /\ j.cost \in 0..RtHour
  BY <1>1, <1>3, <1>4, RtAssumption DEF AgreeOn, RtJobInv, RtSnapshot
<1>7. /\ rtPending' = [rtPending EXCEPT ![s] = rtPending'[s]] /\ rtPending'[s] = rtPending[s] /\ rtBooks' = [rtBooks EXCEPT ![s] = rtBooks'[s]]
      /\ rtBooks'[s] = rtBooks[s] /\ rtBooks[s] = f
  BY <1>1, <1>3, <1>6 DEF RtJobInv
<1>8. PICK failed \in BOOLEAN : /\ RtReturn(a, failed)
                                /\ (RtFine /\ rtHash' = [rtHash EXCEPT ![s] = 0]) \/ (RtFault /\ rtHash' \in {rtHash, [rtHash EXCEPT ![s] = 0]})
  BY DEF DropCheckpoint
<1>9. rtHash' = [rtHash EXCEPT ![s] = rtHash'[s]] /\ rtHash'[s] \in {rtHash[s], 0} /\ (RtClean' => rtHash'[s] = 0)
  BY <1>3, <1>5, <1>8 DEF SettleTypes
<1>10. rtFaults' = rtFaults \/ (rtFaults' = rtFaults + 1 /\ rtFaults < RtMaxFaults)
  BY <1>5, <1>8
<1>11. Returns(a) /\ rtJob'[a].cost = 0 /\ rtJob'[a].at = "idle" /\ ~Goes(a) /\ UNCHANGED rtAgenda
  BY <1>8, ReturnsSo
<1>12. RtClean' => CleanSession(s)' /\ CleanActor(a)'
  <2> SUFFICES ASSUME RtClean' PROVE CleanSession(s)' /\ CleanActor(a)'
    OBVIOUS
  <2>1. CleanSession(s) /\ CleanActor(a)
    BY <1>3, <1>5, <1>8
  <2>2. a = s /\ a # RtWorker /\ rtPc[s] = "settle"
    BY <1>1, <1>3, <2>1 DEF CleanActor
  <2>3. rtPending[s] = 0 /\ rtSent[s] <= rtHash[s] /\ rtHash[s] # 0
    BY <1>1, <1>2, <2>1, <2>2 DEF CleanSession
  <2>4. rtHash[s] = f
    BY <1>4, <2>3 DEF AgreeOn
  <2>5. rtPc'[s] = "leave"
    BY <1>3, <1>11, <2>2 DEF Returns, SettleTypes
  <2> QED
    BY <1>1, <1>7, <1>9, <1>11, <2>2, <2>3, <2>4, <2>5 DEF CleanSession, CleanActor
<1> QED
  BY <1>1, <1>2, <1>4, <1>7, <1>9, <1>10, <1>11, <1>12, SettleStep

\* A settlement that starts with its checkpoint.
LEMMA Reading ==
  ASSUME NEW s \in RtSessions, NEW n, n = [RtIdle EXCEPT !.at = "read", !.id = s]
  PROVE  n.at = "read" /\ n.id = s /\ n.cost = 0 /\ n \in RtSnapshot
<1>1. RtIdle \in RtSnapshot /\ RtIdle.cost = 0
  BY RtAssumption DEF RtIdle, RtSnapshot, RtActors
<1>2. n = [[RtIdle EXCEPT !.at = "read"] EXCEPT !.id = s]
  OBVIOUS
<1>3. s \in RtActors
  BY DEF RtActors
<1> QED
  BY <1>1, <1>2, <1>3 DEF RtSnapshot

\* The final snapshot.
LEMMA FreezeStep == ASSUME RealtimeInv, NEW s \in RtSessions, FreezeReceipt(s) PROVE RealtimeInv'
<1>1. rtPc[s] = "settle" /\ rtJob[s] = RtIdle
      /\ UNCHANGED <<rtClock, rtAudio, rtTick, rtSent, rtSlack, rtPending, rtBooks, rtAgenda, rtScan, rtLive, rtApp, rtCrashes>>
  BY DEF FreezeReceipt, rtProcess
<1>2. /\ ~RtFrozen(s) /\ rtPending[s] = 0 /\ rtBooks[s] = 0 /\ RelayTypes /\ (rtSent[s] # 0 => rtSent[s] - rtHash[s] < rtSlack[s]) /\ RelayInv(s)
  BY <1>1, Unfrozen
<1>3. RtTypeOK
  BY DEF RealtimeInv
<1> PICK c, w, z : c = rtClock[s] /\ w = rtTick[s] /\ z = rtSlack[s]
  OBVIOUS
<1> PICK h, m, k, D, H, M : h = rtHash[s] /\ m = rtMark[s] /\ k = rtSent[s] /\ D = RtDuration(c) /\ H = rtHash'[s] /\ M = rtMark'[s]
  OBVIOUS
<1>4. CheckpointOk(s, c) \/ CheckpointFails(s, c)
  BY DEF FreezeReceipt
<1>5. /\ D = (IF c >= 1 THEN c ELSE 1) /\ D \in 1..RtHour /\ c \in 0..RtHour /\ c \in Nat /\ m \in Nat /\ k \in Nat /\ h \in Nat /\ RtHour \in Nat /\ z \in Nat /\ w \in 0..RtHour
  BY <1>3, Durations
<1>6. /\ rtHash' = [rtHash EXCEPT ![s] = H] /\ H \in 0..RtHour /\ rtMark' = [rtMark EXCEPT ![s] = M] /\ M \in 0..RtHour
      /\ H \in {h, D} /\ M \in {m, c} /\ (rtFaults' = rtFaults \/ (rtFaults' = rtFaults + 1 /\ rtFaults < RtMaxFaults))
      /\ (CheckpointOk(s, c) => H = D /\ M = c) /\ (CheckpointFails(s, c) => rtFaults' # 0)
  BY <1>4, <1>5, Checkpoints
<1>7. m <= c /\ w <= c /\ z >= 1 /\ (k <= c \/ k <= 1) /\ rtAudio[s] /\ s \in rtLive
  BY <1>1, <1>2 DEF RelayInv
<1>8. M <= c /\ k <= D /\ k - D < z /\ (k # 0 => k - H < z)
  <2>2. k <= D /\ k - D < z /\ M <= c
    BY <1>5, <1>6, <1>7
  <2> QED
    BY <1>2, <1>6, <2>2
<1>9. rtFaults \in Nat /\ rtFaults' \in 0..RtMaxFaults /\ (rtFaults' = 0 => rtFaults = 0)
  BY <1>2, <1>6, RtAssumption DEF RelayTypes
<1>10. CASE CheckpointFails(s, c) /\ rtPc' = [rtPc EXCEPT ![s] = "leave"] /\ UNCHANGED rtJob
  <2>1. rtPc'[s] = "leave" /\ rtSent'[s] = k /\ rtClock'[s] = c /\ rtAudio'[s] /\ rtTick'[s] = w /\ rtSlack'[s] = z
    BY <1>1, <1>2, <1>7, <1>10 DEF RelayTypes
  <2>2. WrittenOf(s)
    BY <1>1, <1>2, <1>6, <1>10, <2>1 DEF RelayTypes, WrittenOf
  <2>3. RelayTypes' /\ OnlyWrites(s)
    BY <2>2, OneSession
  <2>4. ~RtClean'
    BY <1>6, <1>10 DEF RtClean
  <2> QED
    BY <1>1, <1>2, <1>7, <1>8, <2>1, <2>3, <2>4, RelayStep
<1>11. CASE CheckpointOk(s, c) /\ UNCHANGED rtPc /\ rtJob' = [rtJob EXCEPT ![s] = [RtIdle EXCEPT !.at = "read", !.id = s]]
  <2> PICK n : n = [RtIdle EXCEPT !.at = "read", !.id = s]
    OBVIOUS
  <2>2. n.at = "read" /\ n.id = s /\ n.cost = 0 /\ n \in RtSnapshot
    BY Reading
  <2>3. SettleTypes /\ s \in RtActors /\ s # RtWorker
    BY <1>3, RtAssumption DEF RtTypeOK, SettleTypes, RtSnapshot, RtActors
  <2>4. rtJob' = [rtJob EXCEPT ![s] = n] /\ rtJob'[s] = n
    BY <1>11, <2>3 DEF SettleTypes
  <2>5. SettleTypes'
    BY <1>1, <1>6, <1>9, <1>11, <2>2, <2>3, <2>4 DEF SettleTypes
  <2>6. SettleWrites(s, s)
    <3>1. \A b \in RtActors \ {s} : rtJob'[b] = rtJob[b]
      BY <2>3, <2>4 DEF SettleTypes
    <3>2. \A x \in RtSessions \ {s} : rtHash'[x] = rtHash[x] /\ rtMark'[x] = rtMark[x]
      BY <1>6, <2>3 DEF SettleTypes
    <3> QED
      BY <1>1, <1>2, <1>9, <1>11, <2>2, <2>3, <2>4, <3>1, <3>2 DEF SettleWrites
  <2>7. AgreeOn(s, D)'
    <3>1. \A b \in RtActors : rtJob'[b].id = s => rtJob'[b].cost = 0
      <4>1. \A b \in RtActors : rtJob[b].id # s
        BY <1>2 DEF RelayInv
      <4> QED
        BY <2>2, <2>4, <2>6, <4>1 DEF SettleWrites
    <3>2. \A x \in 1..RtHour : <<s, x>> \in rtScan' => Head(rtAgenda') # "receipts"
      BY <1>1, <1>2 DEF RelayInv
    <3> QED
      BY <1>1, <1>2, <1>6, <1>11, <3>1, <3>2 DEF AgreeOn
  <2>8. RelayInv(s)'
    <3>1. RtFrozen(s)'
      BY <1>1, <1>11, <2>2, <2>4 DEF RtFrozen
    <3>2. Covered(s)'
      BY <1>1, <1>8 DEF Covered
    <3>3. \E f \in 1..RtHour : AgreeOn(s, f)'
      BY <1>5, <2>7
    <3>4. rtPc'[s] = "settle" /\ rtAudio'[s] /\ s \in rtLive' /\ rtMark'[s] = M /\ rtClock'[s] = c /\ rtSent'[s] = k
          /\ rtTick'[s] = w /\ rtSlack'[s] = z
      BY <1>1, <1>7, <1>11
    <3> QED
      BY <1>7, <1>8, <3>1, <3>2, <3>3, <3>4 DEF RelayInv
  <2>9. RtJobInv(s)'
    BY <1>1, <1>11, <2>2, <2>4 DEF RtJobInv
  <2>10. CleanSession(s)' /\ CleanActor(s)'
    <3>1. rtPc'[s] = "settle" /\ rtJob'[s].at = "read" /\ rtHash'[s] # 0 /\ rtSent'[s] <= rtHash'[s]
      <4>1. rtHash'[s] = D /\ rtSent'[s] = k /\ rtPc'[s] = "settle" /\ D # 0 /\ k <= D
        BY <1>1, <1>6, <1>5, <1>8, <1>11
      <4>2. rtJob'[s].at = "read"
        BY <2>2, <2>4
      <4> QED
        BY <4>1, <4>2
    <3> QED
      BY <2>3, <3>1 DEF CleanSession, CleanActor
  <2> QED
    BY <2>3, <2>5, <2>6, <2>8, <2>9, <2>10, SettleKept
<1> QED
  BY <1>10, <1>11 DEF FreezeReceipt

\* A session leaves.
LEMMA LeaveStep == ASSUME RealtimeInv, NEW s \in RtSessions, LeaveSocket(s) PROVE RealtimeInv'
<1>1. /\ rtPc[s] = "leave" /\ rtPc' = [rtPc EXCEPT ![s] = "done"] /\ rtLive' = rtLive \ {s}
      /\ UNCHANGED <<rtClock, rtAudio, rtMark, rtTick, rtSent, rtSlack, rtHash, rtPending, rtBooks, rtJob, rtAgenda, rtScan, rtApp, rtFaults, rtCrashes>>
  BY DEF LeaveSocket, rtRelay, rtStore, rtWork
<1>2. RelayTypes /\ RelayInv(s) /\ RtJobInv(s) /\ (RtClean => CleanSession(s))
  BY DEF RealtimeInv, RtTypeOK, RelayTypes, CleanInv, RtActors
<1>3. rtJob[s].at = "idle"
  BY <1>1, <1>2 DEF RtJobInv
<1>4. rtPc'[s] = "done"
  BY <1>1, <1>2 DEF RelayTypes
<1>5. WrittenOf(s)
  BY <1>1, <1>2, <1>4 DEF RelayTypes, WrittenOf
<1>6. RelayTypes' /\ OnlyWrites(s)
  BY <1>5, OneSession
<1>7. RelayInv(s)'
  <2>1. RtFrozen(s)' /\ RtFrozen(s)
    BY <1>1, <1>4 DEF RtFrozen
  <2>2. ASSUME NEW f \in 1..RtHour, AgreeOn(s, f) PROVE AgreeOn(s, f)'
    BY <1>1, <2>2 DEF AgreeOn
  <2>3. \E f \in 1..RtHour : AgreeOn(s, f)'
    BY <1>2, <2>1, <2>2 DEF RelayInv
  <2>4. Covered(s)'
    BY <1>1, <1>2 DEF RelayInv, Covered
  <2> QED
    BY <1>1, <1>2, <1>4, <2>1, <2>3, <2>4 DEF RelayInv
<1>8. RtClean' => rtHash'[s] = 0 /\ rtPending[s] = 0 /\ rtSent'[s] <= rtBooks[s]
  BY <1>1, <1>2 DEF RtClean, CleanSession
<1> QED
  BY <1>1, <1>3, <1>4, <1>6, <1>7, <1>8, OthersKept

\* A pass of the worker starts.
LEMMA PassStarts ==
  ASSUME RealtimeInv, RtWorkerFree, NEW agenda, agenda \in Seq({"realtime", "receipts"}), Len(agenda) <= 2, RtStartPass(agenda)
  PROVE  RealtimeInv'
<1>1. /\ UNCHANGED <<rtPc, rtClock, rtAudio, rtMark, rtTick, rtSent, rtSlack, rtHash, rtPending, rtBooks, rtJob, rtLive, rtApp, rtCrashes>>
      /\ rtAgenda' = agenda
  BY DEF RtStartPass, rtRelay, rtStore, rtProcess
<1>2. RtTypeOK
  BY DEF RealtimeInv
<1>3. agenda # <<>> => Head(agenda) \in {"realtime", "receipts"}
  OBVIOUS
<1>4. \A s, n : <<s, n>> \in rtScan' =>
        agenda # <<>> /\ s \in RtSessions /\ n # 0 /\ n = IF Head(agenda) = "realtime" THEN rtHash[s] ELSE rtPending[s]
  BY DEF RtStartPass, RtScanned
<1>5. rtScan' \subseteq RtSessions \X (1..RtHour)
  <2> SUFFICES ASSUME NEW e \in rtScan' PROVE e \in RtSessions \X (1..RtHour)
    OBVIOUS
  <2>1. PICK s \in RtSessions : e = <<s, IF Head(agenda) = "realtime" THEN rtHash[s] ELSE rtPending[s]>>
    BY DEF RtStartPass, RtScanned
  <2>2. rtHash[s] \in 0..RtHour /\ rtPending[s] \in 0..RtHour /\ RtHour \in Nat
    BY <1>2, RtAssumption DEF RtTypeOK
  <2> QED
    BY <1>4, <2>1, <2>2
<1>6. rtFaults' \in 0..RtMaxFaults /\ (rtFaults' = 0 => rtFaults = 0)
  BY <1>2, RtAssumption DEF RtTypeOK, RtStartPass, RtFine, RtFault
<1>7. RtTypeOK'
  BY <1>1, <1>2, <1>5, <1>6 DEF RtTypeOK
<1>8. ASSUME NEW s \in RtSessions PROVE RelayInv(s)'
  <2>1. RelayInv(s)
    BY DEF RealtimeInv
  <2>2. RtFrozen(s)' <=> RtFrozen(s)
    BY <1>1 DEF RtFrozen
  <2>3. ASSUME NEW f \in 1..RtHour, AgreeOn(s, f) PROVE AgreeOn(s, f)'
    <3>1. \A n \in 1..RtHour : <<s, n>> \in rtScan' /\ Head(agenda) = "receipts" => n = f
      <4> TAKE n \in 1..RtHour
      <4> HAVE <<s, n>> \in rtScan' /\ Head(agenda) = "receipts"
      <4>1. n # 0 /\ n = rtPending[s]
        BY <1>4
      <4> QED
        BY <2>3, <4>1 DEF AgreeOn
    <3> QED
      BY <1>1, <2>3, <3>1 DEF AgreeOn
  <2>4. ASSUME ~RtFrozen(s), NEW n \in 1..RtHour, <<s, n>> \in rtScan' PROVE Head(agenda) = "realtime"
    <3>1. rtPending[s] = 0
      BY <2>1, <2>4 DEF RelayInv
    <3> QED
      BY <1>4, <2>4, <3>1
  <2>5. rtPc[s] = "new" => \A n \in 1..RtHour : <<s, n>> \notin rtScan'
    <3> SUFFICES ASSUME rtPc[s] = "new" PROVE \A n \in 1..RtHour : <<s, n>> \notin rtScan'
      OBVIOUS
    <3>1. ~RtFrozen(s)
      BY DEF RtFrozen
    <3>2. rtHash[s] = 0 /\ rtPending[s] = 0
      BY <2>1, <3>1 DEF RelayInv
    <3> QED
      BY <1>4, <3>2
  <2>6. Covered(s)'
    BY <1>1, <2>1 DEF RelayInv, Covered
  <2> QED
    BY <1>1, <2>1, <2>2, <2>3, <2>4, <2>5, <2>6 DEF RelayInv
<1>9. \A a \in RtActors : RtJobInv(a)'
  BY <1>1 DEF RealtimeInv, RtJobInv
<1>10. RtClean' => CleanInv'
  <2> SUFFICES ASSUME RtClean' PROVE CleanInv'
    OBVIOUS
  <2>1. CleanInv /\ rtJob[RtWorker].at = "idle"
    BY <1>1, <1>6 DEF RtClean, RealtimeInv, RtWorkerFree, RtIdle
  <2>2. \A s \in RtSessions : CleanSession(s)'
    BY <1>1, <2>1 DEF CleanInv, CleanSession
  <2>3. \A a \in RtActors : CleanActor(a)'
    BY <1>1, <2>1 DEF CleanInv, CleanActor
  <2> QED
    BY <2>2, <2>3 DEF CleanInv
<1> QED
  BY <1>1, <1>7, <1>8, <1>9, <1>10 DEF RealtimeInv

\* A checkpoint that the worker found.
LEMMA RecoverStep == ASSUME RealtimeInv, NEW e \in rtScan, RecoverRealtime(e) PROVE RealtimeInv'
<1>1. /\ UNCHANGED <<rtPc, rtClock, rtAudio, rtMark, rtTick, rtSent, rtSlack, rtHash, rtPending, rtBooks, rtAgenda, rtLive, rtApp, rtCrashes, rtFaults>>
      /\ rtScan' \subseteq rtScan /\ rtJob[RtWorker] = RtIdle /\ Head(rtAgenda) = "realtime" /\ e \in rtScan
      /\ IF e[1] \in rtLive THEN rtJob' = rtJob ELSE rtJob' = [rtJob EXCEPT ![RtWorker] = [RtIdle EXCEPT !.at = "read", !.id = e[1]]]
  BY DEF RecoverRealtime, RtWorkerFree, rtRelay, rtStore, rtProcess
<1> PICK s : s = e[1]
  OBVIOUS
<1>2. s \in RtSessions /\ e = <<s, e[2]>> /\ e[2] \in 1..RtHour /\ RtWorker \in RtActors /\ s # RtWorker /\ s \in RtActors
  BY RtAssumption, SMTT(30) DEF RealtimeInv, RtTypeOK, RtActors
<1>3. RelayInv(s) /\ RtTypeOK /\ SettleTypes /\ RtJobInv(s)
  BY <1>2 DEF RealtimeInv, RtTypeOK, SettleTypes, RtSnapshot
<1>4. RtClean' => CleanSession(s)' /\ RtClean
  <2>1. RtClean' => RtClean
    BY <1>1 DEF RtClean
  <2>2. rtJob'[s] = rtJob[s]
    BY <1>1, <1>2, <1>3 DEF SettleTypes
  <2> QED
    BY <1>1, <1>2, <2>1, <2>2 DEF CleanInv, CleanSession, RealtimeInv
<1>5. CASE s \in rtLive
  <2>1. rtJob' = rtJob
    BY <1>1, <1>5
  <2>2. SameSession(s)
    <3>1. \A a \in RtActors : rtJob[a].cost \in {0, rtJob[a].cost}
      OBVIOUS
    <3> QED
      BY <1>1, <2>1, <3>1 DEF SameSession
  <2>3. RelayInv(s)'
    BY <1>3, <2>2, SessionKept
  <2>4. SettleTypes' /\ SettleWrites(RtWorker, s)
    BY <1>1, <1>2, <1>3, <2>1 DEF SettleTypes, SettleWrites, RtIdle
  <2>5. RtJobInv(RtWorker)' /\ CleanActor(RtWorker)'
    BY <1>1, <2>1 DEF RtJobInv, CleanActor, RtIdle
  <2> QED
    BY <1>2, <1>4, <2>3, <2>4, <2>5, SettleKept
<1>6. CASE s \notin rtLive
  <2> PICK n : n = [RtIdle EXCEPT !.at = "read", !.id = s]
    OBVIOUS
  <2>1. n.at = "read" /\ n.id = s /\ n.cost = 0 /\ n \in RtSnapshot
    BY <1>2, Reading
  <2>2. rtJob' = [rtJob EXCEPT ![RtWorker] = n] /\ rtJob'[RtWorker] = n
    BY <1>1, <1>2, <1>3, <1>6 DEF SettleTypes
  <2>3. rtPc[s] = "done"
    BY <1>1, <1>2, <1>3, <1>6 DEF RelayInv
  <2>4. RtFrozen(s) /\ RtFrozen(s)'
    BY <1>1, <2>3 DEF RtFrozen
  <2>5. PICK f \in 1..RtHour : AgreeOn(s, f)
    BY <1>3, <2>4 DEF RelayInv
  <2>6. SettleTypes'
    BY <1>1, <1>3, <2>1, <2>2 DEF SettleTypes
  <2>7. SettleWrites(RtWorker, s)
    <3>1. \A b \in RtActors \ {RtWorker} : rtJob'[b] = rtJob[b]
      BY <1>3, <2>2 DEF SettleTypes
    <3> QED
      BY <1>1, <1>2, <2>1, <2>2, <3>1 DEF SettleWrites
  <2>8. RelayInv(s)'
    BY <1>1, <1>2, <2>1, <2>2, <2>4, <2>5, <2>6, <2>7, FrozenKept
  <2>9. RtJobInv(RtWorker)' /\ CleanActor(RtWorker)'
    BY <1>1, <1>2, <2>1, <2>2, <2>3, RtAssumption DEF RtJobInv, CleanActor
  <2> QED
    BY <1>2, <1>4, <2>6, <2>7, <2>8, <2>9, SettleKept
<1> QED
  BY <1>5, <1>6

\* A receipt that the worker found.
LEMMA RecoverReceiptStep == ASSUME RealtimeInv, NEW e \in rtScan, RtRecoverReceipt(e) PROVE RealtimeInv'
<1> PICK s, n : s = e[1] /\ n = [at |-> "apply", id |-> e[1], cost |-> e[2], noted |-> TRUE]
  OBVIOUS
<1>1. /\ UNCHANGED <<rtPc, rtClock, rtAudio, rtMark, rtTick, rtSent, rtSlack, rtHash, rtPending, rtBooks, rtAgenda, rtLive, rtApp, rtCrashes, rtFaults>>
      /\ rtScan' \subseteq rtScan /\ rtJob[RtWorker] = RtIdle /\ Head(rtAgenda) = "receipts" /\ e \in rtScan
      /\ rtJob' = [rtJob EXCEPT ![RtWorker] = n]
  BY DEF RtRecoverReceipt, RtWorkerFree, rtRelay, rtStore, rtProcess
<1>2. s \in RtSessions /\ e = <<s, e[2]>> /\ e[2] \in 1..RtHour /\ RtWorker \in RtActors /\ s # RtWorker /\ s \in RtActors
  BY RtAssumption, SMTT(30) DEF RealtimeInv, RtTypeOK, RtActors
<1>3. RelayInv(s) /\ RtTypeOK /\ SettleTypes /\ RtJobInv(s)
  BY <1>2 DEF RealtimeInv, RtTypeOK, SettleTypes, RtSnapshot
<1>4. n.at = "apply" /\ n.id = s /\ n.cost = e[2] /\ n.noted /\ e[2] # 0 /\ n \in RtSnapshot
  <2>1. e[2] \in 0..RtHour /\ e[2] # 0
    BY <1>2, RtAssumption
  <2> QED
    BY <1>2, <2>1 DEF RtSnapshot
<1>5. RtFrozen(s) /\ RtFrozen(s)'
  <2>1. RtFrozen(s)
    BY <1>1, <1>2, <1>3 DEF RelayInv
  <2>2. rtJob'[s] = rtJob[s]
    BY <1>1, <1>2, <1>3 DEF SettleTypes
  <2> QED
    BY <1>1, <2>1, <2>2 DEF RtFrozen
<1>6. PICK f \in 1..RtHour : AgreeOn(s, f)
  BY <1>3, <1>5 DEF RelayInv
<1>7. e[2] = f
  BY <1>1, <1>2, <1>6 DEF AgreeOn
<1>8. rtJob'[RtWorker] = n /\ (\A b \in RtActors \ {RtWorker} : rtJob'[b] = rtJob[b])
  BY <1>1, <1>2, <1>3 DEF SettleTypes
<1>9. SettleTypes'
  BY <1>1, <1>3, <1>4 DEF SettleTypes
<1>10. SettleWrites(RtWorker, s)
  BY <1>1, <1>2, <1>4, <1>8 DEF SettleWrites
<1>11. RelayInv(s)'
  BY <1>1, <1>2, <1>4, <1>5, <1>6, <1>7, <1>8, <1>9, <1>10, FrozenKept
<1>12. RtJobInv(RtWorker)' /\ CleanActor(RtWorker)'
  BY <1>1, <1>2, <1>4, <1>8, RtAssumption DEF RtJobInv, CleanActor
<1>13. RtClean' => CleanSession(s)'
  <2>1. RtClean' => RtClean
    BY <1>1 DEF RtClean
  <2>2. rtJob'[s] = rtJob[s]
    BY <1>2, <1>8
  <2> QED
    BY <1>1, <1>2, <2>1, <2>2 DEF CleanInv, CleanSession, RealtimeInv
<1> QED
  BY <1>2, <1>9, <1>10, <1>11, <1>12, <1>13, SettleKept

\* Admission stops.
LEMMA StopStep == ASSUME RealtimeInv, RtStop PROVE RealtimeInv'
<1>1. /\ UNCHANGED <<rtPc, rtClock, rtAudio, rtMark, rtTick, rtSent, rtSlack, rtHash, rtPending, rtBooks, rtJob, rtAgenda, rtScan, rtLive, rtFaults>>
      /\ rtApp = "up" /\ rtApp' = "stopping" /\ rtCrashes < RtMaxCrashes /\ rtCrashes' = rtCrashes + 1
  BY DEF RtStop, RtMayFall, rtRelay, rtStore, rtWork
<1>2. rtCrashes \in Nat /\ rtCrashes' \in 0..RtMaxCrashes /\ rtCrashes' > 0 /\ (rtCrashes' = 1 => rtCrashes = 0)
  BY <1>1, RtAssumption DEF RealtimeInv, RtTypeOK
<1>3. RtTypeOK'
  BY <1>1, <1>2 DEF RealtimeInv, RtTypeOK
<1>4. ASSUME NEW s \in RtSessions PROVE RelayInv(s)'
  <2>1. SameSession(s)
    BY <1>1 DEF SameSession
  <2> QED
    BY <2>1, SessionKept DEF RealtimeInv
<1>5. \A a \in RtActors : RtJobInv(a)'
  BY <1>1 DEF RealtimeInv, RtJobInv
<1>6. RtClean' => CleanInv'
  <2>1. RtClean' => RtClean
    BY <1>1, <1>2 DEF RtClean
  <2> QED
    BY <1>1, <2>1 DEF RealtimeInv, CleanInv, CleanSession, CleanActor
<1> QED
  BY <1>1, <1>2, <1>3, <1>4, <1>5, <1>6 DEF RealtimeInv

\* The process closes.
LEMMA CloseStep == ASSUME RealtimeInv, RtClose PROVE RealtimeInv'
<1>1. /\ UNCHANGED <<rtPc, rtClock, rtAudio, rtMark, rtTick, rtSent, rtSlack, rtHash, rtPending, rtBooks, rtLive, rtFaults, rtCrashes>>
      /\ rtApp = "stopping" /\ rtApp' = "closed" /\ rtLive = {} /\ rtScan' = {} /\ rtAgenda' = <<>>
      /\ rtJob' = [rtJob EXCEPT ![RtWorker] = RtIdle]
  BY DEF RtClose, rtRelay, rtStore
<1>2. RtTypeOK /\ SettleTypes /\ RtIdle \in RtSnapshot /\ RtWorker \in RtActors
  <2>1. RtTypeOK /\ SettleTypes
    BY DEF RealtimeInv, RtTypeOK, SettleTypes, RtSnapshot
  <2> QED
    BY <2>1, RtAssumption DEF RtSnapshot, RtIdle, RtActors
<1>3. rtJob' \in [RtActors -> RtSnapshot] /\ rtJob'[RtWorker] = RtIdle /\ (\A a \in RtActors \ {RtWorker} : rtJob'[a] = rtJob[a])
  BY <1>1, <1>2 DEF SettleTypes
<1>4. RtTypeOK'
  <2>1. rtAgenda' \in Seq({"realtime", "receipts"}) /\ Len(rtAgenda') <= 2
    BY <1>1
  <2> QED
    BY <1>1, <1>2, <1>3, <2>1 DEF RtTypeOK, RtSnapshot
<1>5. ASSUME NEW s \in RtSessions PROVE RelayInv(s)' /\ rtJob'[s] = rtJob[s]
  <2>1. s \in RtActors /\ s # RtWorker
    BY RtAssumption DEF RtActors
  <2>2. \A a \in RtActors : rtJob'[a].id = s => rtJob'[a] = rtJob[a]
    BY <1>3, <2>1 DEF RtIdle
  <2>3. SameSession(s)
    BY <1>1, <1>3, <2>1, <2>2 DEF SameSession
  <2> QED
    BY <1>3, <2>1, <2>3, SessionKept DEF RealtimeInv
<1>6. ASSUME NEW a \in RtActors PROVE RtJobInv(a)'
  <2>1. CASE a = RtWorker
    BY <1>3, <2>1 DEF RtJobInv, RtIdle
  <2>2. CASE a # RtWorker
    BY <1>1, <1>3, <2>2 DEF RtJobInv, RealtimeInv
  <2> QED
    BY <2>1, <2>2
<1>7. RtClean' => CleanInv'
  <2> SUFFICES ASSUME RtClean' PROVE CleanInv'
    OBVIOUS
  <2>1. CleanInv
    BY <1>1 DEF RtClean, RealtimeInv
  <2>2. \A s \in RtSessions : CleanSession(s)'
    BY <1>1, <1>5, <2>1 DEF CleanInv, CleanSession
  <2>3. ASSUME NEW a \in RtActors PROVE CleanActor(a)'
    <3>1. CASE a = RtWorker
      BY <1>3, <3>1 DEF CleanActor, RtIdle
    <3>2. CASE a # RtWorker
      BY <1>3, <2>1, <3>2 DEF CleanInv, CleanActor
    <3> QED
      BY <3>1, <3>2
  <2> QED
    BY <2>2, <2>3 DEF CleanInv
<1> QED
  BY <1>1, <1>4, <1>5, <1>6, <1>7 DEF RealtimeInv

\* A process starts.
LEMMA StartStep == ASSUME RealtimeInv, RtRestart \/ RtCrash PROVE RealtimeInv'
<1>1. /\ UNCHANGED <<rtClock, rtAudio, rtMark, rtTick, rtSent, rtSlack, rtHash, rtPending, rtBooks, rtFaults>>
      /\ rtApp' = "up" /\ rtLive' = {} /\ rtPc' = [s \in RtSessions |-> IF rtPc[s] = "new" THEN "new" ELSE "done"]
      /\ rtJob' = [a \in RtActors |-> RtIdle] /\ rtAgenda' = <<"realtime", "receipts">> /\ rtScan' = RtScanned("realtime")
  BY DEF RtRestart, RtCrash, RtStart, rtRelay, rtStore
<1>2. RtTypeOK /\ RtIdle \in RtSnapshot
  <2>1. RtTypeOK
    BY DEF RealtimeInv
  <2> QED
    BY <2>1, RtAssumption DEF RtSnapshot, RtIdle, RtActors
<1>3. rtCrashes' \in 0..RtMaxCrashes /\ rtCrashes' # 0
  <2>1. CASE RtRestart
    BY <1>2, <2>1, RtAssumption DEF RtRestart, RealtimeInv, RtTypeOK
  <2>2. CASE RtCrash
    BY <1>2, <2>2, RtAssumption DEF RtCrash, RtMayFall, RtTypeOK
  <2> QED
    BY <2>1, <2>2
<1>4. \A s, n : <<s, n>> \in rtScan' => s \in RtSessions /\ n = rtHash[s] /\ n # 0
  BY <1>1 DEF RtScanned
<1>5. Head(rtAgenda') = "realtime" /\ rtAgenda' \in Seq({"realtime", "receipts"}) /\ Len(rtAgenda') <= 2
  BY <1>1
<1>6. rtScan' \subseteq RtSessions \X (1..RtHour)
  <2> SUFFICES ASSUME NEW e \in rtScan' PROVE e \in RtSessions \X (1..RtHour)
    OBVIOUS
  <2>1. PICK s \in RtSessions : e = <<s, rtHash[s]>> /\ rtHash[s] # 0
    BY <1>1 DEF RtScanned
  <2>2. rtHash[s] \in 0..RtHour /\ RtHour \in Nat
    BY <1>2, RtAssumption DEF RtTypeOK
  <2> QED
    BY <2>1, <2>2
<1>7. RtTypeOK'
  <2>1. rtJob' \in [RtActors -> RtSnapshot] /\ rtPc' \in [RtSessions -> {"new", "dial", "open", "settle", "leave", "done"}]
    BY <1>1, <1>2
  <2> QED
    BY <1>1, <1>2, <1>3, <1>5, <1>6, <2>1 DEF RtTypeOK, RtSnapshot
<1>8. \A a \in RtActors : RtJobInv(a)'
  BY <1>1 DEF RtJobInv, RtIdle
<1>9. ASSUME NEW s \in RtSessions PROVE RelayInv(s)'
  <2>1. RelayInv(s) /\ \A a \in RtActors : rtJob'[a].id # s
    BY <1>1, RtAssumption DEF RealtimeInv, RtIdle
  <2>2. Covered(s)'
    BY <1>1, <2>1 DEF RelayInv, Covered
  <2>3. CASE rtPc[s] = "new"
    <3>1. rtPc'[s] = "new" /\ ~RtFrozen(s) /\ ~RtFrozen(s)'
      BY <1>1, <2>3 DEF RtFrozen
    <3>2. rtHash[s] = 0 /\ ~rtAudio[s] /\ rtPending[s] = 0 /\ rtBooks[s] = 0
      BY <2>1, <2>3, <3>1 DEF RelayInv
    <3>3. \A n \in 1..RtHour : <<s, n>> \notin rtScan'
      BY <1>4, <3>2
    <3> QED
      BY <1>1, <2>1, <2>2, <3>1, <3>2, <3>3 DEF RelayInv
  <2>4. CASE rtPc[s] # "new"
    <3>1. rtPc'[s] = "done" /\ RtFrozen(s)'
      BY <1>1, <2>4 DEF RtFrozen
    <3>2. \E f \in 1..RtHour : rtHash[s] \in {0, f} /\ rtPending[s] \in {0, f} /\ rtBooks[s] \in {0, f}
      <4>1. CASE RtFrozen(s)
        BY <2>1, <4>1 DEF RelayInv, AgreeOn
      <4>2. CASE ~RtFrozen(s)
        <5> PICK f : f = IF rtHash[s] = 0 THEN 1 ELSE rtHash[s]
          OBVIOUS
        <5>1. rtPending[s] = 0 /\ rtBooks[s] = 0
          BY <2>1, <4>2 DEF RelayInv
        <5>2. f \in 1..RtHour /\ rtHash[s] \in {0, f}
          BY <1>2, RtAssumption DEF RtTypeOK
        <5> QED
          BY <5>1, <5>2
      <4> QED
        BY <4>1, <4>2
    <3>3. \E f \in 1..RtHour : AgreeOn(s, f)'
      BY <1>1, <1>5, <2>1, <3>2 DEF AgreeOn
    <3> QED
      BY <1>1, <2>1, <2>2, <3>1, <3>3 DEF RelayInv
  <2> QED
    BY <2>3, <2>4
<1>10. ~RtClean'
  BY <1>1, <1>3 DEF RtClean
<1> QED
  BY <1>1, <1>7, <1>8, <1>9, <1>10 DEF RealtimeInv

\* A round of the worker ends, or a pass of it.
LEMMA RoundStep == ASSUME RealtimeInv, RtWorkerTick \/ RtEndPass PROVE RealtimeInv'
<1>1. CASE RtWorkerTick
  <2>1. <<"receipts", "realtime">> \in Seq({"realtime", "receipts"}) /\ Len(<<"receipts", "realtime">>) <= 2
    OBVIOUS
  <2> QED
    BY <1>1, <2>1, PassStarts DEF RtWorkerTick
<1>2. CASE RtEndPass
  <2>1. rtAgenda \in Seq({"realtime", "receipts"}) /\ Len(rtAgenda) <= 2
    BY DEF RealtimeInv, RtTypeOK
  <2>2. Tail(rtAgenda) \in Seq({"realtime", "receipts"}) /\ Len(Tail(rtAgenda)) <= 2
    BY <1>2, <2>1 DEF RtEndPass
  <2> QED
    BY <1>2, <2>2, PassStarts DEF RtEndPass
<1> QED
  BY <1>1, <1>2

\* Every step.
LEMMA RealtimeStep == RealtimeInv /\ [RtNext]_rtVars => RealtimeInv'
<1> SUFFICES ASSUME RealtimeInv, [RtNext]_rtVars PROVE RealtimeInv'
  OBVIOUS
<1>1. ASSUME NEW s \in RtSessions, RegisterSocket(s) \/ DialRealtime(s) \/ RtPass(s) \/ RtEnd(s) PROVE RealtimeInv'
  BY <1>1, ConnectStep
<1>2. ASSUME NEW s \in RtSessions, RtTick(s) PROVE RealtimeInv'
  BY <1>2, TickStep
<1>3. ASSUME NEW s \in RtSessions, NEW audio \in BOOLEAN, RtFrame(s, audio) PROVE RealtimeInv'
  BY <1>3, FrameStep
<1>4. ASSUME NEW s \in RtSessions, FreezeReceipt(s) PROVE RealtimeInv'
  BY <1>4, FreezeStep
<1>5. ASSUME NEW s \in RtSessions, LeaveSocket(s) PROVE RealtimeInv'
  BY <1>5, LeaveStep
<1>6. ASSUME NEW a \in RtActors, RtSettles(a) PROVE RealtimeInv'
  BY <1>6, ReadStep, NoteStep, ApplyStep, ForgetStep, DropStep DEF RtSettles
<1>7. ASSUME RtRecovery PROVE RealtimeInv'
  <2>1. RtWorker \in RtActors
    BY DEF RtActors
  <2> QED
    BY <1>6, <1>7, <2>1, RoundStep, RecoverStep, RecoverReceiptStep DEF RtRecovery
<1>8. ASSUME RtExit \/ RtStop \/ RtCrash PROVE RealtimeInv'
  BY <1>8, CloseStep, StartStep, StopStep DEF RtExit
<1>9. ASSUME UNCHANGED rtVars PROVE RealtimeInv'
  <2>1. UNCHANGED <<rtPc, rtClock, rtAudio, rtMark, rtTick, rtSent, rtSlack, rtHash, rtPending, rtBooks, rtJob, rtAgenda, rtScan, rtLive, rtApp, rtFaults, rtCrashes>>
    BY <1>9 DEF rtVars
  <2>2. RtTypeOK'
    BY <2>1 DEF RealtimeInv, RtTypeOK
  <2>3. ASSUME NEW s \in RtSessions PROVE RelayInv(s)'
    <3>1. SameSession(s)
      BY <2>1 DEF SameSession
    <3> QED
      BY <3>1, SessionKept DEF RealtimeInv
  <2>4. \A a \in RtActors : RtJobInv(a)'
    BY <2>1 DEF RealtimeInv, RtJobInv
  <2>5. RtClean' => CleanInv'
    BY <2>1 DEF RealtimeInv, RtClean, CleanInv, CleanSession, CleanActor
  <2> QED
    BY <2>1, <2>2, <2>3, <2>4, <2>5 DEF RealtimeInv
<1>10. ASSUME NEW s \in RtSessions, RtHandler(s) PROVE RealtimeInv'
  <2>1. s \in RtActors
    BY DEF RtActors
  <2> QED
    BY <1>1, <1>4, <1>5, <1>6, <1>10, <2>1 DEF RtHandler
<1> QED
  BY <1>1, <1>2, <1>3, <1>7, <1>8, <1>9, <1>10 DEF RtNext

\* The invariant says what is billed.
LEMMA RealtimeImplies == RealtimeInv => RealtimeBilled
<1> SUFFICES ASSUME RealtimeInv PROVE RealtimeBilled
  OBVIOUS
<1>1. RtTypeOK
  BY DEF RealtimeInv
<1>2. BillingLossBounded
  <2> SUFFICES ASSUME NEW s \in RtSessions, rtSent[s] # 0
               PROVE  rtSent[s] - Max({rtHash[s], rtPending[s], rtBooks[s]}) < rtSlack[s]
    BY DEF BillingLossBounded
  <2> PICK h, p, k, t, z, m : h = rtHash[s] /\ p = rtPending[s] /\ k = rtBooks[s] /\ t = rtSent[s] /\ z = rtSlack[s] /\ m = Max({h, p, k})
    OBVIOUS
  <2>1. h \in 0..RtHour /\ p \in 0..RtHour /\ k \in 0..RtHour /\ t \in 0..RtHour /\ RtHour \in Nat /\ z \in Nat
    BY <1>1, RtAssumption DEF RtTypeOK
  <2>2. \E x \in {h, p, k} : \A y \in {h, p, k} : x >= y
    <3>1. h \in Nat /\ p \in Nat /\ k \in Nat
      BY <2>1
    <3> QED
      BY <3>1
  <2>3. m \in {h, p, k} /\ \A y \in {h, p, k} : m >= y
    BY <2>2 DEF Max
  <2>4. \E v \in {h, p, k} : t - v < z
    BY DEF RealtimeInv, RelayInv, Covered
  <2> QED
    BY <2>1, <2>3, <2>4
<1>3. OneSnapshotPerSession
  <2> SUFFICES ASSUME NEW s \in RtSessions, rtBooks[s] # 0
               PROVE  /\ rtHash[s] \in {0, rtBooks[s]} /\ rtPending[s] \in {0, rtBooks[s]}
                      /\ \A a \in RtActors : rtJob[a].id = s => rtJob[a].cost \in {0, rtBooks[s]}
    BY DEF OneSnapshotPerSession
  <2>1. RelayInv(s)
    BY DEF RealtimeInv
  <2>2. RtFrozen(s)
    BY <2>1 DEF RelayInv
  <2>3. PICK f \in 1..RtHour : AgreeOn(s, f)
    BY <2>1, <2>2 DEF RelayInv
  <2> QED
    BY <2>3 DEF AgreeOn
<1>4. CloseDrains
  <2> SUFFICES ASSUME rtApp = "closed"
               PROVE  rtLive = {} /\ (rtFaults = 0 /\ rtCrashes = 1 => \A s \in RtSessions : rtHash[s] = 0 /\ rtPending[s] = 0 /\ rtBooks[s] >= rtSent[s])
    BY DEF CloseDrains
  <2>1. rtLive = {}
    BY DEF RealtimeInv
  <2>2. ASSUME rtFaults = 0, rtCrashes = 1, NEW s \in RtSessions
        PROVE  rtHash[s] = 0 /\ rtPending[s] = 0 /\ rtBooks[s] >= rtSent[s]
    <3>1. CleanSession(s)
      BY <2>2 DEF RtClean, CleanInv, RealtimeInv
    <3>2. RelayInv(s) /\ rtPc[s] \in {"new", "dial", "open", "settle", "leave", "done"} /\ rtBooks[s] \in 0..RtHour /\ rtSent[s] \in 0..RtHour
      BY <1>1 DEF RealtimeInv, RtTypeOK
    <3>3. rtPc[s] \in {"new", "done"}
      BY <2>1, <3>2 DEF RelayInv
    <3>4. CASE rtPc[s] = "new"
      <4>1. ~RtFrozen(s)
        BY <3>4 DEF RtFrozen
      <4> QED
        BY <3>2, <3>4, <4>1 DEF RelayInv
    <3>5. CASE rtPc[s] = "done"
      BY <3>1, <3>2, <3>5 DEF CleanSession
    <3> QED
      BY <3>3, <3>4, <3>5
  <2> QED
    BY <2>1, <2>2
<1> QED
  BY <1>1, <1>2, <1>3, <1>4 DEF RealtimeBilled

\* What a realtime session relays is billed up to the interval since its last
\* checkpoint, or up to the time that a tick had waited which has taken the
\* checkpoint back since, from one snapshot, whatever fails or crashes between
\* the steps of sessions and worker; and Close leaves nothing behind when
\* nothing failed (grok_realtime.go).
THEOREM SessionsAreBilled == RtSpec => []RealtimeBilled
<1>1. RtSpec => []RealtimeInv
  BY RealtimeInit, RealtimeStep, PTL DEF RtSpec
<1> QED
  BY <1>1, RealtimeImplies, PTL

(***************************************************************************)
(* ResponseSockets.  What the log of a connection holds went to its        *)
(* binding (LogBound), and an account chosen before the binding was set    *)
(* fits it still (TurnBound).  A turn that was sent is newer than every    *)
(* snapshot and carries the one it continues (TurnSent); the bytes counted *)
(* are the sum of the snapshots in order (BytesKept), each of which holds  *)
(* its turns in full (SnapshotsExact).                                     *)
(***************************************************************************)

\* The states of a turn in the log, and the phases of the turn that runs.
LogStates == {"sent", "free", "paid", "lost", "review"}
TurnPhases == {"idle", "taken", "chosen", "sent", "seen", "paid"}

\* The records of the connection.
WsTurns ==
    [at : TurnPhases, prev : Int, warm : BOOLEAN, source : WsSources \cup {NoSource},
     mode : WsModes \cup {""}, input : Seq(Nat), size : Nat, tried : SUBSET WsAccounts]
WsConnections ==
    [phase : {"open", "closing", "gone"}, mode : WsModes \cup {""},
     binding : WsSources \cup {NoSource}, link : WsSources \cup {NoSource}, route : 0..2]
WsTurnRows ==
    [source : WsSources, mode : WsModes, prev : Int, size : Nat, state : LogStates]

\* The types of what the connection holds.
SocketTypes ==
    /\ wsAccount \in [WsAccounts -> [mode : WsModes, target : WsTargets, route : 1..2]]
    /\ wsSocket \in WsConnections
    /\ wsInbox \in 0..1 /\ wsAsked \in 0..WsMaxTurns /\ wsEdits \in 0..WsMaxEdits
    /\ wsTurn \in WsTurns
    /\ wsLog \in Seq(WsTurnRows)
    /\ wsIdOrder \in Seq(Nat) /\ DOMAIN wsIds = Range(wsIdOrder)
    /\ WsOld \in DOMAIN wsStored
    /\ \A a \in WsAccounts : wsAccount[a].target <= wsEdits + 1

\* What the connection is bound to, every turn in the log was sent to.
LogBound ==
    /\ wsSocket.link \in {NoSource, wsSocket.binding}
    /\ \A i \in 1..Len(wsLog) :
          /\ wsLog[i].source = wsSocket.binding /\ wsLog[i].mode = wsSocket.mode
          /\ wsLog[i].prev \in {WsNone, WsOld} \cup 1..(i - 1)
          /\ wsLog[i].prev = WsOld => wsLog[i].source = wsStored[WsOld]

\* The source of a turn was chosen for what the connection is bound to still.
TurnBound ==
    /\ wsTurn.at \in {"taken", "chosen"} => wsTurn.prev \in {WsNone, WsOld} \cup 1..Len(wsLog)
    /\ wsTurn.at = "chosen" =>
          /\ wsTurn.source \in WsSources /\ wsTurn.mode \in WsModes
          /\ wsSocket.mode \in {"", wsTurn.mode} /\ wsSocket.binding \in {NoSource, wsTurn.source}
          /\ wsTurn.prev = WsOld => wsTurn.source = wsStored[WsOld]

\* A turn that was sent is the last of the log, newer than every snapshot, and
\* its input is what the snapshot of the response it continues holds still.
TurnSent ==
    wsTurn.at \in {"sent", "seen", "paid"} =>
       /\ Len(wsLog) # 0 /\ Len(wsLog) \notin DOMAIN wsHistory
       /\ wsLog[Len(wsLog)].prev = wsTurn.prev
       /\ wsTurn.mode = "http_bridge" =>
             BridgeKnows(wsTurn.prev) /\ wsTurn.input = BridgeBody(wsTurn.prev)
       /\ wsTurn.at \in {"sent", "seen"} => wsLog[Len(wsLog)].state \in {"sent", "free"}
       /\ wsTurn.at = "paid" => wsLog[Len(wsLog)].state \in {"paid", "free"}
       /\ wsTurn.at \in {"seen", "paid"} => wsLog[Len(wsLog)].size = wsTurn.size

\* The bytes of the snapshots, oldest first.
BytesKept ==
    /\ wsOrder \in Seq(Nat)
    /\ \A i, j \in 1..Len(wsOrder) : wsOrder[i] = wsOrder[j] => i = j
    /\ DOMAIN wsHistory = Range(wsOrder) /\ Len(wsOrder) <= WsKeep
    /\ \A id \in DOMAIN wsHistory : wsHistory[id] \in Seq(Nat)
    /\ wsBytes = FreedBytes(Len(wsOrder)) /\ wsBytes <= WsLimit

\* What one snapshot holds.
SnapshotExact(id) ==
    /\ id \in 1..Len(wsLog)
    /\ wsLog[id].state \in {"paid", "free"}
    /\ Last(wsHistory[id]) = wsLog[id].size
    /\ wsLog[id].prev \in DOMAIN wsHistory => Front(wsHistory[id]) = wsHistory[wsLog[id].prev]
    /\ wsLog[id].prev = WsNone => Len(wsHistory[id]) = 1

SnapshotsExact == \A id \in DOMAIN wsHistory : SnapshotExact(id)

SocketInv ==
    SocketTypes /\ LogBound /\ TurnBound /\ TurnSent /\ BytesKept /\ SnapshotsExact


\* NoSource is no source.
LEMMA NoSourceIsNone == NoSource \notin WsSources
BY DEF NoSource, WsSources

\* A sequence with one more element has that element too, last.
LEMMA AppendRange ==
  ASSUME NEW S, NEW s \in Seq(S), NEW e \in S
  PROVE  /\ Append(s, e) \in Seq(S) /\ Len(Append(s, e)) = Len(s) + 1
         /\ Range(Append(s, e)) = Range(s) \cup {e}
         /\ Last(Append(s, e)) = e /\ Front(Append(s, e)) = s
<1>1. /\ Append(s, e) \in Seq(S) /\ Len(Append(s, e)) = Len(s) + 1
      /\ \A i \in 1..Len(s) : Append(s, e)[i] = s[i]
      /\ Append(s, e)[Len(s) + 1] = e
  OBVIOUS
<1>2. DOMAIN Append(s, e) = 1..(Len(s) + 1) /\ DOMAIN s = 1..Len(s) /\ Len(s) \in Nat
  OBVIOUS
<1>3. Range(Append(s, e)) = Range(s) \cup {e}
  <2>1. ASSUME NEW x \in Range(Append(s, e)) PROVE x \in Range(s) \cup {e}
    BY <1>1, <1>2, <2>1 DEF Range
  <2>2. ASSUME NEW x \in Range(s) PROVE x \in Range(Append(s, e))
    <3>1. PICK i \in 1..Len(s) : x = s[i]
      BY <1>2 DEF Range
    <3>2. i \in DOMAIN Append(s, e) /\ Append(s, e)[i] = x
      BY <1>1, <1>2, <3>1
    <3> QED
      BY <3>2 DEF Range
  <2>3. e \in Range(Append(s, e))
    BY <1>1, <1>2 DEF Range
  <2> QED
    BY <2>1, <2>2, <2>3
<1>4. Front(Append(s, e)) = s
  <2> DEFINE f == SubSeq(Append(s, e), 1, Len(s))
  <2>1. f \in Seq(S) /\ Len(f) = Len(s) /\ \A i \in 1..Len(s) : f[i] = s[i]
    BY <1>1, <1>2
  <2>2. f = s
    <3> HIDE DEF f
    <3> QED
      BY <2>1
  <2> QED
    BY <1>1, <1>2, <2>2 DEF Front
<1> QED
  BY <1>1, <1>3, <1>4 DEF Last

\* A sequence without its first element has no other elements.
LEMMA TailRange ==
  ASSUME NEW S, NEW s \in Seq(S), s # <<>>
  PROVE  Tail(s) \in Seq(S) /\ Range(Tail(s)) \subseteq Range(s)
<1>1. Tail(s) \in Seq(S) /\ Len(Tail(s)) = Len(s) - 1
      /\ \A i \in 1..Len(Tail(s)) : Tail(s)[i] = s[i + 1]
  OBVIOUS
<1> QED
  BY <1>1 DEF Range

\* An account whose source a turn takes has one.
LEMMA SourceOfAccount ==
  ASSUME SocketTypes, NEW a \in WsAccounts
  PROVE  WsSource(a) \in WsSources /\ wsAccount[a].mode \in WsModes
BY DEF SocketTypes, WsSource, WsSources

\* The idle turn is a turn.
LEMMA IdleTyped == WsIdle \in WsTurns /\ WsIdle.at = "idle"
<1>1. <<>> \in Seq(Nat) /\ 0 \in Int /\ 0 \in Nat /\ FALSE \in BOOLEAN /\ {} \in SUBSET WsAccounts
      /\ "idle" \in TurnPhases
  BY DEF TurnPhases
<1> QED
  BY <1>1 DEF WsIdle, WsNone, WsTurns

\* A turn that fails leaves the connection typed, and bound to what it was.
LEMMA FailedTyped ==
  ASSUME SocketTypes, TurnFails
  PROVE  /\ wsTurn' \in WsTurns /\ wsTurn'.at = "idle"
         /\ wsSocket' \in WsConnections
         /\ wsSocket'.mode = wsSocket.mode /\ wsSocket'.binding = wsSocket.binding
         /\ wsSocket'.link = wsSocket.link
<1>1. wsTurn' = WsIdle /\ wsSocket' = [wsSocket EXCEPT !.phase = "closing"]
  BY DEF TurnFails
<1>2. wsSocket \in WsConnections
  BY DEF SocketTypes
<1>3. wsSocket' \in WsConnections
      /\ wsSocket'.mode = wsSocket.mode /\ wsSocket'.binding = wsSocket.binding
      /\ wsSocket'.link = wsSocket.link
  BY <1>1, <1>2 DEF WsConnections
<1> QED
  BY <1>1, <1>3, IdleTyped

\* What is not written stays what it was, under a state that knows of the same.
LEMMA MemoryStays ==
  ASSUME BytesKept, UNCHANGED <<wsHistory, wsOrder, wsBytes>>
  PROVE  BytesKept'
<1>1. SnapshotBytes' = SnapshotBytes
  BY DEF SnapshotBytes
<1>2. FreedBytes(Len(wsOrder))' = FreedBytes(Len(wsOrder))
  BY <1>1 DEF FreedBytes
<1> QED
  BY <1>2 DEF BytesKept

\* A snapshot is as exact as it was while its turn and the history stay.
LEMMA SnapshotsStay ==
  ASSUME SnapshotsExact, UNCHANGED wsHistory,
         \A id \in DOMAIN wsHistory : id \in 1..Len(wsLog') /\ wsLog'[id] = wsLog[id]
  PROVE  SnapshotsExact'
<1> SUFFICES ASSUME NEW id \in DOMAIN wsHistory PROVE SnapshotExact(id)'
  BY DEF SnapshotsExact
<1>1. SnapshotExact(id)
  BY DEF SnapshotsExact
<1>2. wsLog'[id] = wsLog[id] /\ wsHistory' = wsHistory /\ id \in 1..Len(wsLog')
  OBVIOUS
<1> QED
  BY <1>1, <1>2 DEF SnapshotExact

\* A turn of the log stays where it was sent.
LEMMA BoundStays ==
  ASSUME LogBound, Len(wsLog') = Len(wsLog),
         \A i \in 1..Len(wsLog) :
            /\ wsLog'[i].source = wsLog[i].source /\ wsLog'[i].mode = wsLog[i].mode
            /\ wsLog'[i].prev = wsLog[i].prev,
         wsSocket'.link \in {NoSource, wsSocket.link},
         wsSocket'.binding = wsSocket.binding, wsSocket'.mode = wsSocket.mode,
         wsStored'[WsOld] = wsStored[WsOld]
  PROVE  LogBound'
BY DEF LogBound

\* What an administrator edits is not what the connection holds.
LEMMA EditWsKeeps ==
  ASSUME SocketInv, NEW a \in WsAccounts, EditWsAccount(a)
  PROVE  SocketInv'
<1> USE DEF SocketInv
<1>0. SocketTypes /\ UNCHANGED <<wsSocket, wsInbox, wsTurn, wsLog, wsMemory, wsAsked>>
      /\ wsEdits' = wsEdits + 1 /\ wsEdits < WsMaxEdits
  BY DEF EditWsAccount
<1> DEFINE Edited == /\ wsAccount' \in [WsAccounts -> [mode : WsModes, target : WsTargets, route : 1..2]]
                     /\ \A b \in WsAccounts : wsAccount'[b].target <= wsEdits + 2
<1>1. Edited
  <2>1. wsAccount \in [WsAccounts -> [mode : WsModes, target : WsTargets, route : 1..2]]
        /\ wsEdits \in Nat /\ WsMaxEdits \in Nat
    BY WsAssumption DEF SocketTypes
  <2>2. \A b \in WsAccounts : wsAccount[b].target <= wsEdits + 1
    BY DEF SocketTypes
  <2>3. wsAccount[a] \in [mode : WsModes, target : WsTargets, route : 1..2]
    BY <2>1
  <2> DEFINE EditedRow == \E row \in [mode : WsModes, target : WsTargets, route : 1..2] :
                            row.target <= wsEdits + 2 /\ wsAccount' = [wsAccount EXCEPT ![a] = row]
  <2>4. EditedRow
    <3>1. ASSUME NEW m \in WsModes, wsAccount' = [wsAccount EXCEPT ![a].mode = m] PROVE EditedRow
      <4> DEFINE n == [wsAccount[a] EXCEPT !.mode = m]
      <4>1. n \in [mode : WsModes, target : WsTargets, route : 1..2] /\ n.target = wsAccount[a].target
        BY <2>3
      <4>2. wsAccount' = [wsAccount EXCEPT ![a] = n]
        BY <3>1
      <4>3. n.target <= wsEdits + 2
        BY <2>1, <2>2, <2>3, <4>1 DEF WsTargets
      <4> HIDE DEF n
      <4> QED
        BY <4>1, <4>2, <4>3
    <3>2. ASSUME wsAccount' = [wsAccount EXCEPT ![a].target = @ + 1] PROVE EditedRow
      <4> DEFINE n == [wsAccount[a] EXCEPT !.target = @ + 1]
      <4>1. wsAccount[a].target + 1 \in WsTargets /\ wsAccount[a].target + 1 <= wsEdits + 2
        BY <1>0, <2>1, <2>2, <2>3 DEF WsTargets
      <4>2. n \in [mode : WsModes, target : WsTargets, route : 1..2] /\ n.target = wsAccount[a].target + 1
        BY <2>3, <4>1
      <4>3. wsAccount' = [wsAccount EXCEPT ![a] = n]
        BY <3>2
      <4> HIDE DEF n
      <4> QED
        BY <4>1, <4>2, <4>3
    <3>3. ASSUME wsAccount' = [wsAccount EXCEPT ![a].route = 3 - @] PROVE EditedRow
      <4> DEFINE n == [wsAccount[a] EXCEPT !.route = 3 - @]
      <4>1. 3 - wsAccount[a].route \in 1..2
        BY <2>3
      <4>2. n \in [mode : WsModes, target : WsTargets, route : 1..2] /\ n.target = wsAccount[a].target
        BY <2>3, <4>1
      <4>3. wsAccount' = [wsAccount EXCEPT ![a] = n]
        BY <3>3
      <4>4. n.target <= wsEdits + 2
        BY <2>1, <2>2, <2>3, <4>2 DEF WsTargets
      <4> HIDE DEF n
      <4> QED
        BY <4>2, <4>3, <4>4
    <3>4. wsAccount' \in {[wsAccount EXCEPT ![a].mode = m] : m \in WsModes \ {wsAccount[a].mode}}
                     \cup {[wsAccount EXCEPT ![a].target = @ + 1], [wsAccount EXCEPT ![a].route = 3 - @]}
      BY DEF EditWsAccount
    <3>5. \/ \E m \in WsModes : wsAccount' = [wsAccount EXCEPT ![a].mode = m]
          \/ wsAccount' = [wsAccount EXCEPT ![a].target = @ + 1]
          \/ wsAccount' = [wsAccount EXCEPT ![a].route = 3 - @]
      BY <3>4
    <3> QED
      BY <3>1, <3>2, <3>3, <3>5
  <2>6. PICK row \in [mode : WsModes, target : WsTargets, route : 1..2] :
          row.target <= wsEdits + 2 /\ wsAccount' = [wsAccount EXCEPT ![a] = row]
    BY <2>4
  <2>7. \A b \in WsAccounts : wsAccount'[b].target <= wsEdits + 2
    <3>1. ASSUME NEW b \in WsAccounts PROVE wsAccount'[b].target <= wsEdits + 2
      <4>1. wsAccount[b] \in [mode : WsModes, target : WsTargets, route : 1..2]
            /\ wsAccount[b].target <= wsEdits + 1
        BY <2>1, <2>2
      <4> QED
        BY <2>1, <2>6, <4>1 DEF WsTargets
    <3> QED
      BY <3>1
  <2> QED
    BY <2>1, <2>6, <2>7
<1>2. SocketTypes'
  <2>1. wsEdits \in 0..WsMaxEdits /\ WsMaxEdits \in Nat
    BY WsAssumption DEF SocketTypes
  <2>2. wsEdits' \in 0..WsMaxEdits /\ \A b \in WsAccounts : wsAccount'[b].target <= wsEdits' + 1
    <3>1. wsEdits' + 1 = wsEdits + 2
      BY <1>0, <2>1
    <3> QED
      BY <1>0, <1>1, <2>1, <3>1
  <2> QED
    BY <1>0, <1>1, <2>2 DEF SocketTypes, wsMemory
<1>3. LogBound' /\ TurnBound'
  BY <1>0 DEF LogBound, TurnBound, wsMemory
<1>4. TurnSent'
  BY <1>0 DEF TurnSent, wsMemory, BridgeKnows, BridgeBody
<1>5. BytesKept'
  BY <1>0, MemoryStays DEF wsMemory
<1>6. SnapshotsExact'
  BY <1>0, SnapshotsStay DEF wsMemory, SnapshotsExact, SnapshotExact
<1> QED
  BY <1>2, <1>3, <1>4, <1>5, <1>6

\* A frame that is read, or refused, and a connection that is cancelled, leave
\* everything else as it is.
LEMMA ReadOrCancelKeeps ==
  ASSUME SocketInv, ReadTurn \/ CancelSocket
  PROVE  SocketInv'
<1> USE DEF SocketInv
<1>0. SocketTypes /\ UNCHANGED <<wsAccount, wsTurn, wsLog, wsMemory, wsEdits>>
      /\ wsSocket' \in {wsSocket, [wsSocket EXCEPT !.phase = "closing"]}
      /\ wsInbox' \in 0..1 /\ wsAsked' \in 0..WsMaxTurns
  BY WsAssumption DEF ReadTurn, CancelSocket, SocketTypes, wsWorld
<1>1. /\ wsSocket' \in WsConnections
      /\ wsSocket'.mode = wsSocket.mode /\ wsSocket'.binding = wsSocket.binding
      /\ wsSocket'.link = wsSocket.link
  BY <1>0 DEF SocketTypes, WsConnections
<1>2. SocketTypes'
  BY <1>0, <1>1 DEF SocketTypes, wsMemory
<1>3. LogBound' /\ TurnBound'
  BY <1>0, <1>1 DEF LogBound, TurnBound, wsMemory
<1>4. TurnSent'
  BY <1>0 DEF TurnSent, wsMemory, BridgeKnows, BridgeBody
<1>5. BytesKept'
  BY <1>0, MemoryStays DEF wsMemory
<1>6. SnapshotsExact'
  BY <1>0, SnapshotsStay DEF wsMemory, SnapshotsExact, SnapshotExact
<1> QED
  BY <1>2, <1>3, <1>4, <1>5, <1>6

\* A message that is taken names a response of the log, another's or none.
LEMMA TakeTurnKeeps ==
  ASSUME SocketInv, TakeTurn
  PROVE  SocketInv'
<1> USE DEF SocketInv
<1>0. SocketTypes /\ UNCHANGED <<wsSocket, wsLog, wsMemory, wsWorld>> /\ wsInbox' = 0
  BY DEF TakeTurn
<1> DEFINE Taken == /\ wsTurn' \in WsTurns /\ wsTurn'.at \in {"idle", "taken"}
                    /\ wsTurn'.at = "taken" => wsTurn'.prev \in {WsNone, WsOld} \cup 1..Len(wsLog)
<1>1. Taken
  <2>1. CASE wsTurn' = WsIdle
    BY <2>1, IdleTyped
  <2>2. ASSUME NEW prev \in {WsNone, WsOld} \cup (1..Len(wsLog)), NEW warm \in BOOLEAN,
               wsTurn' = [WsIdle EXCEPT !.at = "taken", !.prev = prev, !.warm = warm]
        PROVE  Taken
    <3>1. prev \in Int
      BY <1>0 DEF SocketTypes, WsNone, WsOld
    <3> HIDE DEF SocketInv
    <3>2. WsIdle \in WsTurns /\ "taken" \in TurnPhases
      BY IdleTyped DEF TurnPhases
    <3> QED
      BY <2>2, <3>1, <3>2 DEF WsTurns
  <2>3. \/ wsTurn' = WsIdle
        \/ \E prev \in {WsNone, WsOld} \cup (1..Len(wsLog)), warm \in BOOLEAN :
              wsTurn' = [WsIdle EXCEPT !.at = "taken", !.prev = prev, !.warm = warm]
    BY DEF TakeTurn
  <2> HIDE DEF Taken
  <2> QED
    BY <2>1, <2>2, <2>3
<1>2. SocketTypes'
  BY <1>0, <1>1 DEF SocketTypes, wsMemory, wsWorld
<1>3. LogBound' /\ TurnBound'
  BY <1>0, <1>1 DEF LogBound, TurnBound, wsMemory
<1>4. TurnSent'
  BY <1>1 DEF TurnSent
<1>5. BytesKept'
  BY <1>0, MemoryStays DEF wsMemory
<1>6. SnapshotsExact'
  BY <1>0, SnapshotsStay DEF wsMemory, SnapshotsExact, SnapshotExact
<1> QED
  BY <1>2, <1>3, <1>4, <1>5, <1>6

\* A step of the turn that leaves alone what the connection remembers.
LEMMA TurnStepTyped ==
  ASSUME SocketInv, UNCHANGED <<wsInbox, wsMemory, wsWorld>>,
         wsSocket' \in WsConnections, wsTurn' \in WsTurns, wsLog' \in Seq(WsTurnRows)
  PROVE  SocketTypes' /\ BytesKept'
<1>1. SocketTypes /\ BytesKept /\ UNCHANGED <<wsHistory, wsOrder, wsBytes>>
  BY DEF SocketInv, wsMemory
<1>2. SocketTypes'
  BY <1>1 DEF SocketTypes, wsMemory, wsWorld
<1> QED
  BY <1>1, <1>2, MemoryStays

\* A turn that fails before it was sent leaves the connection as it is, closing.
LEMMA FailedUnsent ==
  ASSUME SocketInv, TurnFails, UNCHANGED <<wsInbox, wsLog, wsMemory, wsWorld>>
  PROVE  SocketInv'
<1>0. SocketTypes /\ LogBound /\ SnapshotsExact
  BY DEF SocketInv
<1>1. /\ wsTurn' \in WsTurns /\ wsTurn'.at = "idle" /\ wsSocket' \in WsConnections
      /\ wsSocket'.mode = wsSocket.mode /\ wsSocket'.binding = wsSocket.binding
      /\ wsSocket'.link = wsSocket.link
  BY <1>0, FailedTyped
<1>2. SocketTypes' /\ BytesKept'
  <2>1. wsLog' \in Seq(WsTurnRows)
    BY <1>0 DEF SocketTypes
  <2> QED
    BY <1>1, <2>1, TurnStepTyped
<1>3. LogBound'
  BY <1>0, <1>1 DEF LogBound, wsMemory
<1>4. TurnBound' /\ TurnSent'
  BY <1>1 DEF TurnBound, TurnSent
<1>5. SnapshotsExact'
  BY <1>0, SnapshotsStay DEF wsMemory, SnapshotsExact, SnapshotExact
<1> QED
  BY <1>2, <1>3, <1>4, <1>5 DEF SocketInv

\* The response of another connection is not one of this connection's.
LEMMA OldIsStored ==
  ASSUME SocketTypes
  PROVE  PreviousResponse(WsOld) = wsStored[WsOld]
<1>1. WsOld \notin DOMAIN wsIds
  <2>1. DOMAIN wsIds \subseteq Nat
    BY DEF SocketTypes, Range
  <2> QED
    BY <2>1 DEF WsOld
<1> QED
  BY <1>1 DEF PreviousResponse, SocketTypes

\* An account is chosen that the connection is bound to, or may be.
LEMMA ChooseKeeps ==
  ASSUME SocketInv, ChooseWsAccount
  PROVE  SocketInv'
<1>0. SocketTypes /\ LogBound /\ TurnBound /\ SnapshotsExact
  BY DEF SocketInv
<1>1. wsTurn.at = "taken" /\ UNCHANGED <<wsInbox, wsLog, wsMemory, wsWorld>>
  BY DEF ChooseWsAccount
<1>2. CASE TurnFails
  BY <1>1, <1>2, FailedUnsent
<1>3. ASSUME NEW a \in WsAccounts, Eligible(a),
             wsTurn.prev # WsNone => PreviousResponse(wsTurn.prev) = WsSource(a),
             wsTurn' = [wsTurn EXCEPT !.at = "chosen", !.source = WsSource(a),
                                      !.mode = wsAccount[a].mode],
             UNCHANGED wsSocket
      PROVE  SocketInv'
  <2>1. WsSource(a) \in WsSources /\ wsAccount[a].mode \in WsModes
    BY <1>0, SourceOfAccount
  <2>2. /\ wsTurn' \in WsTurns /\ wsTurn'.at = "chosen" /\ wsTurn'.source = WsSource(a)
        /\ wsTurn'.mode = wsAccount[a].mode /\ wsTurn'.prev = wsTurn.prev
    <3>1. wsTurn \in WsTurns /\ "chosen" \in TurnPhases
      BY <1>0 DEF SocketTypes, TurnPhases
    <3> QED
      BY <1>3, <2>1, <3>1 DEF WsTurns
  <2>3. SocketTypes' /\ BytesKept'
    <3>1. wsLog' \in Seq(WsTurnRows) /\ wsSocket' \in WsConnections
      BY <1>0, <1>1, <1>3 DEF SocketTypes
    <3> QED
      BY <1>1, <2>2, <3>1, TurnStepTyped
  <2>4. LogBound'
    BY <1>0, <1>1, <1>3 DEF LogBound, wsMemory
  <2>5. TurnBound'
    <3>1. wsTurn.prev = WsOld => WsSource(a) = wsStored[WsOld]
      BY <1>0, <1>3, OldIsStored DEF WsNone, WsOld
    <3>2. wsTurn.prev \in {WsNone, WsOld} \cup 1..Len(wsLog)
      BY <1>0, <1>1 DEF TurnBound
    <3> QED
      BY <1>1, <1>3, <2>1, <2>2, <3>1, <3>2 DEF TurnBound, Eligible, wsMemory
  <2>6. TurnSent'
    BY <2>2 DEF TurnSent
  <2>7. SnapshotsExact'
    BY <1>0, <1>1, SnapshotsStay DEF wsMemory, SnapshotsExact, SnapshotExact
  <2> QED
    BY <2>3, <2>4, <2>5, <2>6, <2>7 DEF SocketInv
<1> QED
  BY <1>2, <1>3 DEF ChooseWsAccount

\* What is sent joins the log: the connection is bound to its source and mode
\* from here on, as it was before if it was bound at all.
LEMMA AcceptedKeeps ==
  ASSUME SocketInv, NEW kind \in {"sent", "free"}, wsTurn.at = "chosen",
         wsLog' = Accepted(kind), UNCHANGED <<wsInbox, wsMemory, wsWorld>>,
         wsTurn' \in WsTurns, wsTurn'.at = "sent",
         wsTurn'.prev = wsTurn.prev, wsTurn'.mode = wsTurn.mode,
         wsTurn.mode = "http_bridge" =>
            BridgeKnows(wsTurn.prev) /\ wsTurn'.input = BridgeBody(wsTurn.prev),
         wsSocket' \in WsConnections, wsSocket'.mode = wsTurn.mode,
         wsSocket'.binding = wsTurn.source, wsSocket'.link \in {NoSource, wsTurn.source}
  PROVE  SocketInv'
<1>0. SocketTypes /\ LogBound /\ TurnBound /\ SnapshotsExact /\ BytesKept
  BY DEF SocketInv
<1>1. wsTurn \in WsTurns /\ wsLog \in Seq(WsTurnRows) /\ Len(wsLog) \in Nat
  BY <1>0 DEF SocketTypes
<1>2. /\ wsTurn.source \in WsSources /\ wsTurn.mode \in WsModes
      /\ wsSocket.mode \in {"", wsTurn.mode} /\ wsSocket.binding \in {NoSource, wsTurn.source}
      /\ wsTurn.prev = WsOld => wsTurn.source = wsStored[WsOld]
      /\ wsTurn.prev \in {WsNone, WsOld} \cup 1..Len(wsLog)
  BY <1>0 DEF TurnBound
<1> DEFINE row == [source |-> wsTurn.source, mode |-> wsTurn.mode, prev |-> wsTurn.prev,
                   size |-> 0, state |-> kind]
<1>3. row \in WsTurnRows /\ row.source = wsTurn.source /\ row.mode = wsTurn.mode
      /\ row.prev = wsTurn.prev /\ row.state = kind
  <2>1. wsTurn.prev \in Int /\ 0 \in Nat /\ kind \in LogStates
    BY <1>1 DEF WsTurns, LogStates
  <2> QED
    BY <1>2, <2>1 DEF WsTurnRows
<1>4. wsLog' = Append(wsLog, row)
  BY DEF Accepted
<1> HIDE DEF row
<1>5. /\ wsLog' \in Seq(WsTurnRows) /\ Len(wsLog') = Len(wsLog) + 1
      /\ wsLog'[Len(wsLog) + 1] = row /\ \A i \in 1..Len(wsLog) : wsLog'[i] = wsLog[i]
  BY <1>1, <1>3, <1>4
<1>6. SocketTypes' /\ BytesKept'
  BY <1>5, TurnStepTyped
<1>7. \A i \in 1..Len(wsLog) : /\ wsLog[i].source = wsTurn.source /\ wsLog[i].mode = wsTurn.mode
  <2>1. ASSUME NEW i \in 1..Len(wsLog)
        PROVE  wsLog[i].source = wsTurn.source /\ wsLog[i].mode = wsTurn.mode
    <3>1. wsLog[i] \in WsTurnRows
      BY <1>1
    <3>2. wsLog[i].source \in WsSources /\ wsLog[i].mode \in WsModes
      BY <3>1 DEF WsTurnRows
    <3>3. wsLog[i].source = wsSocket.binding /\ wsLog[i].mode = wsSocket.mode
      BY <1>0 DEF LogBound
    <3>4. wsLog[i].mode # "" /\ wsLog[i].source # NoSource
      BY <3>2, NoSourceIsNone DEF WsModes
    <3> QED
      BY <1>2, <3>3, <3>4
  <2> QED
    BY <2>1
<1>8. LogBound'
  <2>1. ASSUME NEW i \in 1..Len(wsLog')
        PROVE  /\ wsLog'[i].source = wsTurn.source /\ wsLog'[i].mode = wsTurn.mode
               /\ wsLog'[i].prev \in {WsNone, WsOld} \cup 1..(i - 1)
               /\ wsLog'[i].prev = WsOld => wsLog'[i].source = wsStored[WsOld]
    <3>1. CASE i \in 1..Len(wsLog)
      BY <1>0, <1>5, <1>7, <3>1 DEF LogBound
    <3>2. CASE i = Len(wsLog) + 1
      <4>1. wsLog'[i] = row /\ i - 1 = Len(wsLog)
        BY <1>1, <1>5, <3>2
      <4> QED
        BY <1>2, <1>3, <4>1
    <3> QED
      BY <1>1, <1>5, <3>1, <3>2
  <2>2. wsStored' = wsStored
    BY DEF wsMemory
  <2> QED
    BY <2>1, <2>2 DEF LogBound
<1>9. TurnBound'
  BY DEF TurnBound
<1>10. \A id \in DOMAIN wsHistory : id \in 1..Len(wsLog)
  BY <1>0 DEF SnapshotsExact, SnapshotExact
<1>11. TurnSent'
  <2>1. Len(wsLog') = Len(wsLog) + 1 /\ wsLog'[Len(wsLog')] = row /\ Len(wsLog') # 0
    BY <1>1, <1>5
  <2>2. Len(wsLog') \notin DOMAIN wsHistory' /\ wsHistory' = wsHistory
    BY <1>1, <2>1, <1>10 DEF wsMemory
  <2> QED
    BY <1>3, <2>1, <2>2 DEF TurnSent, BridgeKnows, BridgeBody
<1>12. SnapshotsExact'
  <2>1. \A id \in DOMAIN wsHistory : id \in 1..Len(wsLog') /\ wsLog'[id] = wsLog[id]
    BY <1>1, <1>5, <1>10
  <2> QED
    BY <1>0, <2>1, SnapshotsStay DEF wsMemory
<1> QED
  BY <1>6, <1>8, <1>9, <1>11, <1>12 DEF SocketInv

\* The upstream link is dialled once, for what the connection is bound to then.
LEMMA SendOverSocketKeeps ==
  ASSUME SocketInv, SendOverSocket
  PROVE  SocketInv'
<1>0. SocketTypes /\ LogBound /\ TurnBound /\ SnapshotsExact
  BY DEF SocketInv
<1>1. wsTurn.at = "chosen" /\ wsTurn.mode = "passthrough" /\ UNCHANGED <<wsInbox, wsMemory, wsWorld>>
  BY DEF SendOverSocket
<1>2. wsTurn \in WsTurns /\ wsSocket \in WsConnections /\ wsTurn.source \in WsSources
      /\ wsSocket.binding \in {NoSource, wsTurn.source} /\ wsSocket.link \in {NoSource, wsSocket.binding}
      /\ wsSocket.mode \in {"", "passthrough"}
  BY <1>0, <1>1 DEF SocketTypes, TurnBound, LogBound
<1>3. wsTurn.source[1] \in WsAccounts
  BY <1>2 DEF WsSources
<1>4. wsAccount[wsTurn.source[1]].route \in 0..2
  BY <1>0, <1>3 DEF SocketTypes
<1> DEFINE used == [wsSocket EXCEPT !.mode = "passthrough"]
           sent == [wsTurn EXCEPT !.at = "sent"]
           route == wsAccount[wsTurn.source[1]].route
           dialled == [used EXCEPT !.link = wsTurn.source, !.route = route, !.binding = wsTurn.source]
<1>5. /\ used \in WsConnections /\ used.mode = "passthrough" /\ used.binding = wsSocket.binding
      /\ used.link = wsSocket.link
  BY <1>2 DEF WsConnections, WsModes
<1>6. /\ dialled \in WsConnections /\ dialled.mode = "passthrough"
      /\ dialled.binding = wsTurn.source /\ dialled.link = wsTurn.source
  <2> HIDE DEF used
  <2> QED
    BY <1>2, <1>4, <1>5 DEF WsConnections
<1>7. /\ sent \in WsTurns /\ sent.at = "sent" /\ sent.prev = wsTurn.prev /\ sent.mode = wsTurn.mode
  BY <1>2 DEF WsTurns, TurnPhases
<1>8. CASE /\ wsTurn' = sent /\ wsLog' = Accepted("sent")
           /\ wsSocket' = IF wsSocket.link = NoSource THEN dialled ELSE used
  <2>1. /\ wsSocket' \in WsConnections /\ wsSocket'.mode = "passthrough"
        /\ wsSocket'.binding = wsTurn.source /\ wsSocket'.link \in {NoSource, wsTurn.source}
    <3>1. CASE wsSocket.link = NoSource
      <4>1. wsSocket' = dialled
        BY <1>8, <3>1
      <4> HIDE DEF dialled
      <4> QED
        BY <1>6, <4>1
    <3>2. CASE wsSocket.link # NoSource
      <4>1. wsSocket' = used
        BY <1>8, <3>2
      <4>2. wsSocket.binding = wsTurn.source
        BY <1>2, <3>2
      <4> HIDE DEF used
      <4> QED
        BY <1>2, <1>5, <4>1, <4>2
    <3> QED
      BY <3>1, <3>2
  <2>2. wsTurn.mode # "http_bridge" /\ "sent" \in {"sent", "free"}
    BY <1>1
  <2>3. /\ wsTurn' \in WsTurns /\ wsTurn'.at = "sent" /\ wsTurn'.prev = wsTurn.prev
        /\ wsTurn'.mode = wsTurn.mode /\ wsLog' = Accepted("sent")
    BY <1>7, <1>8
  <2> HIDE DEF used, dialled, sent
  <2> QED
    BY <1>1, <2>1, <2>2, <2>3, AcceptedKeeps
<1>9. CASE /\ wsSocket' = used /\ UNCHANGED wsLog
           /\ wsTurn' = [wsTurn EXCEPT !.at = "taken", !.tried = @ \cup {wsTurn.source[1]}]
  <2>1. /\ wsTurn' \in WsTurns /\ wsTurn'.at = "taken" /\ wsTurn'.prev = wsTurn.prev
    <3>1. wsTurn.tried \cup {wsTurn.source[1]} \in SUBSET WsAccounts /\ "taken" \in TurnPhases
      BY <1>2, <1>3 DEF WsTurns, TurnPhases
    <3> QED
      BY <1>2, <1>9, <3>1 DEF WsTurns
  <2>2. SocketTypes' /\ BytesKept'
    <3>1. wsLog' \in Seq(WsTurnRows) /\ wsSocket' \in WsConnections
      BY <1>0, <1>5, <1>9 DEF SocketTypes
    <3> QED
      BY <1>1, <2>1, <3>1, TurnStepTyped
  <2>3. LogBound'
    <3>1. \A i \in 1..Len(wsLog) : wsLog[i].mode = "passthrough"
      <4>1. ASSUME NEW i \in 1..Len(wsLog) PROVE wsLog[i].mode = "passthrough"
        <5>1. wsLog[i] \in WsTurnRows
          BY <1>0 DEF SocketTypes
        <5>2. wsLog[i].mode \in WsModes
          BY <5>1 DEF WsTurnRows
        <5>3. wsLog[i].mode = wsSocket.mode
          BY <1>0 DEF LogBound
        <5> QED
          BY <1>2, <5>2, <5>3 DEF WsModes
      <4> QED
        BY <4>1
    <3>2. wsSocket'.mode = "passthrough" /\ wsSocket'.binding = wsSocket.binding
          /\ wsSocket'.link = wsSocket.link /\ wsStored' = wsStored /\ wsLog' = wsLog
      BY <1>1, <1>5, <1>9 DEF wsMemory
    <3> QED
      BY <1>0, <3>1, <3>2 DEF LogBound
  <2>4. TurnBound'
    <3>1. wsTurn.prev \in {WsNone, WsOld} \cup 1..Len(wsLog)
      BY <1>0, <1>1 DEF TurnBound
    <3> QED
      BY <1>9, <2>1, <3>1 DEF TurnBound
  <2>5. TurnSent'
    BY <2>1 DEF TurnSent
  <2>6. SnapshotsExact'
    BY <1>0, <1>1, <1>9, SnapshotsStay DEF wsMemory, SnapshotsExact, SnapshotExact
  <2> QED
    BY <2>2, <2>3, <2>4, <2>5, <2>6 DEF SocketInv
<1>10. CASE TurnFails /\ UNCHANGED wsLog
  BY <1>1, <1>10, FailedUnsent
<1> QED
  BY <1>8, <1>9, <1>10 DEF SendOverSocket

\* A turn over the bridge replays the snapshot of what it continues.
LEMMA SendOverBridgeKeeps ==
  ASSUME SocketInv, SendOverBridge
  PROVE  SocketInv'
<1>0. SocketTypes /\ LogBound /\ TurnBound /\ BytesKept
  BY DEF SocketInv
<1>1. wsTurn.at = "chosen" /\ wsTurn.mode = "http_bridge" /\ UNCHANGED <<wsInbox, wsMemory, wsWorld>>
  BY DEF SendOverBridge
<1>2. wsTurn \in WsTurns /\ wsSocket \in WsConnections /\ wsTurn.source \in WsSources
      /\ wsSocket.binding \in {NoSource, wsTurn.source} /\ wsSocket.link \in {NoSource, wsSocket.binding}
  BY <1>0, <1>1 DEF SocketTypes, TurnBound, LogBound
<1> DEFINE bound == [wsSocket EXCEPT !.mode = "http_bridge", !.binding = wsTurn.source]
           sent == [wsTurn EXCEPT !.at = "sent", !.input = BridgeBody(wsTurn.prev)]
<1>3. CASE /\ BridgeKnows(wsTurn.prev) /\ wsTurn' = sent /\ wsSocket' = bound
           /\ wsLog' = Accepted(IF wsTurn.warm THEN "free" ELSE "sent")
  <2>1. BridgeBody(wsTurn.prev) \in Seq(Nat)
    <3>1. <<>> \in Seq(Nat)
      OBVIOUS
    <3> QED
      BY <1>0, <3>1 DEF BridgeBody, BytesKept
  <2>2. /\ sent \in WsTurns /\ sent.at = "sent" /\ sent.prev = wsTurn.prev /\ sent.mode = wsTurn.mode
        /\ sent.input = BridgeBody(wsTurn.prev)
    BY <1>2, <2>1 DEF WsTurns, TurnPhases
  <2>3. /\ bound \in WsConnections /\ bound.mode = "http_bridge" /\ bound.binding = wsTurn.source
        /\ bound.link \in {NoSource, wsTurn.source}
    BY <1>2 DEF WsConnections, WsModes
  <2>4. PICK kind \in {"sent", "free"} : wsLog' = Accepted(kind)
    BY <1>3
  <2>5. wsTurn' = sent /\ wsSocket' = bound /\ BridgeKnows(wsTurn.prev)
    BY <1>3
  <2> HIDE DEF sent, bound
  <2>6. /\ wsTurn' \in WsTurns /\ wsTurn'.at = "sent" /\ wsTurn'.prev = wsTurn.prev
        /\ wsTurn'.mode = wsTurn.mode
        /\ wsTurn.mode = "http_bridge" =>
             BridgeKnows(wsTurn.prev) /\ wsTurn'.input = BridgeBody(wsTurn.prev)
    BY <2>2, <2>5
  <2>7. /\ wsSocket' \in WsConnections /\ wsSocket'.mode = wsTurn.mode
        /\ wsSocket'.binding = wsTurn.source /\ wsSocket'.link \in {NoSource, wsTurn.source}
    BY <1>1, <2>3, <2>5
  <2> QED
    BY <1>1, <2>4, <2>6, <2>7, AcceptedKeeps
<1>4. CASE TurnFails /\ UNCHANGED wsLog
  BY <1>1, <1>4, FailedUnsent
<1> QED
  BY <1>3, <1>4 DEF SendOverBridge

\* The last turn of the log is written anew by the turn that runs: its size or
\* its state, never where it went.
LEMMA LastRewritten ==
  ASSUME SocketInv, wsTurn.at \in {"sent", "seen"}, NEW row \in WsTurnRows,
         wsLog' = [wsLog EXCEPT ![Len(wsLog)] = row],
         row.source = wsLog[Len(wsLog)].source, row.mode = wsLog[Len(wsLog)].mode,
         row.prev = wsLog[Len(wsLog)].prev, UNCHANGED <<wsInbox, wsMemory, wsWorld>>,
         wsSocket' \in WsConnections, wsTurn' \in WsTurns,
         wsSocket'.mode = wsSocket.mode, wsSocket'.binding = wsSocket.binding,
         wsSocket'.link = wsSocket.link
  PROVE  /\ SocketTypes' /\ BytesKept' /\ LogBound' /\ SnapshotsExact'
         /\ Len(wsLog') = Len(wsLog) /\ wsLog'[Len(wsLog')] = row
         /\ Len(wsLog) # 0 /\ Len(wsLog') \notin DOMAIN wsHistory'
<1>0. SocketTypes /\ LogBound /\ TurnSent /\ SnapshotsExact
  BY DEF SocketInv
<1>1. wsLog \in Seq(WsTurnRows) /\ Len(wsLog) \in Nat /\ Len(wsLog) # 0
      /\ Len(wsLog) \notin DOMAIN wsHistory
  BY <1>0 DEF SocketTypes, TurnSent
<1>2. /\ wsLog' \in Seq(WsTurnRows) /\ Len(wsLog') = Len(wsLog)
      /\ \A i \in 1..Len(wsLog) : wsLog'[i] = IF i = Len(wsLog) THEN row ELSE wsLog[i]
  BY <1>1
<1>3. SocketTypes' /\ BytesKept'
  BY <1>2, TurnStepTyped, SMTT(30)
<1>4. LogBound'
  <2>1. \A i \in 1..Len(wsLog) :
            /\ wsLog'[i].source = wsLog[i].source /\ wsLog'[i].mode = wsLog[i].mode
            /\ wsLog'[i].prev = wsLog[i].prev
    BY <1>2
  <2>2. wsStored' = wsStored
    BY DEF wsMemory
  <2> QED
    BY <1>0, <1>2, <2>1, <2>2, BoundStays, ZenonT(40)
<1>5. SnapshotsExact'
  <2>1. \A id \in DOMAIN wsHistory : id \in 1..Len(wsLog') /\ wsLog'[id] = wsLog[id]
    <3>1. \A id \in DOMAIN wsHistory : id \in 1..Len(wsLog)
      BY <1>0 DEF SnapshotsExact, SnapshotExact
    <3> QED
      BY <1>1, <1>2, <3>1
  <2> QED
    BY <1>0, <2>1, SnapshotsStay DEF wsMemory
<1>6. wsLog'[Len(wsLog')] = row
  BY <1>1, <1>2
<1>7. Len(wsLog') \notin DOMAIN wsHistory'
  BY <1>1, <1>2 DEF wsMemory
<1> QED
  BY <1>1, <1>2, <1>3, <1>4, <1>5, <1>6, <1>7

\* What a turn that runs knows of the last turn of the log.
LEMMA RunningTurn ==
  ASSUME SocketInv, wsTurn.at \in {"sent", "seen"}
  PROVE  /\ wsTurn \in WsTurns /\ wsSocket \in WsConnections /\ wsLog[Len(wsLog)] \in WsTurnRows
         /\ wsLog[Len(wsLog)].state \in {"sent", "free"}
         /\ wsLog[Len(wsLog)].prev = wsTurn.prev
         /\ wsTurn.mode = "http_bridge" =>
               BridgeKnows(wsTurn.prev) /\ wsTurn.input = BridgeBody(wsTurn.prev)
<1>1. SocketTypes /\ TurnSent
  BY DEF SocketInv
<1>2. wsLog \in Seq(WsTurnRows) /\ Len(wsLog) \in Nat /\ Len(wsLog) # 0
  BY <1>1 DEF SocketTypes, TurnSent
<1>3. wsLog[Len(wsLog)] \in WsTurnRows
  BY <1>2
<1> QED
  BY <1>1, <1>3 DEF SocketTypes, TurnSent

\* A turn whose upstream is lost, or whose receipt, fails; its place in the log
\* says so.
LEMMA FailedSent ==
  ASSUME SocketInv, wsTurn.at \in {"sent", "seen"}, TurnFails, NEW state \in {"lost", "review"},
         wsLog' = [wsLog EXCEPT ![Len(wsLog)].state = state],
         UNCHANGED <<wsInbox, wsMemory, wsWorld>>
  PROVE  SocketInv'
<1>1. wsLog[Len(wsLog)] \in WsTurnRows
  BY RunningTurn
<1>2. SocketTypes
  BY DEF SocketInv
<1> DEFINE row == [wsLog[Len(wsLog)] EXCEPT !.state = state]
<1>3. /\ row \in WsTurnRows /\ row.source = wsLog[Len(wsLog)].source
      /\ row.mode = wsLog[Len(wsLog)].mode /\ row.prev = wsLog[Len(wsLog)].prev
  BY <1>1 DEF WsTurnRows, LogStates
<1>4. wsLog' = [wsLog EXCEPT ![Len(wsLog)] = row]
  OBVIOUS
<1>5. /\ wsTurn' \in WsTurns /\ wsTurn'.at = "idle" /\ wsSocket' \in WsConnections
      /\ wsSocket'.mode = wsSocket.mode /\ wsSocket'.binding = wsSocket.binding
      /\ wsSocket'.link = wsSocket.link
  BY <1>2, FailedTyped
<1> HIDE DEF row
<1>6. SocketTypes' /\ BytesKept' /\ LogBound' /\ SnapshotsExact'
  BY <1>3, <1>4, <1>5, LastRewritten
<1>7. TurnBound' /\ TurnSent'
  BY <1>5 DEF TurnBound, TurnSent
<1> QED
  BY <1>6, <1>7 DEF SocketInv

\* The answer of a turn gives it its size.
LEMMA ObserveKeeps ==
  ASSUME SocketInv, ObserveTurn
  PROVE  SocketInv'
<1>1. wsTurn.at = "sent" /\ UNCHANGED <<wsInbox, wsMemory, wsWorld>>
  BY DEF ObserveTurn
<1>2. ASSUME NEW size \in WsSizes, wsTurn' = [wsTurn EXCEPT !.at = "seen", !.size = size],
             wsLog' = [wsLog EXCEPT ![Len(wsLog)].size = size], UNCHANGED wsSocket
      PROVE  SocketInv'
  <2>1. /\ wsTurn \in WsTurns /\ wsSocket \in WsConnections /\ wsLog[Len(wsLog)] \in WsTurnRows
        /\ wsLog[Len(wsLog)].state \in {"sent", "free"}
        /\ wsLog[Len(wsLog)].prev = wsTurn.prev
        /\ wsTurn.mode = "http_bridge" =>
              BridgeKnows(wsTurn.prev) /\ wsTurn.input = BridgeBody(wsTurn.prev)
    BY <1>1, RunningTurn
  <2>2. size \in Nat
    BY WsAssumption
  <2> DEFINE row == [wsLog[Len(wsLog)] EXCEPT !.size = size]
  <2>3. /\ row \in WsTurnRows /\ row.source = wsLog[Len(wsLog)].source
        /\ row.mode = wsLog[Len(wsLog)].mode /\ row.prev = wsLog[Len(wsLog)].prev
        /\ row.size = size /\ row.state = wsLog[Len(wsLog)].state
    BY <2>1, <2>2 DEF WsTurnRows
  <2>4. wsLog' = [wsLog EXCEPT ![Len(wsLog)] = row]
    BY <1>2
  <2>5. /\ wsTurn' \in WsTurns /\ wsTurn'.at = "seen" /\ wsTurn'.size = size
        /\ wsTurn'.prev = wsTurn.prev /\ wsTurn'.mode = wsTurn.mode /\ wsTurn'.input = wsTurn.input
    BY <1>2, <2>1, <2>2 DEF WsTurns, TurnPhases
  <2> HIDE DEF row
  <2>6. /\ SocketTypes' /\ BytesKept' /\ LogBound' /\ SnapshotsExact'
        /\ Len(wsLog') = Len(wsLog) /\ wsLog'[Len(wsLog')] = row
        /\ Len(wsLog) # 0 /\ Len(wsLog') \notin DOMAIN wsHistory'
    BY <1>1, <1>2, <2>1, <2>3, <2>4, <2>5, LastRewritten
  <2>7. TurnBound'
    BY <2>5 DEF TurnBound
  <2>8. TurnSent'
    <3>1. wsHistory' = wsHistory
      BY <1>1 DEF wsMemory
    <3> QED
      BY <2>1, <2>3, <2>5, <2>6, <3>1 DEF TurnSent, BridgeKnows, BridgeBody
  <2> QED
    BY <2>6, <2>7, <2>8 DEF SocketInv
<1>3. CASE TurnFails /\ wsLog' = [wsLog EXCEPT ![Len(wsLog)].state = "lost"]
  BY <1>1, <1>3, FailedSent
<1> QED
  BY <1>2, <1>3 DEF ObserveTurn

\* A turn is settled before it is published.
LEMMA SettleKeeps ==
  ASSUME SocketInv, SettleTurn
  PROVE  SocketInv'
<1>1. wsTurn.at = "seen" /\ UNCHANGED <<wsInbox, wsMemory, wsWorld>>
  BY DEF SettleTurn
<1>2. CASE /\ wsTurn' = [wsTurn EXCEPT !.at = "paid"] /\ UNCHANGED wsSocket
           /\ wsLog' = [wsLog EXCEPT ![Len(wsLog)].state = IF @ = "sent" THEN "paid" ELSE @]
  <2>1. /\ wsTurn \in WsTurns /\ wsSocket \in WsConnections /\ wsLog[Len(wsLog)] \in WsTurnRows
        /\ wsLog[Len(wsLog)].state \in {"sent", "free"}
        /\ wsLog[Len(wsLog)].prev = wsTurn.prev
        /\ wsTurn.mode = "http_bridge" =>
              BridgeKnows(wsTurn.prev) /\ wsTurn.input = BridgeBody(wsTurn.prev)
    BY <1>1, RunningTurn
  <2>2. wsLog[Len(wsLog)].size = wsTurn.size
    BY <1>1 DEF SocketInv, TurnSent
  <2> DEFINE state == IF wsLog[Len(wsLog)].state = "sent" THEN "paid" ELSE wsLog[Len(wsLog)].state
             row == [wsLog[Len(wsLog)] EXCEPT !.state = state]
  <2>3. state \in {"paid", "free"}
    BY <2>1
  <2>4. wsLog' = [wsLog EXCEPT ![Len(wsLog)] = row]
    BY <1>2
  <2> HIDE DEF state
  <2>5. /\ row \in WsTurnRows /\ row.source = wsLog[Len(wsLog)].source
        /\ row.mode = wsLog[Len(wsLog)].mode /\ row.prev = wsLog[Len(wsLog)].prev
        /\ row.size = wsTurn.size /\ row.state = state
    BY <2>1, <2>2, <2>3 DEF WsTurnRows, LogStates
  <2>6. /\ wsTurn' \in WsTurns /\ wsTurn'.at = "paid" /\ wsTurn'.size = wsTurn.size
        /\ wsTurn'.prev = wsTurn.prev /\ wsTurn'.mode = wsTurn.mode /\ wsTurn'.input = wsTurn.input
    BY <1>2, <2>1 DEF WsTurns, TurnPhases
  <2> HIDE DEF row
  <2>7. /\ SocketTypes' /\ BytesKept' /\ LogBound' /\ SnapshotsExact'
        /\ Len(wsLog') = Len(wsLog) /\ wsLog'[Len(wsLog')] = row
        /\ Len(wsLog) # 0 /\ Len(wsLog') \notin DOMAIN wsHistory'
    BY <1>1, <1>2, <2>1, <2>4, <2>5, <2>6, LastRewritten
  <2>8. TurnBound'
    BY <2>6 DEF TurnBound
  <2>9. TurnSent'
    <3>1. wsHistory' = wsHistory
      BY <1>1 DEF wsMemory
    <3> QED
      BY <2>1, <2>3, <2>5, <2>6, <2>7, <3>1 DEF TurnSent, BridgeKnows, BridgeBody
  <2> QED
    BY <2>7, <2>8, <2>9 DEF SocketInv
<1>3. CASE TurnFails /\ wsLog' = [wsLog EXCEPT ![Len(wsLog)].state = "review"]
  BY <1>1, <1>3, FailedSent
<1> QED
  BY <1>2, <1>3 DEF SettleTurn

\* A handler that returns remembers nothing.
LEMMA LeaveKeeps ==
  ASSUME SocketInv, LeaveWs
  PROVE  SocketInv'
<1>0. SocketTypes /\ LogBound
  BY DEF SocketInv
<1>1. /\ wsSocket' = [wsSocket EXCEPT !.phase = "gone", !.link = NoSource]
      /\ wsInbox' = 0 /\ wsIds' = <<>> /\ wsIdOrder' = <<>> /\ wsHistory' = <<>> /\ wsOrder' = <<>>
      /\ wsBytes' = 0 /\ wsTurn = WsIdle
      /\ wsTurn' = wsTurn /\ wsLog' = wsLog /\ wsStored' = wsStored /\ UNCHANGED wsWorld
  BY DEF LeaveWs
<1>2. /\ wsSocket' \in WsConnections /\ wsSocket'.mode = wsSocket.mode
      /\ wsSocket'.binding = wsSocket.binding /\ wsSocket'.link = NoSource
  BY <1>0, <1>1 DEF SocketTypes, WsConnections
<1>3. Range(<<>>) = {} /\ DOMAIN <<>> = {} /\ <<>> \in Seq(Nat) /\ Len(<<>>) = 0
  BY DEF Range
<1>4. SocketTypes'
  BY <1>0, <1>1, <1>2, <1>3 DEF SocketTypes, wsWorld
<1>5. LogBound'
  BY <1>0, <1>1, <1>2 DEF LogBound
<1>6. TurnBound' /\ TurnSent'
  <2>1. wsTurn'.at = "idle"
    BY <1>1, IdleTyped
  <2> QED
    BY <2>1 DEF TurnBound, TurnSent
<1>7. BytesKept'
  <2>1. FreedBytes(Len(wsOrder))' = 0
    <3>1. FreedBytes(Len(wsOrder))' = SumOver(SnapshotBytes', 1..0)
      BY <1>1, <1>3 DEF FreedBytes
    <3>2. 1..0 = {}
      OBVIOUS
    <3> QED
      BY <3>1, <3>2, SumOverEmpty
  <2>2. WsKeep \in Nat /\ WsLimit \in Nat
    BY WsAssumption
  <2> QED
    BY <1>1, <1>3, <2>1, <2>2 DEF BytesKept
<1>8. SnapshotsExact'
  BY <1>1, <1>3 DEF SnapshotsExact
<1> QED
  BY <1>4, <1>5, <1>6, <1>7, <1>8 DEF SocketInv

\* Another response that is stored leaves the bindings that are.
LEMMA StoredStays ==
  ASSUME NEW id \in Nat, StoreBinding(id), WsOld \in DOMAIN wsStored
  PROVE  WsOld \in DOMAIN wsStored' /\ wsStored'[WsOld] = wsStored[WsOld]
BY DEF StoreBinding, WsOld

\* The snapshots a connection keeps, when the oldest n go.
LEMMA KeptOrder ==
  ASSUME BytesKept, NEW n \in 0..Len(wsOrder), NEW kept, kept = SubSeq(wsOrder, n + 1, Len(wsOrder))
  PROVE  /\ kept \in Seq(Nat) /\ Len(kept) = Len(wsOrder) - n
         /\ \A i \in 1..Len(kept) : kept[i] = wsOrder[n + i]
         /\ Range(kept) \subseteq Range(wsOrder)
<1>1. wsOrder \in Seq(Nat) /\ Len(wsOrder) \in Nat
  BY DEF BytesKept
<1>2. kept \in Seq(Nat) /\ Len(kept) = Len(wsOrder) - n
      /\ \A i \in 1..Len(kept) : kept[i] = wsOrder[n + i]
  BY <1>1
<1>3. ASSUME NEW x \in Range(kept) PROVE x \in Range(wsOrder)
  <2>0. DOMAIN kept = 1..Len(kept)
    BY <1>2
  <2>1. PICK i \in 1..Len(kept) : x = kept[i]
    BY <2>0, <1>3 DEF Range
  <2>2. n + i \in 1..Len(wsOrder) /\ wsOrder[n + i] = x
    BY <1>1, <1>2, <2>1
  <2>3. DOMAIN wsOrder = 1..Len(wsOrder)
    BY <1>1
  <2> QED
    BY <2>2, <2>3 DEF Range
<1> QED
  BY <1>2, <1>3

\* The sizes of the items of a snapshot are naturals, and so is their sum.
LEMMA TotalNat ==
  ASSUME NEW items \in Seq(Nat)
  PROVE  WsTotal(items) \in Nat
<1>1. DOMAIN items = 1..Len(items) /\ Len(items) \in Nat /\ \A i \in DOMAIN items : items[i] \in Nat
  OBVIOUS
<1>2. IsFiniteSet(DOMAIN items)
  BY <1>1, FS_Interval
<1> QED
  BY <1>1, <1>2, SumOverNat DEF WsTotal

\* The bytes counted are naturals.
LEMMA BytesNat ==
  ASSUME BytesKept
  PROVE  /\ \A i \in 1..Len(wsOrder) : /\ wsOrder[i] \in DOMAIN wsHistory
                                       /\ SnapshotBytes[i] = WsTotal(wsHistory[wsOrder[i]])
                                       /\ SnapshotBytes[i] \in Nat
         /\ \A n \in 0..Len(wsOrder) : FreedBytes(n) \in Nat
         /\ wsBytes \in Nat
<1>1. wsOrder \in Seq(Nat) /\ Len(wsOrder) \in Nat /\ DOMAIN wsOrder = 1..Len(wsOrder)
      /\ DOMAIN wsHistory = Range(wsOrder)
  BY DEF BytesKept
<1>2. ASSUME NEW i \in 1..Len(wsOrder)
      PROVE  /\ wsOrder[i] \in DOMAIN wsHistory
             /\ SnapshotBytes[i] = WsTotal(wsHistory[wsOrder[i]]) /\ SnapshotBytes[i] \in Nat
  <2>1. wsOrder[i] \in DOMAIN wsHistory
    BY <1>1 DEF Range
  <2>2. wsHistory[wsOrder[i]] \in Seq(Nat)
    BY <2>1 DEF BytesKept
  <2>3. SnapshotBytes[i] = WsTotal(wsHistory[wsOrder[i]])
    BY <1>1 DEF SnapshotBytes
  <2> QED
    BY <2>1, <2>2, <2>3, TotalNat
<1>3. ASSUME NEW n \in 0..Len(wsOrder) PROVE FreedBytes(n) \in Nat
  <2>1. IsFiniteSet(1..n)
    BY FS_Interval
  <2>2. \A i \in 1..n : SnapshotBytes[i] \in Nat
    BY <1>1, <1>2
  <2> QED
    BY <2>1, <2>2, SumOverNat DEF FreedBytes
<1>4. wsBytes \in Nat
  BY <1>1, <1>3 DEF BytesKept
<1> QED
  BY <1>2, <1>3, <1>4

\* What eviction needs is always found: to drop every snapshot is enough.
LEMMA EvictedFits ==
  ASSUME BytesKept, NEW size \in Nat, size <= WsSnapshot
  PROVE  /\ Evicted(size) \in 0..Len(wsOrder)
         /\ Len(wsOrder) - Evicted(size) < WsKeep
         /\ wsBytes - FreedBytes(Evicted(size)) + size <= WsLimit
<1> DEFINE S == {n \in 0..Len(wsOrder) :
                   Len(wsOrder) - n < WsKeep /\ wsBytes - FreedBytes(n) + size <= WsLimit}
<1>1. Len(wsOrder) \in Nat /\ wsBytes = FreedBytes(Len(wsOrder)) /\ wsBytes \in Nat
  BY BytesNat DEF BytesKept
<1>2. WsKeep \in Nat \ {0} /\ WsSnapshot \in Nat /\ WsLimit \in Nat /\ WsSnapshot <= WsLimit
  BY WsAssumption
<1>3. Len(wsOrder) \in S
  BY <1>1, <1>2
<1>4. S \in SUBSET (0..Len(wsOrder)) /\ S # {}
  BY <1>3
<1>5. Evicted(size) = Min(S)
  BY DEF Evicted
<1>6. Min(S) \in S
  <2> HIDE DEF S
  <2> QED
    BY <1>1, <1>4, MinMember
<1> QED
  BY <1>5, <1>6

\* A snapshot that is remembered is counted, and those it drops no longer are.
LEMMA RememberedBytes ==
  ASSUME BytesKept, NEW id \in Nat, id \notin DOMAIN wsHistory, NEW items \in Seq(Nat),
         RememberBridge(id, items)
  PROVE  /\ BytesKept'
         /\ \A x \in DOMAIN wsHistory' :
               \/ x = id /\ wsHistory'[x] = items
               \/ x # id /\ x \in DOMAIN wsHistory /\ wsHistory'[x] = wsHistory[x]
<1> DEFINE total == WsTotal(items)
           n == Evicted(total)
           kept == SubSeq(wsOrder, n + 1, Len(wsOrder))
<1>1. CASE total > WsSnapshot
  <2>1. UNCHANGED <<wsHistory, wsOrder, wsBytes>>
    BY <1>1 DEF RememberBridge
  <2>2. \A x \in DOMAIN wsHistory' : x # id /\ x \in DOMAIN wsHistory /\ wsHistory'[x] = wsHistory[x]
    BY <2>1
  <2> QED
    BY <2>1, <2>2, MemoryStays
<1>2. CASE ~(total > WsSnapshot)
  <2>1. /\ wsOrder' = Append(kept, id)
        /\ wsHistory' = [x \in Range(wsOrder') |-> IF x = id THEN items ELSE wsHistory[x]]
        /\ wsBytes' = wsBytes - FreedBytes(n) + total
    BY <1>2 DEF RememberBridge
  <2>2. total \in Nat /\ total <= WsSnapshot
    BY <1>2, TotalNat, WsAssumption
  <2> HIDE DEF total
  <2>3. n \in 0..Len(wsOrder) /\ Len(wsOrder) - n < WsKeep /\ wsBytes - FreedBytes(n) + total <= WsLimit
    BY <2>2, EvictedFits
  <2> HIDE DEF n
  <2>4. /\ kept \in Seq(Nat) /\ Len(kept) = Len(wsOrder) - n
        /\ \A i \in 1..Len(kept) : kept[i] = wsOrder[n + i]
        /\ Range(kept) \subseteq Range(wsOrder)
    BY <2>3, KeptOrder
  <2> HIDE DEF kept
  <2>5. /\ wsOrder' \in Seq(Nat) /\ Len(wsOrder') = Len(kept) + 1
        /\ Range(wsOrder') = Range(kept) \cup {id}
    BY <2>1, <2>4, AppendRange
  <2>6. /\ \A i \in 1..Len(kept) : wsOrder'[i] = wsOrder[n + i]
        /\ wsOrder'[Len(kept) + 1] = id
    BY <2>1, <2>4
  <2>7. DOMAIN wsHistory = Range(wsOrder) /\ Len(wsOrder) \in Nat /\ Len(kept) \in Nat
    BY <2>4 DEF BytesKept
  <2>8. DOMAIN wsHistory' = Range(wsOrder')
    BY <2>1
  <2>9. \A x \in DOMAIN wsHistory' :
           \/ x = id /\ wsHistory'[x] = items
           \/ x # id /\ x \in DOMAIN wsHistory /\ wsHistory'[x] = wsHistory[x]
    BY <2>1, <2>4, <2>5, <2>7, <2>8
  <2>10. \A x \in DOMAIN wsHistory' : wsHistory'[x] \in Seq(Nat)
    BY <2>9 DEF BytesKept
  <2>11. \A i, j \in 1..Len(wsOrder') : wsOrder'[i] = wsOrder'[j] => i = j
    <3>1. ASSUME NEW i \in 1..Len(kept) PROVE wsOrder'[i] # id /\ n + i \in 1..Len(wsOrder)
      <4>1. n + i \in 1..Len(wsOrder)
        BY <2>3, <2>4, <2>7
      <4>2. wsOrder[n + i] \in DOMAIN wsHistory
        BY <4>1, BytesNat
      <4> QED
        BY <2>6, <4>1, <4>2
    <3>2. ASSUME NEW i \in 1..Len(kept), NEW j \in 1..Len(kept), wsOrder'[i] = wsOrder'[j] PROVE i = j
      <4>1. wsOrder[n + i] = wsOrder[n + j] /\ n + i \in 1..Len(wsOrder) /\ n + j \in 1..Len(wsOrder)
        BY <2>6, <3>1, <3>2
      <4>2. n + i = n + j
        BY <4>1 DEF BytesKept
      <4> QED
        BY <2>3, <4>2
    <3>3. ASSUME NEW i \in 1..Len(wsOrder') PROVE i \in 1..Len(kept) \/ i = Len(kept) + 1
      BY <2>5, <2>7
    <3> QED
      BY <2>6, <3>1, <3>2, <3>3
  <2>12. Len(wsOrder') <= WsKeep
    BY <2>3, <2>4, <2>5, <2>7, WsAssumption, SMTT(30)
  <2>13. wsBytes' = FreedBytes(Len(wsOrder))'
    <3> DEFINE m == Len(kept)
    <3>0. PICK F, G : F = SnapshotBytes /\ G = SnapshotBytes'
      OBVIOUS
    <3>1. wsBytes = SumOver(F, 1..(n + m)) /\ FreedBytes(n) = SumOver(F, 1..n)
      <4>1. n + m = Len(wsOrder)
        BY <2>3, <2>4, <2>7
      <4> QED
        BY <3>0, <4>1 DEF BytesKept, FreedBytes
    <3>2. FreedBytes(Len(wsOrder))' = SumOver(G, 1..(m + 1))
      BY <2>5, <3>0 DEF FreedBytes
    <3>3. \A i \in 1..(n + m) : F[i] \in Nat
      BY <2>3, <2>4, <2>7, <3>0, BytesNat
    <3>4. \A i \in 1..(m + 1) : G[i] = WsTotal(wsHistory'[wsOrder'[i]])
      <4>1. DOMAIN wsOrder' = 1..(m + 1)
        BY <2>5
      <4> QED
        BY <3>0, <4>1 DEF SnapshotBytes
    <3>5. \A i \in 1..m : G[i] = F[n + i]
      <4>1. ASSUME NEW i \in 1..m PROVE G[i] = F[n + i]
        <5>1. n + i \in 1..Len(wsOrder) /\ i \in 1..(m + 1)
          BY <2>3, <2>4, <2>7
        <5>2. wsOrder'[i] = wsOrder[n + i] /\ wsOrder[n + i] \in DOMAIN wsHistory
              /\ F[n + i] = WsTotal(wsHistory[wsOrder[n + i]])
          BY <2>6, <3>0, <5>1, BytesNat
        <5>3. wsOrder'[i] \in Range(wsOrder')
          <6>1. i \in DOMAIN wsOrder'
            BY <2>5, <5>1
          <6> QED
            BY <6>1 DEF Range
        <5>4. wsHistory'[wsOrder'[i]] = wsHistory[wsOrder[n + i]]
          BY <2>8, <2>9, <5>2, <5>3
        <5> QED
          BY <3>4, <5>1, <5>2, <5>4
      <4> QED
        BY <4>1
    <3>6. G[m + 1] = total
      <4>1. wsOrder'[m + 1] = id /\ id \in Range(wsOrder')
        BY <2>5, <2>6
      <4>2. wsHistory'[id] = items
        BY <2>8, <2>9, <4>1
      <4>3. m + 1 \in 1..(m + 1)
        BY <2>7
      <4> QED
        BY <3>4, <4>1, <4>2, <4>3 DEF total
    <3>7. m \in Nat /\ n \in Nat
      BY <2>3, <2>7
    <3> HIDE DEF m
    <3>8. SumOver(F, 1..(n + m)) = SumOver(F, 1..n) + SumOver(G, 1..m)
      <4>1. Rest(F, G, n, m)
        BY <3>3, <3>5, <3>7 DEF Rest
      <4> QED
        BY <3>7, <4>1, SumOverSplit
    <3>9. SumOver(G, 1..(m + 1)) = SumOver(G, 1..m) + G[m + 1]
      <4>1. \A i \in 1..m : G[i] \in Nat
        BY <3>3, <3>5, <3>7, SMTT(30)
      <4>2. \A i \in 1..(m + 1) : G[i] \in Int
        BY <2>2, <3>6, <3>7, <4>1
      <4> QED
        BY <3>7, <4>2, SumOverNext
    <3>10. SumOver(F, 1..n) \in Int /\ SumOver(G, 1..m) \in Int
      <4>1. IsFiniteSet(1..n) /\ IsFiniteSet(1..m)
        BY <3>7, FS_Interval
      <4>2. \A i \in 1..n : F[i] \in Int
        BY <3>3, <3>7
      <4>3. \A i \in 1..m : G[i] \in Int
        BY <3>3, <3>5, <3>7
      <4>4. SumOver(F, 1..n) \in Int
        BY <4>1, <4>2, SumOverInt
      <4>5. SumOver(G, 1..m) \in Int
        BY <4>1, <4>3, SumOverInt
      <4> QED
        BY <4>4, <4>5
    <3> QED
      BY <2>1, <2>2, <3>1, <3>2, <3>6, <3>8, <3>9, <3>10
  <2>14. wsBytes' <= WsLimit
    BY <2>1, <2>3
  <2>15. BytesKept'
    BY <2>5, <2>8, <2>10, <2>11, <2>12, <2>13, <2>14 DEF BytesKept
  <2> QED
    BY <2>9, <2>15
<1> QED
  BY <1>1, <1>2

\* A turn that is published is remembered on the connection, newest of all.
LEMMA PublishKeeps ==
  ASSUME SocketInv, PublishTurn
  PROVE  SocketInv'
<1> DEFINE id == Len(wsLog)
           items == Append(wsTurn.input, wsTurn.size)
<1>0. SocketTypes /\ LogBound /\ TurnSent /\ BytesKept /\ SnapshotsExact
  BY DEF SocketInv
<1>1. /\ wsTurn.at = "paid" /\ RememberResponse(id) /\ StoreBinding(id)
      /\ UNCHANGED <<wsInbox, wsLog, wsWorld>>
  BY DEF PublishTurn
<1>2. /\ wsTurn \in WsTurns /\ wsLog \in Seq(WsTurnRows) /\ id \in Nat \ {0} /\ id \notin DOMAIN wsHistory
      /\ wsLog[id].prev = wsTurn.prev /\ wsLog[id].size = wsTurn.size
      /\ wsLog[id].state \in {"paid", "free"}
  BY <1>0, <1>1 DEF SocketTypes, TurnSent
<1>3. /\ wsTurn' \in WsTurns /\ wsTurn'.at = "idle" /\ wsSocket' \in WsConnections
      /\ wsSocket'.mode = wsSocket.mode /\ wsSocket'.binding = wsSocket.binding
      /\ wsSocket'.link = wsSocket.link
  <2>1. CASE wsTurn' = WsIdle /\ UNCHANGED wsSocket
    BY <1>0, <2>1, IdleTyped DEF SocketTypes
  <2>2. CASE TurnFails
    BY <1>0, <2>2, FailedTyped
  <2> QED
    BY <2>1, <2>2 DEF PublishTurn
<1>4. WsOld \in DOMAIN wsStored' /\ wsStored'[WsOld] = wsStored[WsOld]
  BY <1>0, <1>1, <1>2, StoredStays DEF SocketTypes
<1>5. wsIdOrder' \in Seq(Nat) /\ DOMAIN wsIds' = Range(wsIdOrder')
  <2>1. wsIdOrder \in Seq(Nat) /\ id \in Nat
    BY <1>0, <1>2 DEF SocketTypes
  <2> HIDE DEF id
  <2>2. Append(wsIdOrder, id) \in Seq(Nat) /\ Append(wsIdOrder, id) # <<>>
    BY <2>1, SMTT(30)
  <2>3. Tail(Append(wsIdOrder, id)) \in Seq(Nat)
    BY <2>2
  <2> QED
    BY <1>1, <2>2, <2>3 DEF RememberResponse
<1>6. SocketTypes'
  BY <1>0, <1>1, <1>3, <1>4, <1>5 DEF SocketTypes, wsWorld
<1>7. LogBound'
  BY <1>0, <1>1, <1>3, <1>4, BoundStays
<1>8. TurnBound' /\ TurnSent'
  BY <1>3 DEF TurnBound, TurnSent
<1>9. CASE wsTurn.mode = "http_bridge"
  <2>1. /\ BridgeKnows(wsTurn.prev) /\ wsTurn.input = BridgeBody(wsTurn.prev)
        /\ wsTurn.input \in Seq(Nat) /\ wsTurn.size \in Nat
    BY <1>0, <1>1, <1>2, <1>9 DEF TurnSent, WsTurns
  <2>2. /\ items \in Seq(Nat) /\ Len(items) = Len(wsTurn.input) + 1
        /\ Last(items) = wsTurn.size /\ Front(items) = wsTurn.input
    BY <2>1, AppendRange
  <2>3. RememberBridge(id, items)
    BY <1>9 DEF PublishTurn
  <2> HIDE DEF items, id
  <2>4. /\ BytesKept'
        /\ \A x \in DOMAIN wsHistory' :
              \/ x = id /\ wsHistory'[x] = items
              \/ x # id /\ x \in DOMAIN wsHistory /\ wsHistory'[x] = wsHistory[x]
    BY <1>0, <1>2, <2>2, <2>3, RememberedBytes
  <2>5. \A i \in 1..id : wsLog[i].prev \in {WsNone, WsOld} \cup 1..(i - 1)
    BY <1>0 DEF LogBound, id
  <2>6. \A x \in DOMAIN wsHistory : x \in 1..id
    BY <1>0 DEF SnapshotsExact, SnapshotExact, id
  <2>7. ASSUME NEW x \in DOMAIN wsHistory', x = id PROVE SnapshotExact(x)'
    <3>1. wsHistory'[x] = items
      BY <2>4, <2>7
    <3>2. x \in 1..id /\ wsTurn.prev \in {WsNone, WsOld} \cup 1..(id - 1)
      BY <1>2, <2>5, <2>7
    <3>3. wsTurn.prev # id
      BY <1>2, <3>2 DEF WsNone, WsOld
    <3>4. ASSUME wsTurn.prev \in DOMAIN wsHistory' PROVE Front(items) = wsHistory'[wsTurn.prev]
      <4>1. wsTurn.prev \in DOMAIN wsHistory /\ wsHistory'[wsTurn.prev] = wsHistory[wsTurn.prev]
        BY <2>4, <3>3, <3>4
      <4> QED
        BY <2>1, <2>2, <4>1 DEF BridgeBody
    <3>5. ASSUME wsTurn.prev = WsNone PROVE Len(items) = 1
      <4>1. WsNone \notin DOMAIN wsHistory
        BY <2>6, <1>2 DEF WsNone
      <4>2. wsTurn.input = <<>> /\ Len(<<>>) = 0
        BY <2>1, <3>5, <4>1 DEF BridgeBody
      <4> QED
        BY <2>2, <4>2
    <3>6. wsLog' = wsLog /\ id = Len(wsLog)
      BY <1>1 DEF id
    <3> QED
      BY <1>2, <2>2, <2>7, <3>1, <3>2, <3>4, <3>5, <3>6 DEF SnapshotExact
  <2>8. ASSUME NEW x \in DOMAIN wsHistory', x # id PROVE SnapshotExact(x)'
    <3>1. x \in DOMAIN wsHistory /\ wsHistory'[x] = wsHistory[x]
      BY <2>4, <2>8
    <3>2. SnapshotExact(x) /\ x \in 1..id
      BY <1>0, <2>6, <3>1 DEF SnapshotsExact
    <3>3. wsLog[x].prev # id
      BY <1>2, <2>5, <3>2 DEF WsNone, WsOld
    <3>4. ASSUME wsLog[x].prev \in DOMAIN wsHistory'
          PROVE  Front(wsHistory'[x]) = wsHistory'[wsLog[x].prev]
      <4>1. wsLog[x].prev \in DOMAIN wsHistory /\ wsHistory'[wsLog[x].prev] = wsHistory[wsLog[x].prev]
        BY <2>4, <3>3, <3>4
      <4> QED
        BY <3>1, <3>2, <4>1 DEF SnapshotExact
    <3>5. wsLog' = wsLog
      BY <1>1
    <3> QED
      BY <3>1, <3>2, <3>4, <3>5 DEF SnapshotExact
  <2>9. SnapshotsExact'
    BY <2>7, <2>8 DEF SnapshotsExact
  <2> QED
    BY <1>6, <1>7, <1>8, <2>4, <2>9 DEF SocketInv
<1>10. CASE wsTurn.mode # "http_bridge"
  <2>1. UNCHANGED <<wsHistory, wsOrder, wsBytes>>
    BY <1>10 DEF PublishTurn
  <2>2. SnapshotsExact'
    BY <1>0, <1>1, <2>1, SnapshotsStay DEF SnapshotsExact, SnapshotExact
  <2> QED
    BY <1>0, <1>6, <1>7, <1>8, <2>1, <2>2, MemoryStays DEF SocketInv
<1> QED
  BY <1>9, <1>10

\* A connection starts with nothing.
LEMMA SocketInvHolds == WsInit => SocketInv
<1> SUFFICES ASSUME WsInit PROVE SocketInv
  OBVIOUS
<1>1. Range(<<>>) = {} /\ DOMAIN <<>> = {} /\ <<>> \in Seq(Nat) /\ Len(<<>>) = 0 /\ <<>> \in Seq(WsTurnRows)
  BY DEF Range
<1>2. WsMaxTurns \in Nat /\ WsMaxEdits \in Nat /\ WsKeep \in Nat /\ WsLimit \in Nat
  BY WsAssumption
<1>3. /\ wsAccount \in [WsAccounts -> [mode : WsModes, target : {1}, route : {1}]]
      /\ wsSocket = [phase |-> "open", mode |-> "", binding |-> NoSource, link |-> NoSource, route |-> 0]
      /\ wsTurn = WsIdle /\ wsInbox = 0 /\ wsLog = <<>> /\ wsIds = <<>> /\ wsIdOrder = <<>>
      /\ wsStored = [id \in {WsOld} |-> <<WsHome, 1>>]
      /\ wsHistory = <<>> /\ wsOrder = <<>> /\ wsBytes = 0 /\ wsAsked = 0 /\ wsEdits = 0
  BY DEF WsInit
<1>31. Len(wsLog) = 0 /\ Len(wsOrder) = 0 /\ 1..0 = {} /\ DOMAIN wsHistory = {} /\ DOMAIN wsStored = {WsOld}
  <2>1. wsLog = <<>> /\ wsOrder = <<>> /\ wsHistory = <<>>
    BY <1>3
  <2>2. Len(wsLog) = 0 /\ Len(wsOrder) = 0
    BY <2>1
  <2>3. DOMAIN wsHistory = {}
    BY <2>1, <1>1
  <2>4. DOMAIN wsStored = {WsOld}
    BY <1>3
  <2> QED
    BY <2>2, <2>3, <2>4
<1>4. /\ wsSocket \in WsConnections /\ wsSocket.link = NoSource
      /\ wsTurn \in WsTurns /\ wsTurn.at = "idle"
  <2>1. wsSocket = [phase |-> "open", mode |-> "", binding |-> NoSource, link |-> NoSource, route |-> 0]
    BY <1>3
  <2>2. wsSocket \in WsConnections /\ wsSocket.link = NoSource
    <3>1. "" \in WsModes \cup {""} /\ NoSource \in WsSources \cup {NoSource} /\ 0 \in 0..2
      OBVIOUS
    <3>2. wsSocket.link = NoSource
      BY <2>1
    <3>3. wsSocket \in WsConnections
      BY <2>1, <3>1, Zenon DEF WsConnections
    <3> QED
      BY <3>2, <3>3
  <2>3. wsTurn = WsIdle
    BY <1>3
  <2> QED
    BY <2>2, <2>3, IdleTyped
<1>5. wsAccount \in [WsAccounts -> [mode : WsModes, target : WsTargets, route : 1..2]]
      /\ \A a \in WsAccounts : wsAccount[a].target <= wsEdits + 1
  <2>1. 1 \in WsTargets /\ 1 \in 1..2
    BY <1>2 DEF WsTargets
  <2>2. ASSUME NEW a \in WsAccounts
        PROVE  wsAccount[a] \in [mode : WsModes, target : WsTargets, route : 1..2] /\ wsAccount[a].target = 1
    <3>1. wsAccount[a] \in [mode : WsModes, target : {1}, route : {1}]
      BY <1>3
    <3> QED
      BY <2>1, <3>1
  <2>3. wsAccount = [a \in WsAccounts |-> wsAccount[a]]
    BY <1>3
  <2>4. wsEdits = 0
    BY <1>3
  <2>5. \A a \in WsAccounts : wsAccount[a].target <= wsEdits + 1
    BY <2>2, <2>4
  <2> QED
    BY <2>2, <2>3, <2>5
<1>6. SocketTypes
  <2>1. wsInbox \in 0..1 /\ wsAsked \in 0..WsMaxTurns /\ wsEdits \in 0..WsMaxEdits
    <3>1. wsInbox = 0 /\ wsAsked = 0 /\ wsEdits = 0
      BY <1>3
    <3> QED
      BY <1>2, <3>1
  <2>2. wsLog \in Seq(WsTurnRows) /\ wsIdOrder \in Seq(Nat) /\ DOMAIN wsIds = Range(wsIdOrder)
    BY <1>1, <1>3
  <2> QED
    BY <1>4, <1>5, <1>31, <2>1, <2>2 DEF SocketTypes
<1>7. LogBound /\ TurnBound /\ TurnSent /\ SnapshotsExact
  <2>1. 1..Len(wsLog) = {}
    BY <1>31
  <2>2. LogBound
    BY <1>4, <2>1 DEF LogBound
  <2> QED
    BY <1>31, <1>4, <2>2 DEF TurnBound, TurnSent, SnapshotsExact
<1>8. BytesKept
  <2>1. FreedBytes(Len(wsOrder)) = 0
    <3>1. 1..Len(wsOrder) = {}
      BY <1>31
    <3> QED
      BY <3>1, SumOverEmpty DEF FreedBytes
  <2>2. wsOrder \in Seq(Nat) /\ Range(wsOrder) = {} /\ wsBytes = 0
    BY <1>1, <1>3
  <2> QED
    BY <1>2, <1>31, <2>1, <2>2 DEF BytesKept
<1> QED
  BY <1>6, <1>7, <1>8 DEF SocketInv

\* Every step of the connection and of its world keeps the invariant.
LEMMA SocketInvStep == SocketInv /\ [WsNext]_wsVars => SocketInv'
<1> SUFFICES ASSUME SocketInv, [WsNext]_wsVars PROVE SocketInv'
  OBVIOUS
<1>1. CASE UNCHANGED wsVars
  <2>0. SocketTypes /\ LogBound /\ TurnBound /\ TurnSent /\ BytesKept /\ SnapshotsExact
    BY DEF SocketInv
  <2>1. SocketTypes' /\ LogBound' /\ TurnBound' /\ TurnSent'
    BY <1>1, <2>0 DEF wsVars, SocketTypes, LogBound, TurnBound, TurnSent, BridgeKnows, BridgeBody
  <2>2. BytesKept'
    BY <1>1, <2>0, MemoryStays DEF wsVars
  <2>3. SnapshotsExact'
    BY <1>1, <2>0, SnapshotsStay DEF wsVars, SnapshotsExact, SnapshotExact
  <2> QED
    BY <2>1, <2>2, <2>3 DEF SocketInv
<1> QED
  BY <1>1, EditWsKeeps, ReadOrCancelKeeps, TakeTurnKeeps, ChooseKeeps, SendOverSocketKeeps,
     SendOverBridgeKeeps, ObserveKeeps, SettleKeeps, PublishKeeps, LeaveKeeps DEF WsNext, WsHandler

\* The invariant says that continuations are faithful.
LEMMA SocketInvSays == SocketInv => ContinuationFaithful
<1> SUFFICES ASSUME SocketInv PROVE ContinuationFaithful
  OBVIOUS
<1>0. SocketTypes /\ LogBound /\ BytesKept /\ SnapshotsExact
  BY DEF SocketInv
<1>1. DOMAIN wsLog = 1..Len(wsLog) /\ Len(wsLog) \in Nat
  BY <1>0 DEF SocketTypes
<1>2. WsTypeOK
  <2>1. wsBytes \in Nat
    BY <1>0, BytesNat
  <2>2. \A a \in WsAccounts : wsAccount[a].mode \in WsModes /\ wsAccount[a].target \in WsTargets
    BY <1>0 DEF SocketTypes
  <2>3. /\ wsSocket.phase \in {"open", "closing", "gone"}
        /\ wsSocket.binding \in WsSources \cup {NoSource} /\ wsSocket.link \in WsSources \cup {NoSource}
    BY <1>0 DEF SocketTypes, WsConnections
  <2>4. wsTurn.at \in {"idle", "taken", "chosen", "sent", "seen", "paid"}
    BY <1>0 DEF SocketTypes, WsTurns, TurnPhases
  <2> QED
    BY <1>0, <2>1, <2>2, <2>3, <2>4 DEF WsTypeOK, SocketTypes
<1>3. OneUpstreamPerSocket
  BY <1>0, <1>1 DEF OneUpstreamPerSocket, LogBound
<1>4. ContinuesAtSource
  <2>1. ASSUME NEW i \in DOMAIN wsLog
        PROVE  CASE wsLog[i].prev = WsOld -> wsLog[i].source = wsStored[WsOld]
                 [] wsLog[i].prev \in 1..(i - 1) -> wsLog[i].source = wsLog[wsLog[i].prev].source
                 [] OTHER -> wsLog[i].prev = WsNone
    <3>1. /\ wsLog[i].source = wsSocket.binding
          /\ wsLog[i].prev \in {WsNone, WsOld} \cup 1..(i - 1)
          /\ wsLog[i].prev = WsOld => wsLog[i].source = wsStored[WsOld]
      BY <1>0, <1>1 DEF LogBound
    <3>2. CASE wsLog[i].prev = WsOld
      <4>1. wsLog[i].prev \notin 1..(i - 1)
        BY <3>2 DEF WsOld
      <4> QED
        BY <3>1, <3>2, <4>1
    <3>3. CASE wsLog[i].prev \in 1..(i - 1)
      <4>1. wsLog[i].prev # WsOld
        BY <3>3 DEF WsOld
      <4>2. wsLog[i].prev \in 1..Len(wsLog)
        BY <1>1, <3>3
      <4>3. wsLog[wsLog[i].prev].source = wsSocket.binding
        BY <1>0, <4>2 DEF LogBound
      <4> QED
        BY <3>1, <3>3, <4>1, <4>3
    <3>4. CASE wsLog[i].prev = WsNone
      <4>1. wsLog[i].prev # WsOld /\ wsLog[i].prev \notin 1..(i - 1)
        BY <3>4 DEF WsOld, WsNone
      <4> QED
        BY <3>4, <4>1
    <3> QED
      BY <3>1, <3>2, <3>3, <3>4
  <2> QED
    BY <2>1 DEF ContinuesAtSource
<1>5. HistoryExact
  BY <1>0 DEF HistoryExact, BytesKept, SnapshotsExact, SnapshotExact
<1> QED
  BY <1>2, <1>3, <1>4, <1>5 DEF ContinuationFaithful

\* Whatever an administrator edits, however many turns there are and whatever
\* is evicted between them, a connection is served by one source, a response is
\* continued where it was made, and the bridge replays the conversation in full
\* or not at all, within its bytes (responsesWebSocket, chooseAccount,
\* socketUpstream, rememberBridge, storeResponseBinding).
THEOREM ConversationsStayFaithful == WsSpec => []ContinuationFaithful
<1>1. WsInit => SocketInv
  BY SocketInvHolds
<1>2. SocketInv /\ [WsNext]_wsVars => SocketInv'
  BY SocketInvStep
<1>3. SocketInv => ContinuationFaithful
  BY SocketInvSays
<1> QED
  BY <1>1, <1>2, <1>3, PTL DEF WsSpec

(***************************************************************************)
(* SearchQuota.  The counter of a month is balanced by what was obtained,  *)
(* is held or was lost under its epoch (QuotaExact); a unit is given back  *)
(* to the epoch it was taken from because no two keys share one (KeyInv)   *)
(* and a search holds one of the provider it asks (HolderInv).             *)
(***************************************************************************)

Tries == {"try", "ask", "return"}
SqPhases == Tries \cup {"idle", "weigh", "none", "canceled", "failed", "served"}

\* A search by its phase: what it was told of the configuration, and which
\* providers it has yet to try.
SearchOK(r) ==
    /\ r.phase \in SqPhases
    /\ r.phase = "weigh" =>
          /\ r = [phase |-> r.phase, limit |-> r.limit, test |-> r.test, next |-> r.next, left |-> r.left]
          /\ r.limit \in [Kinds -> SqLimits] /\ r.next \in Nat \ {0}
          /\ r.left = [q \in DOMAIN r.left |-> r.left[q]] /\ DOMAIN r.left \subseteq Kinds
    /\ r.phase \in Tries =>
          /\ r = [phase |-> r.phase, limit |-> r.limit, test |-> r.test, queue |-> r.queue, epoch |-> r.epoch]
          /\ r.limit \in [Kinds -> SqLimits] /\ r.queue \in Seq(Kinds) /\ r.epoch \in Nat
    /\ r.phase \in {"ask", "return"} => r.queue # <<>>
    /\ r.phase = "return" => r.epoch > 0

SqTypeOK ==
    /\ sqLimit \in [Kinds -> SqLimits] /\ sqKey \in [Kinds -> [epoch : Nat, used : Nat]]
    /\ sqSearch = [s \in SqSearches |-> sqSearch[s]] /\ \A s \in SqSearches : SearchOK(sqSearch[s])
    /\ sqServed \in [Epochs -> Nat] /\ sqLost \in [Epochs -> Nat]
    /\ sqEpoch \in Nat /\ sqTurns \in 0..SqMaxTurns /\ sqFaults \in Nat

\* Every epoch beyond the keys there are has ended in a turn.
Present == {p \in Kinds : sqKey[p].epoch > 0}
EpochInv == sqEpoch <= sqTurns + Cardinality(Present)

\* No two keys have one epoch, and an absent key counts nothing.
KeyInv ==
    /\ \A p \in Kinds : sqKey[p].epoch <= sqEpoch /\ (sqKey[p].epoch = 0 => sqKey[p].used = 0)
    /\ \A p, q \in Kinds : sqKey[p].epoch = sqKey[q].epoch /\ sqKey[p].epoch > 0 => p = q

Holds(r, e) == r.phase \in {"ask", "return"} /\ r.epoch = e

\* A unit that a search holds was counted by no provider's key but that of the
\* provider it asks.
HolderInv ==
    \A s \in SqSearches : \A e \in Nat \ {0} :
        Holds(sqSearch[s], e) => e <= sqEpoch /\ \A p \in Kinds : sqKey[p].epoch = e => p = Head(sqSearch[s].queue)

\* Nothing is counted under an epoch to come.
FutureInv == \A e \in Epochs : e > sqEpoch => sqServed[e] = 0 /\ sqLost[e] = 0

QuotaInv == SqTypeOK /\ EpochInv /\ KeyInv /\ HolderInv /\ FutureInv /\ QuotaExact /\ QuotaRespected

\* The providers are finitely many.
LEMMA KindsFinite == IsFiniteSet(Kinds) /\ Cardinality(Kinds) \in Nat
<1>1. IsFiniteSet(DOMAIN SqProviders)
  <2>1. DOMAIN SqProviders = 1..Len(SqProviders) /\ Len(SqProviders) \in Nat
    BY SqAssumption
  <2> QED
    BY <2>1, FS_Interval
<1>2. SqProviders \in Surjection(DOMAIN SqProviders, Kinds)
  BY SqAssumption DEF Surjection, Kinds
<1> QED
  BY <1>1, <1>2, FS_Surjection, FS_CardinalityType

\* There is a largest quota.
LEMMA LargestLimit == Max(SqLimits) \in SqLimits /\ \A n \in SqLimits : n <= Max(SqLimits)
  BY SqAssumption DEF Max

\* How many hold a unit after one search has moved.
One(b) == IF b THEN 1 ELSE 0
LEMMA HoldingMoves ==
  ASSUME NEW s \in SqSearches, NEW r, sqSearch = [t \in SqSearches |-> sqSearch[t]],
         sqSearch' = [sqSearch EXCEPT ![s] = r], NEW e
  PROVE  /\ Holding(e) \in Nat
         /\ Holding(e)' = Holding(e) - One(Holds(sqSearch[s], e)) + One(Holds(r, e))
         /\ Holds(sqSearch[s], e) => Holding(e) > 0
<1> DEFINE H == {t \in SqSearches : sqSearch[t].phase \in {"ask", "return"} /\ sqSearch[t].epoch = e}
<1>1. IsFiniteSet(H) /\ Holding(e) = Cardinality(H) /\ Holding(e)' = Cardinality(H')
  BY FS_Subset, SqAssumption DEF Holding
<1>2. s \in H <=> Holds(sqSearch[s], e)
  BY DEF Holds
<1>3. H' = IF Holds(r, e) THEN H \cup {s} ELSE H \ {s}
  BY DEF Holds
<1> HIDE DEF H
<1>4. Cardinality(H) \in Nat /\ IsFiniteSet(H \ {s})
  BY <1>1, FS_CardinalityType, FS_RemoveElement
<1>5. Cardinality(H \cup {s}) = IF s \in H THEN Cardinality(H) ELSE Cardinality(H) + 1
  BY <1>1, FS_AddElement
<1>6. Cardinality(H \ {s}) = IF s \in H THEN Cardinality(H) - 1 ELSE Cardinality(H)
  BY <1>1, FS_RemoveElement
<1>7. Cardinality(H \ {s}) \in Nat
  BY <1>4, FS_CardinalityType
<1> QED
  BY <1>1, <1>2, <1>3, <1>4, <1>5, <1>6, <1>7 DEF One

\* Nobody holds a unit of an epoch to come.
LEMMA NobodyHolds ==
  ASSUME SqTypeOK, NEW e, \A s \in SqSearches : ~Holds(sqSearch[s], e)
  PROVE  Holding(e) = 0
<1>1. {s \in SqSearches : sqSearch[s].phase \in {"ask", "return"} /\ sqSearch[s].epoch = e} = {}
  BY DEF Holds
<1> QED
  BY <1>1, FS_EmptySet DEF Holding

\* The epochs in use, and the next where a key is absent, are counted.
LEMMA EpochsReach ==
  ASSUME SqTypeOK, EpochInv
  PROVE  /\ Cardinality(Present) \in Nat
         /\ 1..sqEpoch \subseteq Epochs
         /\ \A p \in Kinds \ Present : /\ sqEpoch + 1 \in Epochs
                                       /\ Cardinality(Present \cup {p}) = Cardinality(Present) + 1
<1>1. IsFiniteSet(Kinds) /\ Cardinality(Kinds) \in Nat
  BY KindsFinite
<1>2. IsFiniteSet(Present) /\ Cardinality(Present) \in Nat /\ Cardinality(Present) <= Cardinality(Kinds)
  BY <1>1, FS_Subset, FS_CardinalityType DEF Present
<1>3. ASSUME NEW p \in Kinds \ Present
      PROVE  /\ Cardinality(Present \cup {p}) = Cardinality(Present) + 1
             /\ Cardinality(Present) + 1 <= Cardinality(Kinds)
  <2>1. Cardinality(Present \cup {p}) = Cardinality(Present) + 1
    BY <1>2, FS_AddElement
  <2>2. Present \cup {p} \in SUBSET Kinds
    BY DEF Present
  <2>3. Cardinality(Present \cup {p}) <= Cardinality(Kinds)
    BY <1>1, <2>2, FS_Subset
  <2> QED
    BY <2>1, <2>3
<1>4. /\ SqMaxTurns \in Nat /\ sqEpoch \in Nat /\ sqTurns \in 0..SqMaxTurns
      /\ sqEpoch <= sqTurns + Cardinality(Present)
  BY SqAssumption DEF SqTypeOK, EpochInv
<1>5. sqEpoch <= SqMaxTurns + Cardinality(Kinds)
  BY <1>1, <1>2, <1>4
<1>6. ASSUME NEW p \in Kinds \ Present PROVE sqEpoch + 1 <= SqMaxTurns + Cardinality(Kinds)
  <2>1. Cardinality(Present) + 1 <= Cardinality(Kinds)
    BY <1>3
  <2> QED
    BY <1>1, <1>2, <1>4, <2>1
<1> QED
  BY <1>1, <1>2, <1>3, <1>4, <1>5, <1>6 DEF Epochs

\* What the script that reserves leaves, when it reserves.
LEMMA CountKept ==
  ASSUME QuotaInv, NEW p \in Kinds, NEW limit \in Nat, NEW key, key = Reserved(p, limit), key # sqKey[p],
         sqKey' = [sqKey EXCEPT ![p] = key], sqEpoch' = Max({sqEpoch, key.epoch}), sqTurns' = sqTurns
  PROVE  /\ key \in [epoch : Nat, used : Nat] /\ key.epoch \in Epochs
         /\ key.used = sqServed[key.epoch] + Holding(key.epoch) + sqLost[key.epoch] + 1
         /\ key.used <= limit
         /\ sqEpoch' \in Nat /\ sqEpoch <= sqEpoch' /\ key.epoch <= sqEpoch'
         /\ \A q \in Kinds : sqKey'[q].epoch = key.epoch => q = p
         /\ \A q \in Kinds \ {p} : sqKey'[q] = sqKey[q]
         /\ \A s \in SqSearches : Holds(sqSearch[s], key.epoch) => Head(sqSearch[s].queue) = p
         /\ sqKey' \in [Kinds -> [epoch : Nat, used : Nat]] /\ EpochInv' /\ KeyInv'
<1> DEFINE k == sqKey[p]
<1>a. /\ k \in [epoch : Nat, used : Nat] /\ sqEpoch \in Nat /\ sqKey \in [Kinds -> [epoch : Nat, used : Nat]]
      /\ sqTurns \in Nat /\ SqTypeOK
  BY DEF QuotaInv, SqTypeOK
<1>b. k.used < limit /\ key = [epoch |-> IF k.epoch = 0 THEN sqEpoch + 1 ELSE k.epoch, used |-> k.used + 1]
  BY <1>a DEF Reserved
<1>c. k.epoch <= sqEpoch /\ (k.epoch = 0 => k.used = 0)
  BY DEF QuotaInv, KeyInv
<1>d. sqEpoch' = IF k.epoch = 0 THEN sqEpoch + 1 ELSE sqEpoch
  BY <1>a, <1>b, <1>c, MaxOfTwo
<1>e. \A q \in Kinds : sqKey'[q] = IF q = p THEN key ELSE sqKey[q]
  BY <1>a
<1>f. /\ \A q \in Kinds : sqKey[q].epoch <= sqEpoch /\ sqKey[q].epoch \in Nat
      /\ \A q, r \in Kinds : sqKey[q].epoch = sqKey[r].epoch /\ sqKey[q].epoch > 0 => q = r
  BY <1>a DEF QuotaInv, KeyInv
<1>1. CASE k.epoch = 0
  <2>1. p \in Kinds \ Present
    BY <1>1 DEF Present
  <2>2. sqEpoch + 1 \in Epochs /\ Cardinality(Present \cup {p}) = Cardinality(Present) + 1 /\ Cardinality(Present) \in Nat
    BY <2>1, EpochsReach DEF QuotaInv
  <2>3. sqServed[sqEpoch + 1] = 0 /\ sqLost[sqEpoch + 1] = 0
    BY <1>a, <2>2 DEF QuotaInv, FutureInv
  <2>4. \A s \in SqSearches : ~Holds(sqSearch[s], sqEpoch + 1)
    BY <1>a DEF QuotaInv, HolderInv
  <2>5. Holding(sqEpoch + 1) = 0
    BY <1>a, <2>4, NobodyHolds
  <2>6. Present' = Present \cup {p}
    BY <1>1, <1>a, <1>b, <1>e DEF Present
  <2>7. EpochInv'
    BY <1>a, <1>1, <1>d, <2>2, <2>6 DEF QuotaInv, EpochInv
  <2>8. key.epoch = sqEpoch + 1 /\ key.used = 1
    BY <1>1, <1>b, <1>c
  <2>9. KeyInv'
    BY <1>1, <1>a, <1>d, <1>e, <1>f, <2>8 DEF QuotaInv, KeyInv
  <2>10. \A q \in Kinds : sqKey'[q].epoch = key.epoch => q = p
    BY <1>a, <1>e, <1>f, <2>8
  <2> QED
    BY <1>1, <1>a, <1>b, <1>c, <1>d, <1>e, <2>2, <2>3, <2>4, <2>5, <2>7, <2>8, <2>9, <2>10
<1>2. CASE k.epoch > 0
  <2>1. key.epoch = k.epoch /\ key.used = k.used + 1 /\ sqEpoch' = sqEpoch
    BY <1>2, <1>a, <1>b, <1>d
  <2>2. k.epoch \in Epochs
    BY <1>2, <1>a, <1>c, EpochsReach DEF QuotaInv
  <2>3. k.used = sqServed[k.epoch] + Holding(k.epoch) + sqLost[k.epoch]
    BY <1>2 DEF QuotaInv, QuotaExact
  <2>4. \A s \in SqSearches : Holds(sqSearch[s], k.epoch) => p = Head(sqSearch[s].queue)
    BY <1>2, <1>a DEF QuotaInv, HolderInv
  <2>5. Present' = Present
    BY <1>2, <1>a, <1>e, <2>1 DEF Present
  <2>6. EpochInv'
    BY <2>1, <2>5 DEF QuotaInv, EpochInv
  <2>7. KeyInv'
    BY <1>2, <1>a, <1>e, <1>f, <2>1 DEF QuotaInv, KeyInv
  <2>8. \A q \in Kinds : sqKey'[q].epoch = key.epoch => q = p
    BY <1>2, <1>a, <1>e, <1>f, <2>1
  <2> QED
    BY <1>a, <1>b, <1>c, <1>e, <2>1, <2>2, <2>3, <2>4, <2>6, <2>7, <2>8
<1> QED
  BY <1>a, <1>1, <1>2

\* A search has moved, and no unit with it.
SearchMoves(s, r) == SearchOK(r) /\ sqSearch' = [sqSearch EXCEPT ![s] = r]
NoUnit(r) == \A e \in Nat \ {0} : ~Holds(r, e)

\* Searches keep their shape.
LEMMA MovedTypes ==
  ASSUME SqTypeOK, NEW s \in SqSearches, NEW r, SearchMoves(s, r)
  PROVE  /\ sqSearch' = [t \in SqSearches |-> sqSearch'[t]] /\ \A t \in SqSearches : SearchOK(sqSearch'[t])
         /\ sqSearch'[s] = r /\ \A t \in SqSearches \ {s} : sqSearch'[t] = sqSearch[t]
  BY DEF SqTypeOK, SearchMoves

\* A search without a unit may go on.
LEMMA IdleMoves ==
  ASSUME QuotaInv, NEW s \in SqSearches, NEW r, SearchMoves(s, r), NoUnit(sqSearch[s]), NoUnit(r),
         UNCHANGED <<sqLimit, sqKey, sqServed, sqLost, sqEpoch, sqTurns>>, sqFaults' \in Nat
  PROVE  QuotaInv'
<1>1. SqTypeOK'
  <2>1. /\ sqSearch' = [t \in SqSearches |-> sqSearch'[t]]
        /\ \A t \in SqSearches : SearchOK(sqSearch'[t])
    BY MovedTypes DEF QuotaInv
  <2> QED
    BY <2>1 DEF QuotaInv, SqTypeOK, SearchOK
<1>2. EpochInv' /\ KeyInv' /\ FutureInv'
  BY DEF QuotaInv, EpochInv, Present, KeyInv, FutureInv
<1>3. HolderInv'
  BY MovedTypes DEF QuotaInv, HolderInv, NoUnit
<1>4. ASSUME NEW e \in Nat \ {0} PROVE Holding(e)' = Holding(e) /\ Holding(e) \in Nat
  <2>1. sqSearch = [t \in SqSearches |-> sqSearch[t]] /\ sqSearch' = [sqSearch EXCEPT ![s] = r]
    BY DEF QuotaInv, SqTypeOK, SearchMoves
  <2>2. ~Holds(sqSearch[s], e) /\ ~Holds(r, e)
    BY DEF NoUnit
  <2> QED
    BY <2>1, <2>2, HoldingMoves DEF One
<1>5. QuotaExact'
  BY <1>4 DEF QuotaInv, QuotaExact, SqTypeOK
<1>6. QuotaRespected'
  BY <1>4 DEF QuotaInv, QuotaRespected, Epochs
<1> QED
  BY <1>1, <1>2, <1>3, <1>5, <1>6 DEF QuotaInv

\* What a step of one search does to the epoch of its unit.
EpochMoves(s, r, e) ==
    LET held == Holding(e) - One(Holds(sqSearch[s], e)) + One(Holds(r, e)) IN
    /\ \A f \in Nat \ {0, e} : ~Holds(sqSearch[s], f) /\ ~Holds(r, f)
    /\ \A f \in Epochs \ {e} : sqServed'[f] = sqServed[f] /\ sqLost'[f] = sqLost[f]
    /\ \A p \in Kinds : sqKey'[p].epoch # e => sqKey'[p] = sqKey[p]
    /\ \A p \in Kinds : sqKey'[p].epoch = e => sqKey'[p].used = sqServed'[e] + held + sqLost'[e]
    /\ sqServed'[e] + held <= Max(SqLimits)
    /\ sqEpoch <= sqEpoch' /\ e <= sqEpoch'
    /\ \A p \in Kinds : sqKey'[p].epoch = e =>
          /\ Holds(r, e) => p = Head(r.queue)
          /\ \A t \in SqSearches : Holds(sqSearch[t], e) => p = Head(sqSearch[t].queue)

\* The types of the counters after a step.
CountersTyped ==
    /\ sqKey' \in [Kinds -> [epoch : Nat, used : Nat]]
    /\ sqServed' \in [Epochs -> Nat] /\ sqLost' \in [Epochs -> Nat]
    /\ sqEpoch' \in Nat /\ sqFaults' \in Nat /\ sqLimit' = sqLimit /\ sqTurns' = sqTurns

\* A search with a unit may go on when its epoch stays balanced.
LEMMA UnitMoves ==
  ASSUME QuotaInv, NEW s \in SqSearches, NEW r, SearchMoves(s, r), NEW e \in Epochs, EpochMoves(s, r, e),
         CountersTyped, EpochInv', KeyInv'
  PROVE  QuotaInv'
<1> DEFINE held == Holding(e) - One(Holds(sqSearch[s], e)) + One(Holds(r, e))
<1>0. e \in Nat \ {0} /\ Epochs \subseteq Nat \ {0}
  BY DEF Epochs
<1>1. SqTypeOK'
  <2>1. /\ sqSearch' = [t \in SqSearches |-> sqSearch'[t]]
        /\ \A t \in SqSearches : SearchOK(sqSearch'[t])
    BY MovedTypes DEF QuotaInv
  <2> QED
    BY <2>1 DEF QuotaInv, SqTypeOK, SearchOK, CountersTyped
<1>2. /\ sqSearch = [t \in SqSearches |-> sqSearch[t]] /\ sqSearch' = [sqSearch EXCEPT ![s] = r]
      /\ sqEpoch \in Nat /\ sqEpoch' \in Nat /\ sqEpoch <= sqEpoch' /\ e <= sqEpoch'
  BY DEF QuotaInv, SqTypeOK, SearchMoves, CountersTyped, EpochMoves
<1>3. Holding(e)' = held /\ held \in Nat
  BY <1>2, HoldingMoves DEF One
<1>4. ASSUME NEW f \in Nat \ {0, e} PROVE Holding(f)' = Holding(f) /\ Holding(f) \in Nat
  <2>1. ~Holds(sqSearch[s], f) /\ ~Holds(r, f)
    BY DEF EpochMoves
  <2> QED
    BY <1>2, <2>1, HoldingMoves DEF One
<1>5. HolderInv'
  <2> SUFFICES ASSUME NEW t \in SqSearches, NEW f \in Nat \ {0}, Holds(sqSearch'[t], f)
               PROVE  f <= sqEpoch' /\ \A p \in Kinds : sqKey'[p].epoch = f => p = Head(sqSearch'[t].queue)
    BY DEF HolderInv
  <2>1. CASE t = s
    <3>1. sqSearch'[t] = r /\ f = e
      BY <2>1, MovedTypes DEF QuotaInv, EpochMoves
    <3> QED
      BY <1>2, <3>1 DEF EpochMoves
  <2>2. CASE t # s
    <3>1. sqSearch'[t] = sqSearch[t]
      BY <2>2, MovedTypes DEF QuotaInv
    <3>2. f <= sqEpoch /\ \A p \in Kinds : sqKey[p].epoch = f => p = Head(sqSearch[t].queue)
      BY <3>1 DEF QuotaInv, HolderInv
    <3>3. f # e => \A p \in Kinds : sqKey'[p].epoch = f => sqKey[p].epoch = f
      BY DEF EpochMoves
    <3>4. f = e => \A p \in Kinds : sqKey'[p].epoch = f => p = Head(sqSearch[t].queue)
      BY <3>1 DEF EpochMoves
    <3> QED
      BY <1>2, <3>1, <3>2, <3>3, <3>4
  <2> QED
    BY <2>1, <2>2
<1>6. FutureInv'
  BY <1>0, <1>2 DEF QuotaInv, FutureInv, EpochMoves
<1>7. QuotaExact'
  <2> SUFFICES ASSUME NEW p \in Kinds, NEW f, f = sqKey'[p].epoch, f > 0
               PROVE  sqKey'[p].used = sqServed'[f] + Holding(f)' + sqLost'[f]
    BY DEF QuotaExact, Holding
  <2>1. CASE f = e
    <3>1. sqKey'[p].used = sqServed'[e] + held + sqLost'[e]
      BY <2>1 DEF EpochMoves
    <3>2. Holding(f)' = Holding(e)'
      BY <2>1
    <3> QED
      BY <1>3, <2>1, <3>1, <3>2
  <2>2. CASE f # e
    <3>1. sqKey'[p] = sqKey[p] /\ f \in Nat \ {0, e} /\ f \in 1..sqEpoch
      BY <2>2 DEF EpochMoves, QuotaInv, SqTypeOK, KeyInv
    <3>2. f \in Epochs
      BY <3>1, EpochsReach DEF QuotaInv
    <3>3. sqServed'[f] = sqServed[f] /\ sqLost'[f] = sqLost[f]
      BY <2>2, <3>1, <3>2 DEF EpochMoves
    <3>4. Holding(f)' = Holding(f)
      BY <3>1, <1>4
    <3>5. sqKey[p].used = sqServed[f] + Holding(f) + sqLost[f]
      BY <3>1 DEF QuotaInv, QuotaExact
    <3> QED
      BY <3>1, <3>3, <3>4, <3>5
  <2> QED
    BY <2>1, <2>2
<1>8. QuotaRespected'
  <2> SUFFICES ASSUME NEW f \in Epochs PROVE sqServed'[f] + Holding(f)' <= Max(SqLimits)
    BY DEF QuotaRespected, Epochs
  <2>1. CASE f = e
    BY <1>3, <2>1 DEF EpochMoves
  <2>2. CASE f # e
    <3>1. Holding(f)' = Holding(f) /\ sqServed'[f] = sqServed[f]
      BY <1>0, <1>4, <2>2 DEF EpochMoves
    <3> QED
      BY <3>1 DEF QuotaInv, QuotaRespected
  <2> QED
    BY <2>1, <2>2
<1> QED
  BY <1>1, <1>5, <1>6, <1>7, <1>8 DEF QuotaInv

\* Without a unit, nothing is counted and the epoch is not asked for.
LEMMA QuotaInit == SqInit => QuotaInv
<1> SUFFICES ASSUME SqInit PROVE QuotaInv
  OBVIOUS
<1>1. SqTypeOK
  BY SqAssumption DEF SqInit, SqTypeOK, NoKey, SearchOK, SqPhases, Tries
<1>2. KeyInv /\ HolderInv /\ FutureInv /\ QuotaExact
  BY DEF SqInit, KeyInv, HolderInv, Holds, FutureInv, QuotaExact, NoKey
<1>3. EpochInv
  <2>1. Cardinality(Present) \in Nat
    BY KindsFinite, FS_Subset, FS_CardinalityType DEF Present
  <2> QED
    BY <2>1 DEF SqInit, EpochInv
<1>4. QuotaRespected
  <2> SUFFICES ASSUME NEW e \in Epochs PROVE sqServed[e] + Holding(e) <= Max(SqLimits)
    BY DEF QuotaRespected
  <2>1. \A s \in SqSearches : ~Holds(sqSearch[s], e)
    BY DEF SqInit, Holds
  <2>2. Holding(e) = 0 /\ sqServed[e] = 0
    BY <1>1, <2>1, NobodyHolds DEF SqInit
  <2>3. Max(SqLimits) \in Nat
    BY LargestLimit, SqAssumption
  <2> QED
    BY <2>2, <2>3
<1> QED
  BY <1>1, <1>2, <1>3, <1>4 DEF QuotaInv

\* The providers are told in their order.
LEMMA ProviderInOrder == ASSUME NEW i \in Nat \ {0}, i <= Len(SqProviders) PROVE SqProviders[i] \in Kinds
  BY SqAssumption DEF Kinds

\* A step of a search that has no unit and gets none.
Idles(s, r) ==
    /\ SearchMoves(s, r) /\ NoUnit(sqSearch[s]) /\ NoUnit(r)
    /\ UNCHANGED <<sqLimit, sqKey, sqServed, sqLost, sqEpoch, sqTurns>> /\ sqFaults' \in Nat

\* A search that ended has nothing.
LEMMA EndedIdle ==
  ASSUME NEW outcome \in {"idle", "none", "canceled", "failed", "served"}
  PROVE  SearchOK([phase |-> outcome]) /\ NoUnit([phase |-> outcome])
  BY DEF SearchOK, SqPhases, Tries, NoUnit, Holds

\* A search begins, weighs the providers and orders them.
LEMMA QuotaWeighs ==
  ASSUME QuotaInv, NEW s \in SqSearches, (\E test \in BOOLEAN : BeginSearch(s, test)) \/ Weigh(s) \/ Order(s)
  PROVE  QuotaInv'
<1> DEFINE r == sqSearch[s]
<1>a. SearchOK(r) /\ sqFaults \in Nat /\ sqLimit \in [Kinds -> SqLimits] /\ sqKey \in [Kinds -> [epoch : Nat, used : Nat]]
  BY DEF QuotaInv, SqTypeOK
<1>1. ASSUME NEW test \in BOOLEAN, BeginSearch(s, test) PROVE QuotaInv'
  <2> DEFINE n == [phase |-> "weigh", limit |-> sqLimit, test |-> test, next |-> 1, left |-> [p \in {} |-> 0]]
  <2>1. SearchOK(n)
    BY <1>a DEF SearchOK, SqPhases, Tries
  <2>2. Idles(s, n)
    BY <1>1, <1>a, <2>1 DEF BeginSearch, Become, SqSame, Idles, SearchMoves, NoUnit, Holds
  <2> QED
    BY <2>2, IdleMoves DEF Idles
<1>2. CASE Weigh(s)
  <2> DEFINE p == SqProviders[r.next]
             rest == r.limit[p] - sqKey[p].used
             left == [q \in DOMAIN r.left \cup {p} |-> IF q # p THEN r.left[q] ELSE IF Metered(r, p) THEN rest ELSE 0]
             pass == [r EXCEPT !.next = @ + 1]
             take == [r EXCEPT !.next = @ + 1, !.left = left]
  <2>1. /\ r.phase = "weigh" /\ r.next <= Len(SqProviders)
        /\ r = [phase |-> r.phase, limit |-> r.limit, test |-> r.test, next |-> r.next, left |-> r.left]
        /\ r.limit \in [Kinds -> SqLimits] /\ r.next \in Nat \ {0}
        /\ r.left = [q \in DOMAIN r.left |-> r.left[q]] /\ DOMAIN r.left \subseteq Kinds
    BY <1>2, <1>a DEF Weigh, SearchOK
  <2>2. p \in Kinds
    BY <2>1, ProviderInOrder
  <2>3. left = [q \in DOMAIN left |-> left[q]] /\ DOMAIN left \subseteq Kinds
    BY <2>1, <2>2, SMTT(30)
  <2>4. /\ \/ sqSearch' = [sqSearch EXCEPT ![s] = pass] /\ sqFaults' = sqFaults
           \/ sqSearch' = [sqSearch EXCEPT ![s] = take] /\ sqFaults' = sqFaults
           \/ sqSearch' = [sqSearch EXCEPT ![s] = [phase |-> "failed"]] /\ sqFaults' = sqFaults + 1
        /\ UNCHANGED <<sqLimit, sqKey, sqServed, sqLost, sqEpoch, sqTurns>>
    BY <1>2 DEF Weigh, Become, EndSearch, SqFault, SqSame
  <2> HIDE DEF left
  <2>5. SearchOK(pass) /\ NoUnit(pass) /\ NoUnit(r)
    <3>1. pass = [phase |-> "weigh", limit |-> r.limit, test |-> r.test, next |-> r.next + 1, left |-> r.left]
      BY <2>1
    <3> QED
      BY <2>1, <3>1 DEF SearchOK, SqPhases, Tries, NoUnit, Holds
  <2>6. SearchOK(take) /\ NoUnit(take)
    <3>1. take = [phase |-> "weigh", limit |-> r.limit, test |-> r.test, next |-> r.next + 1, left |-> left]
      <4>1. r.next + 1 \in Nat
        BY <2>1
      <4>2. /\ take.phase = "weigh" /\ take.limit = r.limit /\ take.test = r.test
            /\ take.next = r.next + 1 /\ take.left = left
        BY <2>1
      <4>3. take = [x \in {"phase", "limit", "test", "next", "left"} |-> take[x]]
        BY <2>1
      <4> HIDE DEF take
      <4> QED
        BY <4>2, <4>3
    <3> QED
      BY <2>1, <2>3, <3>1 DEF SearchOK, SqPhases, Tries, NoUnit, Holds
  <2> HIDE DEF pass, take
  <2>7. Idles(s, pass) \/ Idles(s, take) \/ Idles(s, [phase |-> "failed"])
    BY <1>a, <2>4, <2>5, <2>6, EndedIdle DEF Idles, SearchMoves
  <2> QED
    BY <2>7, IdleMoves, SMTT(30) DEF Idles
<1>3. CASE Order(s)
  <2>1. /\ r.phase = "weigh" /\ DOMAIN r.left \subseteq Kinds /\ r.limit \in [Kinds -> SqLimits]
    BY <1>3, <1>a DEF Order, SearchOK
  <2> DEFINE m == Cardinality(DOMAIN r.left)
             n(q) == [phase |-> "try", limit |-> r.limit, test |-> r.test, queue |-> q, epoch |-> 0]
  <2>2. m \in Nat
    BY <2>1, KindsFinite, FS_Subset, FS_CardinalityType
  <2>3. PICK queue \in [1..m -> DOMAIN r.left] : sqSearch' = [sqSearch EXCEPT ![s] = n(queue)]
    BY <1>3 DEF Order, Become
  <2> HIDE DEF m
  <2>4. queue \in Seq(Kinds)
    BY <2>1, <2>2
  <2>5. SearchOK(n(queue)) /\ NoUnit(n(queue)) /\ NoUnit(r)
    BY <2>1, <2>4 DEF SearchOK, SqPhases, Tries, NoUnit, Holds
  <2>6. Idles(s, n(queue))
    BY <1>3, <1>a, <2>3, <2>5 DEF Order, SqSame, Idles, SearchMoves
  <2> QED
    BY <2>6, IdleMoves DEF Idles
<1> QED
  BY <1>1, <1>2, <1>3

\* A search goes on with a provider, with or without a unit.
Trying(r, phase, queue, epoch) ==
    [phase |-> phase, limit |-> r.limit, test |-> r.test, queue |-> queue, epoch |-> epoch]

LEMMA TryingShape ==
  ASSUME NEW r, SearchOK(r), r.phase \in Tries, NEW phase \in Tries, NEW queue \in Seq(Kinds), NEW epoch \in Nat,
         phase \in {"ask", "return"} => queue # <<>>, phase = "return" => epoch > 0
  PROVE  /\ SearchOK(Trying(r, phase, queue, epoch))
         /\ \A e : Holds(Trying(r, phase, queue, epoch), e) <=> phase \in {"ask", "return"} /\ epoch = e
         /\ Trying(r, phase, queue, epoch).queue = queue
  BY DEF SearchOK, SqPhases, Tries, Trying, Holds

\* The updates of a search are of this form.
LEMMA TryingUpdates ==
  ASSUME NEW r, SearchOK(r), r.phase \in Tries
  PROVE  /\ r.queue \in Seq(Kinds) /\ r.epoch \in Nat /\ r.limit \in [Kinds -> SqLimits]
         /\ r.queue # <<>> => Head(r.queue) \in Kinds /\ Tail(r.queue) \in Seq(Kinds)
         /\ [r EXCEPT !.queue = Tail(@)] = Trying(r, r.phase, Tail(r.queue), r.epoch)
         /\ [r EXCEPT !.phase = "try", !.queue = Tail(@)] = Trying(r, "try", Tail(r.queue), r.epoch)
         /\ [r EXCEPT !.phase = "return"] = Trying(r, "return", r.queue, r.epoch)
         /\ [r EXCEPT !.phase = "try", !.queue = Tail(@), !.epoch = 0] = Trying(r, "try", Tail(r.queue), 0)
<1>1. /\ r = [phase |-> r.phase, limit |-> r.limit, test |-> r.test, queue |-> r.queue, epoch |-> r.epoch]
      /\ r.limit \in [Kinds -> SqLimits] /\ r.queue \in Seq(Kinds) /\ r.epoch \in Nat
  BY DEF SearchOK
<1>2. r.queue # <<>> => Head(r.queue) \in Kinds /\ Tail(r.queue) \in Seq(Kinds)
  BY <1>1
<1>3. [r EXCEPT !.queue = Tail(@)] = Trying(r, r.phase, Tail(r.queue), r.epoch)
  <2> DEFINE m == [r EXCEPT !.queue = Tail(@)]
  <2>1. m = [x \in {"phase", "limit", "test", "queue", "epoch"} |-> m[x]]
    BY <1>1
  <2>2. m.phase = r.phase /\ m.limit = r.limit /\ m.test = r.test /\ m.queue = Tail(r.queue) /\ m.epoch = r.epoch
    BY <1>1
  <2> HIDE DEF m
  <2>3. m = Trying(r, r.phase, Tail(r.queue), r.epoch)
    BY <2>1, <2>2 DEF Trying
  <2> QED
    BY <2>3 DEF m
<1>4. [r EXCEPT !.phase = "try", !.queue = Tail(@)] = Trying(r, "try", Tail(r.queue), r.epoch)
  <2> DEFINE m == [r EXCEPT !.phase = "try", !.queue = Tail(@)]
  <2>1. m = [x \in {"phase", "limit", "test", "queue", "epoch"} |-> m[x]]
    BY <1>1
  <2>2. m.phase = "try" /\ m.limit = r.limit /\ m.test = r.test /\ m.queue = Tail(r.queue) /\ m.epoch = r.epoch
    BY <1>1
  <2> HIDE DEF m
  <2>3. m = Trying(r, "try", Tail(r.queue), r.epoch)
    BY <2>1, <2>2 DEF Trying
  <2> QED
    BY <2>3 DEF m
<1>5. [r EXCEPT !.phase = "return"] = Trying(r, "return", r.queue, r.epoch)
  BY <1>1 DEF Trying
<1>6. [r EXCEPT !.phase = "try", !.queue = Tail(@), !.epoch = 0] = Trying(r, "try", Tail(r.queue), 0)
  <2> DEFINE m == [r EXCEPT !.phase = "try", !.queue = Tail(@), !.epoch = 0]
  <2>1. m = [x \in {"phase", "limit", "test", "queue", "epoch"} |-> m[x]]
    BY <1>1
  <2>2. m.phase = "try" /\ m.limit = r.limit /\ m.test = r.test /\ m.queue = Tail(r.queue) /\ m.epoch = 0
    BY <1>1
  <2> HIDE DEF m
  <2>3. m = Trying(r, "try", Tail(r.queue), 0)
    BY <2>1, <2>2 DEF Trying
  <2> QED
    BY <2>3 DEF m
<1> QED
  BY <1>1, <1>2, <1>3, <1>4, <1>5, <1>6

\* A search asks with a unit of an epoch.
LEMMA AskUpdate ==
  ASSUME NEW r, SearchOK(r), r.phase \in Tries, NEW e \in Nat
  PROVE  [r EXCEPT !.phase = "ask", !.epoch = e] = Trying(r, "ask", r.queue, e)
<1> DEFINE m == [r EXCEPT !.phase = "ask", !.epoch = e]
<1>1. /\ r = [phase |-> r.phase, limit |-> r.limit, test |-> r.test, queue |-> r.queue, epoch |-> r.epoch]
  BY DEF SearchOK
<1>2. m = [x \in {"phase", "limit", "test", "queue", "epoch"} |-> m[x]]
  BY <1>1
<1>3. m.phase = "ask" /\ m.limit = r.limit /\ m.test = r.test /\ m.queue = r.queue /\ m.epoch = e
  BY <1>1
<1> HIDE DEF m
<1>4. m = Trying(r, "ask", r.queue, e)
  BY <1>2, <1>3 DEF Trying
<1> QED
  BY <1>4 DEF m

\* A search in phase try holds nothing, and one that asks without a unit neither.
LEMMA HoldsNothing ==
  ASSUME NEW r, r.phase \notin {"ask", "return"} \/ r.epoch = 0
  PROVE  NoUnit(r)
  BY DEF NoUnit, Holds

\* A search reserves a unit, or goes on without.
LEMMA QuotaReserves == ASSUME QuotaInv, NEW s \in SqSearches, Reserve(s) PROVE QuotaInv'
<1> DEFINE r == sqSearch[s]
<1>a. /\ SearchOK(r) /\ r.phase = "try" /\ r.phase \in Tries /\ sqFaults \in Nat /\ NoUnit(r)
      /\ sqKey \in [Kinds -> [epoch : Nat, used : Nat]] /\ sqEpoch \in Nat
      /\ sqServed \in [Epochs -> Nat] /\ sqLost \in [Epochs -> Nat] /\ SqSame /\ sqServed' = sqServed
  BY HoldsNothing DEF QuotaInv, SqTypeOK, Reserve, Tries
<1>b. /\ r.queue \in Seq(Kinds) /\ r.epoch \in Nat /\ r.limit \in [Kinds -> SqLimits]
      /\ r.queue # <<>> => Head(r.queue) \in Kinds /\ Tail(r.queue) \in Seq(Kinds)
  BY <1>a, TryingUpdates
<1>1. ASSUME NEW outcome \in {"none", "canceled", "failed"}, EndSearch(s, outcome), sqFaults' \in Nat,
             UNCHANGED <<sqKey, sqLost, sqEpoch>>
      PROVE  QuotaInv'
  <2>1. Idles(s, [phase |-> outcome])
    BY <1>1, <1>a, EndedIdle, SMTT(30) DEF EndSearch, Become, Idles, SearchMoves, SqSame
  <2> QED
    BY <2>1, IdleMoves DEF Idles
<1>2. CASE r.queue # <<>>
  <2> DEFINE p == Head(r.queue)
             key == Reserved(p, r.limit[p])
             e == key.epoch
  <2>a. p \in Kinds /\ r.limit[p] \in SqLimits /\ r.limit[p] \in Nat
    BY <1>2, <1>b, SqAssumption
  <2>1. CASE ~Metered(r, p) /\ Become(s, [r EXCEPT !.phase = "ask", !.epoch = 0]) /\ UNCHANGED <<sqKey, sqLost, sqEpoch, sqFaults>>
    <3> DEFINE n == Trying(r, "ask", r.queue, 0)
    <3>0. [r EXCEPT !.phase = "ask", !.epoch = 0] = n
      BY <1>a, AskUpdate
    <3>1. sqSearch' = [sqSearch EXCEPT ![s] = n]
      BY <2>1, <3>0 DEF Become
    <3>2. SearchOK(n) /\ NoUnit(n)
      BY <1>a, <1>b, <1>2, TryingShape DEF Tries, NoUnit
    <3>3. Idles(s, n)
      BY <2>1, <1>a, <3>1, <3>2 DEF Idles, SearchMoves, SqSame
    <3> QED
      BY <3>3, IdleMoves DEF Idles
  <2>2. CASE /\ key = sqKey[p] /\ sqKey' = [sqKey EXCEPT ![p] = key] /\ sqEpoch' = Max({sqEpoch, key.epoch})
             /\ UNCHANGED <<sqLost, sqFaults>> /\ Become(s, [r EXCEPT !.queue = Tail(@)])
    <3> DEFINE n == Trying(r, "try", Tail(r.queue), r.epoch)
    <3>1. sqSearch' = [sqSearch EXCEPT ![s] = n]
      BY <2>2, <1>a, TryingUpdates DEF Become
    <3>2. SearchOK(n) /\ NoUnit(n)
      <4>1. Tail(r.queue) \in Seq(Kinds) /\ "try" \in Tries /\ "try" \notin {"ask", "return"} /\ "try" # "return"
        BY <1>b, <1>2 DEF Tries
      <4>2. SearchOK(n)
        BY <4>1, <1>b DEF SearchOK, SqPhases, Tries, Trying
      <4>3. \A f : ~Holds(n, f)
        BY DEF Holds, Trying
      <4> QED
        BY <4>2, <4>3 DEF NoUnit
    <3>3. sqKey' = sqKey
      BY <2>2, <2>a, <1>a
    <3>4. sqKey[p].epoch \in Nat /\ sqKey[p].epoch <= sqEpoch
      BY <2>a, <1>a DEF QuotaInv, KeyInv
    <3>5. sqEpoch' = sqEpoch
      BY <2>2, <1>a, <3>4, MaxOfTwo
    <3>6. Idles(s, n)
      BY <2>2, <1>a, <3>1, <3>2, <3>3, <3>5 DEF Idles, SearchMoves, SqSame
    <3> QED
      BY <3>6, IdleMoves, SMTT(30) DEF Idles
  <2>3. ASSUME key # sqKey[p], sqKey' = [sqKey EXCEPT ![p] = key], sqEpoch' = Max({sqEpoch, key.epoch}), Metered(r, p),
               NEW n, SearchOK(n), sqSearch' = [sqSearch EXCEPT ![s] = n], sqFaults' \in Nat,
               \/ /\ \A f : Holds(n, f) <=> f = e
                  /\ sqLost' = sqLost /\ n.queue = r.queue
               \/ /\ NoUnit(n)
                  /\ sqLost' = [sqLost EXCEPT ![e] = @ + 1]
        PROVE  QuotaInv'
    <3>1. /\ key \in [epoch : Nat, used : Nat] /\ e \in Epochs
          /\ key.used = sqServed[e] + Holding(e) + sqLost[e] + 1
          /\ key.used <= r.limit[p]
          /\ sqEpoch' \in Nat /\ sqEpoch <= sqEpoch' /\ e <= sqEpoch'
          /\ \A q \in Kinds : sqKey'[q].epoch = e => q = p
          /\ \A q \in Kinds \ {p} : sqKey'[q] = sqKey[q]
          /\ \A t \in SqSearches : Holds(sqSearch[t], e) => Head(sqSearch[t].queue) = p
          /\ sqKey' \in [Kinds -> [epoch : Nat, used : Nat]] /\ EpochInv' /\ KeyInv'
      BY <2>a, <2>3, <1>a, CountKept DEF SqSame
    <3>2. e \in Nat \ {0} /\ sqKey'[p] = key
      <4> HIDE DEF key
      <4>1. e \in Nat \ {0}
        BY <3>1 DEF Epochs
      <4> QED
        BY <4>1, <2>3, <2>a, <1>a
    <3> HIDE DEF key
    <3>3. Holding(e) \in Nat /\ sqServed[e] \in Nat /\ sqLost[e] \in Nat /\ Max(SqLimits) \in Nat /\ r.limit[p] <= Max(SqLimits)
      BY <1>a, <2>3, <2>a, <3>1, HoldingMoves, LargestLimit, SqAssumption DEF QuotaInv, SqTypeOK
    <3>4. CountersTyped
      BY <1>a, <2>3, <3>1, <3>3 DEF CountersTyped, SqSame
    <3>5. ~Holds(r, e)
      BY <1>a, <3>2 DEF NoUnit
    <3>6. /\ sqServed'[e] = sqServed[e]
          /\ sqLost'[e] + One(Holds(n, e)) = sqLost[e] + 1 /\ One(Holds(n, e)) \in {0, 1}
      BY <1>a, <2>3, <3>1, <3>2, <3>3 DEF One, NoUnit
    <3>7. EpochMoves(s, n, e)
      <4> DEFINE held == Holding(e) - One(Holds(r, e)) + One(Holds(n, e))
      <4>1. held = Holding(e) + One(Holds(n, e))
        BY <3>3, <3>5, <3>6 DEF One
      <4>2. sqServed'[e] + held + sqLost'[e] = key.used /\ sqServed'[e] + held <= Max(SqLimits)
        <5> HIDE DEF held
        <5>1. held \in Nat /\ sqLost'[e] + One(Holds(n, e)) = sqLost[e] + 1 /\ sqServed'[e] = sqServed[e]
          BY <3>3, <3>6, <4>1
        <5>2. One(Holds(n, e)) \in Nat /\ sqLost'[e] \in Nat /\ sqLost[e] \in Nat /\ sqServed[e] \in Nat
          BY <3>3, <3>4, <3>1, <3>6 DEF CountersTyped
        <5>3. key.used \in Nat /\ key.used <= r.limit[p] /\ r.limit[p] \in Nat /\ r.limit[p] <= Max(SqLimits)
          BY <2>a, <3>1, <3>3
        <5> QED
          BY <3>1, <3>3, <4>1, <5>1, <5>2, <5>3
      <4>3. \A f \in Nat \ {0, e} : ~Holds(r, f) /\ ~Holds(n, f)
        BY <1>a, <2>3 DEF NoUnit
      <4>4. \A f \in Epochs \ {e} : sqServed'[f] = sqServed[f] /\ sqLost'[f] = sqLost[f]
        BY <1>a, <2>3
      <4>5. \A q \in Kinds : sqKey'[q].epoch # e => sqKey'[q] = sqKey[q]
        BY <3>1, <3>2
      <4>6. \A q \in Kinds : sqKey'[q].epoch = e => sqKey'[q].used = sqServed'[e] + held + sqLost'[e]
        BY <3>1, <3>2, <4>2
      <4>7. \A q \in Kinds : sqKey'[q].epoch = e =>
              /\ Holds(n, e) => q = Head(n.queue)
              /\ \A t \in SqSearches : Holds(sqSearch[t], e) => q = Head(sqSearch[t].queue)
        BY <2>3, <3>1, <3>2 DEF NoUnit
      <4> QED
        BY <3>1, <4>2, <4>3, <4>4, <4>5, <4>6, <4>7 DEF EpochMoves
    <3>8. SearchMoves(s, n)
      BY <2>3 DEF SearchMoves
    <3> QED
      BY <3>1, <3>4, <3>7, <3>8, UnitMoves, SMTT(30)
  <2>4. CASE /\ key # sqKey[p] /\ sqKey' = [sqKey EXCEPT ![p] = key] /\ sqEpoch' = Max({sqEpoch, key.epoch})
             /\ Metered(r, p) /\ UNCHANGED <<sqLost, sqFaults>> /\ Become(s, [r EXCEPT !.phase = "ask", !.epoch = e])
    <3> DEFINE n == Trying(r, "ask", r.queue, e)
    <3>1. e \in Nat
      <4>1. sqTurns' = sqTurns
        BY <1>a, SMTT(30) DEF SqSame
      <4>2. key \in [epoch : Nat, used : Nat]
        BY <2>4, <2>a, <4>1, CountKept
      <4> HIDE DEF key
      <4> QED
        BY <4>2
    <3> HIDE DEF key
    <3>2. sqSearch' = [sqSearch EXCEPT ![s] = n]
      <4>1. [r EXCEPT !.phase = "ask", !.epoch = e] = n
        <5> HIDE DEF e
        <5> QED
          BY <1>a, <3>1, AskUpdate
      <4> QED
        BY <2>4, <4>1 DEF Become
    <3>3. SearchOK(n) /\ (\A f : Holds(n, f) <=> f = e) /\ n.queue = r.queue
      BY <1>a, <1>b, <1>2, <3>1, TryingShape DEF Tries
    <3> HIDE DEF n
    <3> QED
      BY <1>a, <2>3, <2>4, <3>2, <3>3
  <2>5. CASE /\ key # sqKey[p] /\ sqKey' = [sqKey EXCEPT ![p] = key] /\ sqEpoch' = Max({sqEpoch, key.epoch})
             /\ Metered(r, p) /\ SqFault /\ EndSearch(s, "failed") /\ sqLost' = [sqLost EXCEPT ![e] = @ + 1]
    <3> DEFINE n == [phase |-> "failed"]
    <3>1. SearchOK(n) /\ NoUnit(n) /\ sqSearch' = [sqSearch EXCEPT ![s] = n] /\ sqFaults' \in Nat
      <4>1. SearchOK(n) /\ NoUnit(n)
        BY EndedIdle, SMTT(30)
      <4>2. sqSearch' = [sqSearch EXCEPT ![s] = n]
        BY <2>5 DEF EndSearch, Become
      <4>3. sqFaults' \in Nat
        <5>1. SqFault
          BY <2>5, ZenonT(40)
        <5> QED
          BY <5>1, <1>a, SMTT(30) DEF SqFault
      <4> QED
        BY <4>1, <4>2, <4>3
    <3> HIDE DEF key, n
    <3> QED
      BY <2>3, <2>5, <3>1
  <2>6. \/ EndSearch(s, "canceled") /\ UNCHANGED <<sqKey, sqLost, sqEpoch, sqFaults>>
        \/ ~Metered(r, p) /\ Become(s, [r EXCEPT !.phase = "ask", !.epoch = 0]) /\ UNCHANGED <<sqKey, sqLost, sqEpoch, sqFaults>>
        \/ /\ Metered(r, p) /\ sqKey' = [sqKey EXCEPT ![p] = key] /\ sqEpoch' = Max({sqEpoch, key.epoch})
           /\ UNCHANGED <<sqLost, sqFaults>>
           /\ \/ key = sqKey[p] /\ Become(s, [r EXCEPT !.queue = Tail(@)])
              \/ key # sqKey[p] /\ Become(s, [r EXCEPT !.phase = "ask", !.epoch = e])
        \/ SqFault /\ EndSearch(s, "failed") /\ UNCHANGED <<sqKey, sqLost, sqEpoch>>
        \/ /\ Metered(r, p) /\ SqFault /\ EndSearch(s, "failed") /\ key # sqKey[p]
           /\ sqKey' = [sqKey EXCEPT ![p] = key] /\ sqEpoch' = Max({sqEpoch, key.epoch})
           /\ sqLost' = [sqLost EXCEPT ![e] = @ + 1]
    BY <1>2 DEF Reserve
  <2>7. SqFault => sqFaults' \in Nat
    BY <1>a DEF SqFault
  <2> QED
    BY <1>1, <1>a, <2>1, <2>2, <2>4, <2>5, <2>6, <2>7
<1>3. CASE r.queue = <<>>
  BY <1>1, <1>3, <1>a DEF Reserve
<1> QED
  BY <1>2, <1>3, SMTT(30)

\* A search that holds a unit is counted.
LEMMA HoldingOfOne ==
  ASSUME sqSearch = [t \in SqSearches |-> sqSearch[t]], NEW s \in SqSearches, NEW e, Holds(sqSearch[s], e)
  PROVE  Holding(e) \in Nat /\ Holding(e) > 0
<1> DEFINE H == {t \in SqSearches : sqSearch[t].phase \in {"ask", "return"} /\ sqSearch[t].epoch = e}
<1>1. IsFiniteSet(H) /\ Holding(e) = Cardinality(H) /\ s \in H
  BY FS_Subset, SqAssumption DEF Holding, Holds
<1> HIDE DEF H
<1> QED
  BY <1>1, FS_CardinalityType, FS_EmptySet

\* A provider answers or fails.
LEMMA QuotaAsks == ASSUME QuotaInv, NEW s \in SqSearches, Ask(s) PROVE QuotaInv'
<1> DEFINE r == sqSearch[s]
           served == [phase |-> "served"]
<1>a. /\ SearchOK(r) /\ r.phase = "ask" /\ r.phase \in Tries /\ r.queue # <<>> /\ sqFaults \in Nat
      /\ sqKey \in [Kinds -> [epoch : Nat, used : Nat]] /\ sqEpoch \in Nat /\ sqSearch = [t \in SqSearches |-> sqSearch[t]]
      /\ sqServed \in [Epochs -> Nat] /\ sqLost \in [Epochs -> Nat]
      /\ UNCHANGED <<sqLimit, sqTurns, sqKey, sqLost, sqEpoch, sqFaults>>
  BY SMTT(30) DEF QuotaInv, SqTypeOK, Ask, Tries, SearchOK, SqSame
<1>b. /\ r.queue \in Seq(Kinds) /\ r.epoch \in Nat /\ Head(r.queue) \in Kinds /\ Tail(r.queue) \in Seq(Kinds)
  BY <1>a, TryingUpdates
<1>c. SearchOK(served) /\ NoUnit(served)
  BY EndedIdle
<1>1. CASE r.epoch = 0
  <2> DEFINE n == Trying(r, "try", Tail(r.queue), r.epoch)
  <2>1. NoUnit(r)
    BY <1>1, HoldsNothing
  <2>2. SearchOK(n) /\ NoUnit(n)
    <3>1. n.epoch = 0
      BY <1>1, SMTT(30) DEF Trying
    <3> QED
      BY <1>1, <1>a, <1>b, <3>1, HoldsNothing DEF SearchOK, SqPhases, Tries, Trying
  <2>3. [r EXCEPT !.phase = "try", !.queue = Tail(@)] = n
    BY <1>a, TryingUpdates
  <2> HIDE DEF n, served
  <2>4. /\ sqServed' = sqServed
        /\ sqSearch' = [sqSearch EXCEPT ![s] = n] \/ sqSearch' = [sqSearch EXCEPT ![s] = served]
    BY <1>1, <2>3 DEF Ask, EndSearch, Become, served
  <2>5. Idles(s, n) \/ Idles(s, served)
    BY <1>a, <1>c, <2>1, <2>2, <2>4 DEF Idles, SearchMoves
  <2> QED
    BY <2>5, IdleMoves DEF Idles
<1>2. CASE r.epoch # 0
  <2> DEFINE e == r.epoch
             n == Trying(r, "return", r.queue, r.epoch)
  <2>1. Holds(r, e) /\ e \in Nat \ {0}
    BY <1>2, <1>a, <1>b DEF Holds
  <2>2. e <= sqEpoch /\ \A p \in Kinds : sqKey[p].epoch = e => p = Head(r.queue)
    BY <2>1 DEF QuotaInv, HolderInv
  <2>3. e \in Epochs
    BY <1>a, <2>1, <2>2, EpochsReach DEF QuotaInv
  <2>4. SearchOK(n) /\ Holds(n, e) /\ n.queue = r.queue
    BY <1>2, <1>a, <1>b, SMTT(30) DEF SearchOK, SqPhases, Tries, Trying, Holds
  <2>5. [r EXCEPT !.phase = "return"] = n
    BY <1>a, TryingUpdates
  <2>6. Holding(e) \in Nat /\ Holding(e) > 0 /\ sqServed[e] \in Nat /\ sqLost[e] \in Nat /\ Max(SqLimits) \in Nat
    BY <1>a, <1>c, <2>1, <2>3, LargestLimit, SqAssumption, HoldingOfOne
  <2>7. /\ \A p \in Kinds : sqKey[p].epoch = e => sqKey[p].used = sqServed[e] + Holding(e) + sqLost[e]
        /\ sqServed[e] + Holding(e) <= Max(SqLimits)
    BY <2>1, <2>3 DEF QuotaInv, QuotaExact, QuotaRespected
  <2>8. EpochInv' /\ KeyInv'
    BY <1>a DEF QuotaInv, EpochInv, KeyInv, Present
  <2> HIDE DEF n, served
  <2>9. ASSUME NEW m, SearchOK(m), sqSearch' = [sqSearch EXCEPT ![s] = m],
               \/ m = n /\ sqServed' = sqServed
               \/ m = served /\ sqServed' = [sqServed EXCEPT ![e] = @ + 1]
        PROVE  QuotaInv'
    <3>1. CountersTyped
      <4>1. sqServed' = sqServed \/ sqServed' = [sqServed EXCEPT ![e] = @ + 1]
        BY <2>9
      <4> HIDE DEF e
      <4>2. sqServed' \in [Epochs -> Nat]
        BY <1>a, <4>1
      <4> QED
        BY <1>a, <4>2 DEF CountersTyped
    <3>2. /\ One(Holds(r, e)) = 1 /\ sqServed'[e] + One(Holds(m, e)) = sqServed[e] + 1 /\ One(Holds(m, e)) \in {0, 1}
          /\ Holds(m, e) => m.queue = r.queue
      BY <1>a, <1>c, <2>1, <2>3, <2>4, <2>9 DEF One, NoUnit
    <3>3. \A f \in Nat \ {0, e} : ~Holds(r, f) /\ ~Holds(m, f)
      BY <1>c, <2>9 DEF Holds, Trying, NoUnit, n
    <3>4. \A f \in Epochs \ {e} : sqServed'[f] = sqServed[f] /\ sqLost'[f] = sqLost[f]
      BY <1>a, <2>9
    <3> DEFINE held == Holding(e) - One(Holds(r, e)) + One(Holds(m, e))
    <3>5. sqServed'[e] + held = sqServed[e] + Holding(e) /\ sqLost'[e] = sqLost[e]
      <4>1. sqServed'[e] \in Nat
        BY <3>1, <2>3 DEF CountersTyped
      <4>2. held = Holding(e) - 1 + One(Holds(m, e)) /\ One(Holds(m, e)) \in Nat
        BY <3>2
      <4>3. sqServed'[e] + One(Holds(m, e)) = sqServed[e] + 1
        BY <3>2
      <4>4. \A a, b, c, d \in Nat : a + b = c + 1 => a + (d - 1 + b) = c + d
        OBVIOUS
      <4> HIDE DEF held
      <4>5. sqServed'[e] + held = sqServed[e] + Holding(e)
        BY <2>6, <4>1, <4>2, <4>3, <4>4
      <4> QED
        BY <1>a, <4>5
    <3> HIDE DEF held
    <3>6. /\ \A p \in Kinds : sqKey'[p].epoch # e => sqKey'[p] = sqKey[p]
          /\ \A p \in Kinds : sqKey'[p].epoch = e => sqKey'[p].used = sqServed'[e] + held + sqLost'[e]
          /\ sqServed'[e] + held <= Max(SqLimits)
          /\ sqEpoch <= sqEpoch' /\ e <= sqEpoch'
      BY <1>a, <2>2, <2>7, <3>5
    <3>7. \A p \in Kinds : sqKey'[p].epoch = e =>
            /\ Holds(m, e) => p = Head(m.queue)
            /\ \A t \in SqSearches : Holds(sqSearch[t], e) => p = Head(sqSearch[t].queue)
      BY <1>a, <2>1, <2>2, <3>2 DEF QuotaInv, HolderInv
    <3>8. EpochMoves(s, m, e)
      BY <3>3, <3>4, <3>6, <3>7 DEF EpochMoves, held
    <3> QED
      BY <2>3, <2>8, <2>9, <3>1, <3>8, UnitMoves DEF SearchMoves
  <2> QED
    BY <1>2, <1>c, <2>4, <2>5, <2>9 DEF Ask, EndSearch, Become, served
<1> QED
  BY <1>1, <1>2

\* A unit is given back, or left reserved by a failure.
LEMMA QuotaReturns == ASSUME QuotaInv, NEW s \in SqSearches, Return(s) PROVE QuotaInv'
<1> DEFINE r == sqSearch[s]
           e == r.epoch
           p == Head(r.queue)
           n == Trying(r, "try", Tail(r.queue), 0)
           failed == [phase |-> "failed"]
<1>a. /\ SearchOK(r) /\ r.phase = "return" /\ r.phase \in Tries /\ r.queue # <<>> /\ sqFaults \in Nat /\ e > 0
      /\ sqKey \in [Kinds -> [epoch : Nat, used : Nat]] /\ sqEpoch \in Nat /\ sqSearch = [t \in SqSearches |-> sqSearch[t]]
      /\ sqServed \in [Epochs -> Nat] /\ sqLost \in [Epochs -> Nat]
      /\ UNCHANGED <<sqLimit, sqTurns, sqServed, sqEpoch>>
  BY DEF QuotaInv, SqTypeOK, Return, Tries, SearchOK, SqSame
<1>b. /\ r.queue \in Seq(Kinds) /\ e \in Nat \ {0} /\ p \in Kinds /\ Tail(r.queue) \in Seq(Kinds)
  <2>1. r.queue \in Seq(Kinds) /\ r.epoch \in Nat /\ Head(r.queue) \in Kinds /\ Tail(r.queue) \in Seq(Kinds)
    BY <1>a, TryingUpdates
  <2> QED
    BY <1>a, <2>1
<1>c. SearchOK(failed) /\ NoUnit(failed)
  BY EndedIdle
<1>d. SearchOK(n) /\ NoUnit(n)
  BY <1>a, <1>b DEF SearchOK, SqPhases, Tries, Trying, NoUnit, Holds
<1>1. Holds(r, e)
  BY <1>a DEF Holds
<1>2. e <= sqEpoch /\ \A q \in Kinds : sqKey[q].epoch = e => q = p
  BY <1>1, <1>b DEF QuotaInv, HolderInv
<1>3. e \in Epochs
  BY <1>a, <1>b, <1>2, EpochsReach DEF QuotaInv
<1>4. Holding(e) \in Nat /\ Holding(e) > 0 /\ sqServed[e] \in Nat /\ sqLost[e] \in Nat /\ Max(SqLimits) \in Nat
  BY <1>a, <1>1, <1>3, LargestLimit, SqAssumption, HoldingOfOne
<1>5. /\ sqKey[p].epoch = e => sqKey[p].used = sqServed[e] + Holding(e) + sqLost[e]
      /\ sqServed[e] + Holding(e) <= Max(SqLimits)
  BY <1>b, <1>3 DEF QuotaInv, QuotaExact, QuotaRespected
<1>6. ASSUME NEW m, SearchOK(m), NoUnit(m), sqSearch' = [sqSearch EXCEPT ![s] = m], sqFaults' \in Nat,
             \/ sqKey' = [sqKey EXCEPT ![p] = Returned(p, e)] /\ sqLost' = sqLost
             \/ sqLost' = [sqLost EXCEPT ![e] = @ + 1] /\ sqKey' = sqKey
      PROVE  QuotaInv'
  <2> HIDE DEF e, p
  <2>1. /\ sqKey' \in [Kinds -> [epoch : Nat, used : Nat]]
        /\ \A q \in Kinds : sqKey'[q].epoch = sqKey[q].epoch
        /\ \A q \in Kinds : sqKey[q].epoch # e => sqKey'[q] = sqKey[q]
        /\ sqKey[p].epoch = e => sqKey'[p].used = sqServed[e] + (Holding(e) - 1) + sqLost'[e]
        /\ \A q \in Kinds : sqKey[q].used = 0 => sqKey'[q].used = 0
    <3>1. CASE sqKey' = [sqKey EXCEPT ![p] = Returned(p, e)] /\ sqLost' = sqLost
      <4> DEFINE k == Returned(p, e)
      <4>1. /\ k \in [epoch : Nat, used : Nat] /\ k.epoch = sqKey[p].epoch
            /\ sqKey[p].epoch # e => k = sqKey[p]
            /\ sqKey[p].used = 0 => k.used = 0
            /\ sqKey[p].epoch = e /\ sqKey[p].used > 0 => k.used = sqKey[p].used - 1
        <5>1. sqKey[p] \in [epoch : Nat, used : Nat]
          BY <1>a, <1>b
        <5> QED
          BY <5>1 DEF Returned
      <4>2. sqKey[p].epoch = e => k.used = sqServed[e] + (Holding(e) - 1) + sqLost[e]
        <5>1. sqKey[p].used \in Nat
          BY <1>a, <1>b
        <5> HIDE DEF k
        <5> QED
          BY <1>4, <1>5, <4>1, <5>1
      <4>3. sqKey' = [sqKey EXCEPT ![p] = k]
        BY <3>1
      <4> HIDE DEF k
      <4>4. \A q \in Kinds : sqKey'[q] = IF q = p THEN k ELSE sqKey[q]
        BY <1>a, <4>3
      <4>5. sqKey' \in [Kinds -> [epoch : Nat, used : Nat]]
        BY <1>a, <4>1, <4>3
      <4> QED
        BY <1>b, <3>1, <4>1, <4>2, <4>4, <4>5
    <3>2. CASE sqLost' = [sqLost EXCEPT ![e] = @ + 1] /\ sqKey' = sqKey
      <4>1. sqLost'[e] = sqLost[e] + 1
        BY <1>a, <1>3, <3>2
      <4>2. sqKey[p].epoch = e => sqKey[p].used = sqServed[e] + (Holding(e) - 1) + sqLost'[e]
        BY <1>4, <1>5, <4>1
      <4> QED
        BY <1>a, <3>2, <4>2
    <3> QED
      BY <1>6, <3>1, <3>2
  <2>2. EpochInv' /\ KeyInv'
    <3>1. Present' = Present
      BY <2>1 DEF Present
    <3>2. EpochInv'
      BY <1>a, <3>1 DEF QuotaInv, EpochInv
    <3>3. KeyInv'
      BY <1>a, <2>1 DEF QuotaInv, KeyInv
    <3> QED
      BY <3>2, <3>3
  <2>3. CountersTyped
    <3>1. sqLost' \in [Epochs -> Nat]
      BY <1>6, <1>a, <1>4
    <3> QED
      BY <1>6, <1>a, <2>1, <3>1 DEF CountersTyped
  <2>4. \A f \in Nat \ {0, e} : ~Holds(r, f) /\ ~Holds(m, f)
    BY <1>6 DEF Holds, NoUnit, e
  <2>5. \A f \in Epochs \ {e} : sqServed'[f] = sqServed[f] /\ sqLost'[f] = sqLost[f]
    BY <1>a, <1>6
  <2> DEFINE held == Holding(e) - One(Holds(r, e)) + One(Holds(m, e))
  <2>6. held = Holding(e) - 1 /\ sqServed'[e] = sqServed[e]
    BY <1>1, <1>4, <1>6, <1>a, <1>b DEF One, NoUnit
  <2> HIDE DEF held
  <2>7. /\ \A q \in Kinds : sqKey'[q].epoch # e => sqKey'[q] = sqKey[q]
        /\ \A q \in Kinds : sqKey'[q].epoch = e => sqKey'[q].used = sqServed'[e] + held + sqLost'[e]
        /\ sqServed'[e] + held <= Max(SqLimits)
        /\ sqEpoch <= sqEpoch' /\ e <= sqEpoch'
    BY <1>a, <1>2, <1>4, <1>5, <2>1, <2>6, SMTT(30)
  <2>8. \A q \in Kinds : sqKey'[q].epoch = e =>
          /\ Holds(m, e) => q = Head(m.queue)
          /\ \A t \in SqSearches : Holds(sqSearch[t], e) => q = Head(sqSearch[t].queue)
    BY <1>6, <1>b, <2>1, SMTT(30) DEF QuotaInv, HolderInv, NoUnit
  <2>9. EpochMoves(s, m, e)
    BY <2>4, <2>5, <2>7, <2>8, SMTT(30) DEF EpochMoves, held
  <2> QED
    BY <1>3, <1>6, <2>2, <2>3, <2>9, UnitMoves DEF SearchMoves
<1>7. [r EXCEPT !.phase = "try", !.queue = Tail(@), !.epoch = 0] = n
  BY <1>a, TryingUpdates
<1> HIDE DEF n, failed
<1>8. /\ \/ sqSearch' = [sqSearch EXCEPT ![s] = n] /\ sqFaults' = sqFaults
         \/ sqSearch' = [sqSearch EXCEPT ![s] = failed] /\ sqFaults' = sqFaults + 1
      /\ \/ sqKey' = [sqKey EXCEPT ![p] = Returned(p, e)] /\ sqLost' = sqLost
         \/ sqLost' = [sqLost EXCEPT ![e] = @ + 1] /\ sqKey' = sqKey
  BY <1>7 DEF Return, EndSearch, Become, SqFault, failed
<1> QED
  BY <1>a, <1>c, <1>d, <1>6, <1>8

\* A month ends, and a quota is set.
LEMMA QuotaTurns ==
  ASSUME QuotaInv, NEW p \in Kinds, EndMonth(p) \/ \E n \in SqLimits : SetLimit(p, n)
  PROVE  QuotaInv'
<1>a. /\ sqKey \in [Kinds -> [epoch : Nat, used : Nat]] /\ sqLimit \in [Kinds -> SqLimits]
      /\ sqTurns' = sqTurns + 1 /\ sqTurns' \in 0..SqMaxTurns /\ sqTurns \in Nat /\ sqEpoch \in Nat
      /\ UNCHANGED <<sqSearch, sqServed, sqLost, sqEpoch, sqFaults>>
  BY SqAssumption DEF QuotaInv, SqTypeOK, EndMonth, SetLimit
<1>b. IsFiniteSet(Present) /\ Cardinality(Present) \in Nat
  BY KindsFinite, FS_Subset, FS_CardinalityType DEF Present
<1>c. \A e : Holding(e)' = Holding(e)
  BY <1>a DEF Holding
<1>1. CASE EndMonth(p)
  <2>1. \A q \in Kinds : sqKey'[q] = IF q = p THEN NoKey ELSE sqKey[q]
    BY <1>1, <1>a DEF EndMonth
  <2>2. SqTypeOK'
    BY <1>1, <1>a DEF EndMonth, QuotaInv, SqTypeOK, SearchOK, NoKey
  <2>3. EpochInv'
    <3>1. p \in Present /\ Present' = Present \ {p}
      BY <1>1, <2>1 DEF Present, NoKey, EndMonth
    <3>2. Cardinality(Present') = Cardinality(Present) - 1
      BY <1>b, <3>1, FS_RemoveElement
    <3> QED
      BY <1>a, <1>b, <3>2 DEF QuotaInv, EpochInv
  <2>4. KeyInv'
    BY <1>a, <2>1 DEF QuotaInv, KeyInv, NoKey
  <2>5. HolderInv'
    BY <1>a, <2>1 DEF QuotaInv, HolderInv, NoKey
  <2>6. QuotaExact'
    <3> SUFFICES ASSUME NEW q \in Kinds, NEW f, f = sqKey'[q].epoch, f > 0
                 PROVE  sqKey'[q].used = sqServed'[f] + Holding(f)' + sqLost'[f]
      BY DEF QuotaExact, Holding
    <3>1. q # p /\ sqKey'[q] = sqKey[q]
      BY <2>1 DEF NoKey
    <3> QED
      BY <1>a, <1>c, <3>1 DEF QuotaInv, QuotaExact
  <2> QED
    BY <1>a, <1>c, <2>2, <2>3, <2>4, <2>5, <2>6 DEF QuotaInv, FutureInv, QuotaRespected, Epochs
<1>2. ASSUME NEW n \in SqLimits, SetLimit(p, n) PROVE QuotaInv'
  <2>1. SqTypeOK' /\ sqKey' = sqKey
    BY <1>2, <1>a DEF SetLimit, QuotaInv, SqTypeOK, SearchOK
  <2>2. EpochInv'
    <3>1. Present' = Present
      BY <2>1 DEF Present
    <3> QED
      BY <1>a, <1>b, <3>1 DEF QuotaInv, EpochInv
  <2>3. KeyInv' /\ HolderInv' /\ FutureInv'
    BY <1>a, <2>1 DEF QuotaInv, KeyInv, HolderInv, FutureInv
  <2>4. QuotaExact' /\ QuotaRespected'
    BY <1>a, <1>c, <2>1 DEF QuotaInv, QuotaExact, QuotaRespected, Epochs
  <2> QED
    BY <2>1, <2>2, <2>3, <2>4 DEF QuotaInv
<1> QED
  BY <1>1, <1>2

\* The counter of a provider is exact in every month, and the quota holds, for
\* any number of searches that read the same remainder, of resets between
\* their steps and of failures of Redis.
THEOREM QuotaStaysKept == SqSpec => []QuotaKept
<1>1. QuotaInv /\ [SqNext]_sqVars => QuotaInv'
  <2> SUFFICES ASSUME QuotaInv, [SqNext]_sqVars PROVE QuotaInv'
    OBVIOUS
  <2>1. CASE UNCHANGED sqVars
    <3>1. SqTypeOK'
      BY <2>1 DEF sqVars, QuotaInv, SqTypeOK, SearchOK
    <3>2. Present' = Present /\ (\A e : Holding(e)' = Holding(e))
      BY <2>1 DEF sqVars, Present, Holding
    <3>3. EpochInv' /\ KeyInv' /\ HolderInv' /\ FutureInv'
      BY <2>1, <3>2 DEF sqVars, QuotaInv, EpochInv, KeyInv, HolderInv, FutureInv
    <3>4. QuotaExact' /\ QuotaRespected'
      BY <2>1, <3>2 DEF sqVars, QuotaInv, QuotaExact, QuotaRespected, Epochs
    <3> QED
      BY <3>1, <3>3, <3>4 DEF QuotaInv
  <2> QED
    BY <2>1, QuotaWeighs, QuotaReserves, QuotaAsks, QuotaReturns, QuotaTurns DEF SqNext
<1>2. QuotaInv => QuotaKept
  BY DEF QuotaInv, QuotaKept
<1> QED
  BY <1>1, <1>2, QuotaInit, PTL DEF SqSpec

(***************************************************************************)
(* AccountHealth.                                                          *)
(***************************************************************************)
HaVersions == 1..HaMaxVer
HaRow == [live : BOOLEAN, status : {"active", "inactive", "error"}, sched : BOOLEAN, ver : HaVersions,
          until : [Cooldown -> Nat], why : {"none", "balance", "timeout"}]
HaRequest == {HaIdle} \cup [at : {"listed"}] \cup [at : {"sent"}, ver : HaVersions, epoch : Nat]
HaProbing == {HaIdle} \cup [at : {"asked"}, ver : HaVersions, epoch : Nat, schedule : BOOLEAN]
HaTesting == {HaIdle} \cup [at : {"due"}, plan : Nat] \cup [at : {"asked"}, plan : Nat, ver : HaVersions, epoch : Nat]
HaRemembered == [asked : [Cooldown -> Nat], late : BOOLEAN, reports : Nat, unearned : BOOLEAN]

HaTypeOK ==
    /\ haClock \in Nat /\ haAcct \in HaRow
    /\ haReq \in [HaRequests -> HaRequest] /\ haProbe \in HaProbing /\ haTest \in HaTesting
    /\ haCount \in [HaVersions -> Nat]
    /\ haPlan \in [state : {"none", "on", "off"}, ver : Nat] /\ haSave \in {NoSave, [at |-> "saving", lock |-> TRUE]}
    /\ haEpoch \in Nat /\ haGhost \in HaRemembered

\* A read that the version still agrees with is of the present epoch.
Current(x) == x.ver <= haAcct.ver /\ (x.ver = haAcct.ver => x.epoch = haEpoch)
ReadsInv ==
    /\ \A r \in HaRequests : haReq[r].at = "sent" => Current(haReq[r])
    /\ haProbe # HaIdle => Current(haProbe)
    /\ haTest.at = "asked" => Current(haTest)

\* The counter of the version in force counts reports, those of later ones nothing.
CountInv ==
    /\ haGhost.reports < TimeoutThreshold => haCount[haAcct.ver] <= haGhost.reports
    /\ \A v \in HaVersions : v > haAcct.ver => haCount[v] = 0

\* A pause for want of balance hides no other cooldown.
BalanceInv == haAcct.why = "balance" => haGhost.asked["temp"] <= haClock

PlanInv == (haSave # NoSave => haAcct.live) /\ NoTestOfDeleted

HealthInv ==
    /\ HaTypeOK /\ ReadsInv /\ CountInv /\ BalanceInv /\ PlanInv
    /\ AdminHasLastWord /\ CooldownsKept /\ TimeoutsEarned

\* Initially nothing was asked, counted or read.
LEMMA HealthInit == HaInit => HealthInv
<1> SUFFICES ASSUME HaInit PROVE HealthInv
  OBVIOUS
<1>1. HaTypeOK
  BY HaAssumption DEF HaInit, HaTypeOK, HaRow, HaVersions, HaRequest, HaProbing, HaTesting, HaRemembered
<1>2. ReadsInv /\ CountInv
  BY HaAssumption DEF HaInit, ReadsInv, CountInv, HaIdle, HaVersions
<1>3. BalanceInv /\ PlanInv /\ AdminHasLastWord /\ CooldownsKept /\ TimeoutsEarned
  BY DEF HaInit, BalanceInv, PlanInv, NoTestOfDeleted, AdminHasLastWord, CooldownsKept, TimeoutsEarned, Cooldown
<1> QED
  BY <1>1, <1>2, <1>3 DEF HealthInv

\* What a read knows that is as new as the row.
New(x) == x.ver = haAcct.ver /\ x.epoch = haEpoch /\ UNCHANGED <<haAcct, haEpoch>>

\* Reads stay Current: they are the same or new, and a write of the row leaves
\* them all behind.
LEMMA ReadsKept ==
  ASSUME HealthInv, haAcct'.ver = haAcct.ver + 1 \/ UNCHANGED <<haAcct, haEpoch>>,
         \A r \in HaRequests : haReq'[r].at = "sent" => haReq'[r] = haReq[r] \/ New(haReq'[r]),
         haProbe' # HaIdle => haProbe' = haProbe \/ New(haProbe'),
         haTest'.at = "asked" => haTest' = haTest \/ New(haTest')
  PROVE  ReadsInv'
<1>1. haAcct.ver \in Nat
  BY HaAssumption DEF HealthInv, HaTypeOK, HaRow, HaVersions
<1>2. ASSUME NEW x, NEW y, x = y \/ New(x), Current(y), y.ver \in Nat
      PROVE  x.ver <= haAcct'.ver /\ (x.ver = haAcct'.ver => x.epoch = haEpoch')
  BY <1>1, <1>2 DEF New, Current
<1>3. ASSUME NEW x, New(x)
      PROVE  x.ver <= haAcct'.ver /\ (x.ver = haAcct'.ver => x.epoch = haEpoch')
  BY <1>1, <1>3 DEF New
<1>4. ASSUME NEW r \in HaRequests, haReq'[r].at = "sent"
      PROVE  haReq'[r].ver <= haAcct'.ver /\ (haReq'[r].ver = haAcct'.ver => haReq'[r].epoch = haEpoch')
  <2>1. haReq[r].at = "sent" => haReq[r].ver \in Nat /\ Current(haReq[r])
    BY HaAssumption DEF HealthInv, HaTypeOK, HaRequest, HaIdle, HaVersions, ReadsInv
  <2> QED
    BY <1>2, <1>3, <1>4, <2>1
<1>5. ASSUME haProbe' # HaIdle
      PROVE  haProbe'.ver <= haAcct'.ver /\ (haProbe'.ver = haAcct'.ver => haProbe'.epoch = haEpoch')
  <2>1. haProbe # HaIdle => haProbe.ver \in Nat /\ Current(haProbe)
    BY HaAssumption DEF HealthInv, HaTypeOK, HaProbing, HaVersions, ReadsInv
  <2> QED
    BY <1>2, <1>3, <1>5, <2>1
<1>6. ASSUME haTest'.at = "asked"
      PROVE  haTest'.ver <= haAcct'.ver /\ (haTest'.ver = haAcct'.ver => haTest'.epoch = haEpoch')
  <2>1. haTest.at = "asked" => haTest.ver \in Nat /\ Current(haTest)
    BY HaAssumption DEF HealthInv, HaTypeOK, HaTesting, HaIdle, HaVersions, ReadsInv
  <2> QED
    BY <1>2, <1>3, <1>6, <2>1
<1> QED
  BY <1>4, <1>5, <1>6 DEF ReadsInv, Current

\* A step that leaves the row, the clock and the counters as they are.
LEMMA HealthKept ==
  ASSUME HealthInv, UNCHANGED <<haClock, haAcct, haCount, haEpoch, haGhost>>, HaTypeOK', ReadsInv', PlanInv'
  PROVE  HealthInv'
  BY DEF HealthInv, CountInv, BalanceInv, AdminHasLastWord, CooldownsKept, TimeoutsEarned

\* The row that is written is as it was made, of the next version.
LEMMA Written ==
  ASSUME HaTypeOK, NEW row \in HaRow, Write(row)
  PROVE  /\ haAcct' \in HaRow /\ haAcct'.ver = haAcct.ver + 1 /\ haAcct'.ver \in HaVersions
         /\ haAcct'.live = row.live /\ haAcct'.status = row.status /\ haAcct'.sched = row.sched
         /\ haAcct'.until = row.until /\ haAcct'.why = row.why
<1> DEFINE v == haAcct.ver + 1
<1>1. haAcct' = [row EXCEPT !.ver = v] /\ haAcct.ver < HaMaxVer
  BY DEF Write
<1>2. v \in HaVersions
  BY <1>1, HaAssumption DEF HaTypeOK, HaRow, HaVersions
<1> HIDE DEF v
<1>3. /\ haAcct' \in HaRow /\ haAcct'.ver = v
      /\ haAcct'.live = row.live /\ haAcct'.status = row.status /\ haAcct'.sched = row.sched
      /\ haAcct'.until = row.until /\ haAcct'.why = row.why
  BY <1>1, <1>2 DEF HaRow
<1> QED
  BY <1>2, <1>3 DEF v

\* A write of the row, whoever makes it, if it takes back no cooldown that is
\* remembered and leaves the counters of later versions alone.
LEMMA WriteKept ==
  ASSUME HealthInv, NEW row \in HaRow, Write(row), haGhost' \in HaRemembered,
         haGhost'.reports = 0, ~haGhost'.late, ~haGhost'.unearned,
         \A c \in Cooldown : haGhost'.asked[c] > haClock => row.until[c] >= haGhost'.asked[c],
         row.why = "balance" => haGhost'.asked["temp"] <= haClock,
         haClock' = haClock, haEpoch' \in Nat,
         haReq' \in [HaRequests -> HaRequest], haProbe' \in {haProbe, HaIdle}, haTest' \in {haTest, HaIdle},
         \A r \in HaRequests : haReq'[r].at = "sent" => haReq'[r] = haReq[r],
         haCount' \in [HaVersions -> Nat], \A v \in HaVersions : v > haAcct.ver => haCount'[v] = haCount[v],
         haPlan' \in [state : {"none", "on", "off"}, ver : Nat], UNCHANGED haSave,
         haSave # NoSave => row.live, ~row.live => haPlan'.state # "on"
  PROVE  HealthInv'
<1>1. HaTypeOK
  BY DEF HealthInv
<1>2. /\ haAcct' \in HaRow /\ haAcct'.ver = haAcct.ver + 1 /\ haAcct'.ver \in HaVersions
      /\ haAcct'.live = row.live /\ haAcct'.until = row.until /\ haAcct'.why = row.why
  BY <1>1, Written
<1>3. HaTypeOK'
  BY <1>1, <1>2 DEF HaTypeOK, HaProbing, HaTesting
<1>4. ReadsInv'
  BY <1>2, ReadsKept DEF HaIdle
<1>5. CountInv'
  <2>1. haAcct.ver \in Nat /\ \A v \in HaVersions : v \in Nat
    BY <1>1, HaAssumption, SMTT(30) DEF HaTypeOK, HaRow, HaVersions
  <2>2. \A v \in HaVersions : v > haAcct.ver => haCount'[v] = 0
    BY DEF HealthInv, CountInv
  <2> QED
    BY <1>2, <2>1, <2>2 DEF CountInv
<1>6. BalanceInv' /\ PlanInv'
  BY <1>2 DEF BalanceInv, PlanInv, NoTestOfDeleted
<1>7. AdminHasLastWord' /\ CooldownsKept' /\ TimeoutsEarned'
  BY <1>2 DEF AdminHasLastWord, CooldownsKept, TimeoutsEarned
<1> QED
  BY <1>3, <1>4, <1>5, <1>6, <1>7 DEF HealthInv

\* What is remembered of a write from a read that is Current: it is not late.
LEMMA LearnedOf ==
  ASSUME HealthInv, NEW x, x.epoch = haEpoch
  PROVE  /\ Learned(x) \in HaRemembered /\ Learned(x).asked = haGhost.asked /\ ~Learned(x).late
         /\ Learned(x).reports = 0 /\ ~Learned(x).unearned
<1>1. haGhost \in HaRemembered /\ ~haGhost.late /\ ~haGhost.unearned
  BY DEF HealthInv, HaTypeOK, AdminHasLastWord, TimeoutsEarned
<1> DEFINE late == haGhost.late \/ x.epoch # haEpoch
<1>2. Learned(x) = [haGhost EXCEPT !.late = late, !.reports = 0] /\ late \in BOOLEAN /\ ~late
  BY <1>1 DEF Learned, HaRemembered
<1> HIDE DEF late
<1>3. Learned(x).late = late
  BY <1>1, <1>2 DEF HaRemembered
<1>5. Learned(x) \in HaRemembered
  <2>1. Learned(x) = [asked |-> haGhost.asked, late |-> late, reports |-> 0, unearned |-> haGhost.unearned]
    BY <1>1, <1>2 DEF HaRemembered
  <2>2. haGhost.asked \in [Cooldown -> Nat] /\ haGhost.unearned \in BOOLEAN /\ 0 \in Nat
    BY <1>1 DEF HaRemembered
  <2> QED
    BY <1>2, <2>1, <2>2 DEF HaRemembered
<1>4. Learned(x).asked = haGhost.asked /\ Learned(x).reports = 0 /\ Learned(x).unearned = haGhost.unearned
  BY <1>1, <1>2 DEF HaRemembered
<1> QED
  BY <1>1, <1>2, <1>3, <1>4, <1>5

\* A request that is answered is done with what it read; if that is unchanged,
\* no administrator has acted since.
LEMMA AnsweredRead ==
  ASSUME HealthInv, NEW r \in HaRequests, Answered(r)
  PROVE  /\ haReq' \in [HaRequests -> HaRequest]
         /\ \A q \in HaRequests : haReq'[q].at = "sent" => haReq'[q] = haReq[q]
         /\ haReq[r].ver \in HaVersions /\ haReq[r].ver <= haAcct.ver
         /\ Unchanged(haReq[r]) => haReq[r].epoch = haEpoch
<1>1. HaTypeOK /\ haReq[r].at = "sent" /\ haReq' = [haReq EXCEPT ![r] = HaIdle]
  BY DEF HealthInv, Answered
<1>2. haReq[r].ver \in HaVersions
  BY <1>1 DEF HaTypeOK, HaRequest, HaIdle
<1>3. Current(haReq[r])
  BY <1>1 DEF HealthInv, ReadsInv
<1>4. haReq' \in [HaRequests -> HaRequest] /\ \A q \in HaRequests : haReq'[q] = IF q = r THEN HaIdle ELSE haReq[q]
  BY <1>1 DEF HaTypeOK, HaRequest
<1> QED
  BY <1>2, <1>3, <1>4 DEF Current, Unchanged, HaIdle

\* An answer of which nothing is written.
LEMMA AnsweredKept ==
  ASSUME HealthInv, NEW r \in HaRequests, Answered(r),
         UNCHANGED <<haClock, haAcct, haProbe, haTest, haCount, haPlans, haEpoch, haGhost>>
  PROVE  HealthInv'
<1>1. HaTypeOK /\ UNCHANGED <<haPlan, haSave>>
  BY DEF HealthInv, haPlans
<1>2. HaTypeOK' /\ ReadsInv'
  BY <1>1, AnsweredRead, ReadsKept DEF HaTypeOK
<1>3. PlanInv'
  BY <1>1 DEF HealthInv, PlanInv, NoTestOfDeleted
<1> QED
  BY <1>2, <1>3, HealthKept

\* A row with another end of a cooldown.
LEMMA CooledRow ==
  ASSUME NEW row \in HaRow, NEW c \in Cooldown, NEW t \in Nat
  PROVE  LET new == [row EXCEPT !.until[c] = t] IN
         /\ new \in HaRow /\ new.live = row.live /\ new.why = row.why
         /\ \A d \in Cooldown : new.until[d] = IF d = c THEN t ELSE row.until[d]
<1> DEFINE until == [row.until EXCEPT ![c] = t]
           new == [row EXCEPT !.until = until]
<1>1. row.until \in [Cooldown -> Nat] /\ until \in [Cooldown -> Nat]
  BY DEF HaRow
<1>2. \A d \in Cooldown : until[d] = IF d = c THEN t ELSE row.until[d]
  BY <1>1
<1>3. [row EXCEPT !.until[c] = t] = new
  OBVIOUS
<1> HIDE DEF until
<1>4. new \in HaRow /\ new.live = row.live /\ new.why = row.why /\ new.until = until
  BY <1>1 DEF HaRow
<1> QED
  BY <1>2, <1>3, <1>4

\* The same with another reason.
LEMMA PausedRow ==
  ASSUME NEW row \in HaRow, NEW t \in Nat, NEW why \in {"none", "balance", "timeout"}
  PROVE  LET new == [row EXCEPT !.until["temp"] = t, !.why = why] IN
         /\ new \in HaRow /\ new.live = row.live /\ new.why = why
         /\ \A d \in Cooldown : new.until[d] = IF d = "temp" THEN t ELSE row.until[d]
<1> DEFINE first == [row EXCEPT !.until["temp"] = t]
           new == [first EXCEPT !.why = why]
<1>1. /\ first \in HaRow /\ first.live = row.live
      /\ \A d \in Cooldown : first.until[d] = IF d = "temp" THEN t ELSE row.until[d]
  BY CooledRow DEF Cooldown
<1>2. [row EXCEPT !.until["temp"] = t, !.why = why] = new
  OBVIOUS
<1> HIDE DEF first
<1>3. new \in HaRow /\ new.live = first.live /\ new.why = why /\ new.until = first.until
  BY <1>1 DEF HaRow
<1> QED
  BY <1>1, <1>2, <1>3

\* What is remembered with a cooldown that was asked for.
LEMMA AskedGhost ==
  ASSUME NEW g \in HaRemembered, NEW c \in Cooldown, NEW t \in Nat
  PROVE  /\ Asks(g, c, t) \in HaRemembered /\ Asks(g, c, t).late = g.late /\ Asks(g, c, t).reports = g.reports
         /\ Asks(g, c, t).unearned = g.unearned
         /\ \A d \in Cooldown : Asks(g, c, t).asked[d] = IF d = c THEN Later(g.asked[c], t) ELSE g.asked[d]
<1> DEFINE asked == [g.asked EXCEPT ![c] = Later(g.asked[c], t)]
           new == [g EXCEPT !.asked = asked]
<1>1. g.asked \in [Cooldown -> Nat] /\ asked \in [Cooldown -> Nat]
  BY DEF HaRemembered, Later
<1>2. \A d \in Cooldown : asked[d] = IF d = c THEN Later(g.asked[c], t) ELSE g.asked[d]
  BY <1>1
<1>3. Asks(g, c, t) = new
  BY DEF Asks
<1> HIDE DEF asked
<1>4. new \in HaRemembered /\ new.late = g.late /\ new.reports = g.reports /\ new.unearned = g.unearned /\ new.asked = asked
  BY <1>1 DEF HaRemembered
<1> QED
  BY <1>2, <1>3, <1>4

\* A write of a live account by what read it as it is.
LEMMA LearnedWrite ==
  ASSUME HealthInv, NEW x, x.epoch = haEpoch, NEW row \in HaRow, Write(row), haAcct.live, row.live,
         haGhost' = Learned(x), row.why = "balance" => haGhost.asked["temp"] <= haClock,
         \A c \in Cooldown : haGhost.asked[c] > haClock => row.until[c] >= haGhost.asked[c],
         UNCHANGED <<haClock, haCount, haPlan, haSave, haEpoch>>,
         haReq' \in [HaRequests -> HaRequest], \A r \in HaRequests : haReq'[r].at = "sent" => haReq'[r] = haReq[r],
         haProbe' \in {haProbe, HaIdle}, haTest' \in {haTest, HaIdle}
  PROVE  HealthInv'
<1>1. HaTypeOK
  BY DEF HealthInv
<1>2. /\ haGhost' \in HaRemembered /\ haGhost'.asked = haGhost.asked /\ ~haGhost'.late
      /\ haGhost'.reports = 0 /\ ~haGhost'.unearned
  BY LearnedOf
<1>3. haEpoch' \in Nat /\ haCount' \in [HaVersions -> Nat] /\ haPlan' \in [state : {"none", "on", "off"}, ver : Nat]
  BY <1>1 DEF HaTypeOK
<1> QED
  BY <1>2, <1>3, WriteKept

\* An upstream rejects the credentials.
LEMMA RejectInv == ASSUME HealthInv, NEW r \in HaRequests, Reject(r) PROVE HealthInv'
<1> DEFINE x == haReq[r]
           row == [haAcct EXCEPT !.status = "error"]
<1>1. HaTypeOK /\ Answered(r) /\ UNCHANGED <<haClock, haProbe, haTest, haCount, haPlans, haEpoch>>
  BY DEF HealthInv, Reject
<1>2. CASE UNCHANGED <<haAcct, haGhost>>
  BY <1>1, <1>2, AnsweredKept
<1>3. CASE Unchanged(x) /\ Write(row) /\ haGhost' = Learned(x)
  <2>1. row \in HaRow /\ row.live = haAcct.live /\ row.until = haAcct.until /\ row.why = haAcct.why
    BY <1>1 DEF HaTypeOK, HaRow
  <2> HIDE DEF row
  <2>2. haAcct.live /\ UNCHANGED <<haPlan, haSave>>
    BY <1>1, <1>3 DEF Unchanged, haPlans
  <2> QED
    BY <1>1, <1>3, <2>1, <2>2, AnsweredRead, LearnedWrite DEF HealthInv, CooldownsKept, BalanceInv
<1> QED
  BY <1>2, <1>3 DEF Reject

\* An upstream asks for a pause: the longer of two is kept.
LEMMA LimitInv ==
  ASSUME HealthInv, NEW r \in HaRequests, NEW c \in {"rate", "overload"}, NEW len \in Cooldowns, Limit(r, c, len)
  PROVE  HealthInv'
<1> DEFINE x == haReq[r]
           t == haClock + len
           row == [haAcct EXCEPT !.until[c] = Later(haAcct.until[c], t)]
<1>1. /\ HaTypeOK /\ Answered(r) /\ UNCHANGED <<haClock, haProbe, haTest, haCount, haPlans, haEpoch>>
      /\ c \in Cooldown /\ len \in Nat \ {0} /\ haClock \in Nat
  BY HaAssumption DEF HealthInv, Limit, Cooldown, HaTypeOK
<1>2. CASE UNCHANGED <<haAcct, haGhost>>
  BY <1>1, <1>2, AnsweredKept
<1>3. CASE Unchanged(x) /\ Write(row) /\ haGhost' = Asks(Learned(x), c, t)
  <2>1. x.epoch = haEpoch /\ haAcct.live /\ UNCHANGED <<haPlan, haSave>>
    BY <1>1, <1>3, AnsweredRead DEF Unchanged, haPlans
  <2>2. t \in Nat /\ t > haClock /\ \A d \in Cooldown : haAcct.until[d] \in Nat /\ haGhost.asked[d] \in Nat
    BY <1>1 DEF HaTypeOK, HaRow, HaRemembered
  <2>3. Later(haAcct.until[c], t) \in Nat
    BY <1>1, <2>2 DEF Later
  <2>4. /\ row \in HaRow /\ row.live = haAcct.live /\ row.why = haAcct.why
        /\ \A d \in Cooldown : row.until[d] = IF d = c THEN Later(haAcct.until[c], t) ELSE haAcct.until[d]
    BY <1>1, <2>3, CooledRow DEF HaTypeOK
  <2>5. /\ Learned(x) \in HaRemembered /\ Learned(x).asked = haGhost.asked /\ ~Learned(x).late
        /\ Learned(x).reports = 0 /\ ~Learned(x).unearned
    BY <2>1, LearnedOf
  <2>6. /\ haGhost' \in HaRemembered /\ ~haGhost'.late /\ haGhost'.reports = 0 /\ ~haGhost'.unearned
        /\ \A d \in Cooldown : haGhost'.asked[d] = IF d = c THEN Later(haGhost.asked[c], t) ELSE haGhost.asked[d]
    <3> DEFINE g == Learned(x)
    <3>1. g \in HaRemembered /\ g.asked = haGhost.asked /\ ~g.late /\ g.reports = 0 /\ ~g.unearned
      BY <2>5
    <3> HIDE DEF g, t
    <3>2. /\ Asks(g, c, t) \in HaRemembered /\ Asks(g, c, t).late = g.late /\ Asks(g, c, t).reports = g.reports
          /\ Asks(g, c, t).unearned = g.unearned
          /\ \A d \in Cooldown : Asks(g, c, t).asked[d] = IF d = c THEN Later(g.asked[c], t) ELSE g.asked[d]
      <4>1. g \in HaRemembered /\ c \in Cooldown /\ t \in Nat
        BY <1>1, <2>2, <3>1
      <4> QED
        BY <4>1, AskedGhost
    <3>3. haGhost' = Asks(g, c, t)
      BY <1>3 DEF g
    <3> QED
      BY <3>1, <3>2, <3>3
  <2> HIDE DEF row, t
  <2>7. ASSUME NEW d \in Cooldown, haGhost'.asked[d] > haClock PROVE row.until[d] >= haGhost'.asked[d]
    <3>1. haGhost.asked[d] > haClock => haAcct.until[d] >= haGhost.asked[d]
      BY DEF HealthInv, CooldownsKept
    <3> QED
      BY <1>1, <2>2, <2>4, <2>6, <2>7, <3>1 DEF Later
  <2>8. row.why = "balance" => haGhost'.asked["temp"] <= haClock
    BY <2>4, <2>6 DEF HealthInv, BalanceInv, Cooldown
  <2>9. haEpoch' \in Nat /\ haCount' \in [HaVersions -> Nat] /\ haPlan' \in [state : {"none", "on", "off"}, ver : Nat]
    BY <1>1, <2>1 DEF HaTypeOK
  <2> QED
    BY <1>1, <1>3, <2>1, <2>4, <2>6, <2>7, <2>8, <2>9, AnsweredRead, WriteKept
<1> QED
  BY <1>2, <1>3 DEF Limit

\* The balance may only set a cooldown that nobody remembers.
LEMMA BalanceHidesNothing == ASSUME HealthInv, BalanceMay PROVE ~(haGhost.asked["temp"] > haClock)
<1>1. haClock \in Nat /\ haAcct.until["temp"] \in Nat /\ haGhost.asked["temp"] \in Nat
  BY DEF HealthInv, HaTypeOK, HaRow, HaRemembered, Cooldown
<1>2. haGhost.asked["temp"] > haClock => haAcct.until["temp"] >= haGhost.asked["temp"]
  BY DEF HealthInv, CooldownsKept, Cooldown
<1> QED
  BY <1>1, <1>2 DEF HealthInv, BalanceInv, BalanceMay, Running

\* An upstream reports that the balance is spent.
LEMMA OutOfBalanceInv ==
  ASSUME HealthInv, NEW r \in HaRequests, NEW len \in Cooldowns, OutOfBalance(r, len)
  PROVE  HealthInv'
<1> DEFINE x == haReq[r]
           t == haClock + len
           paused == [haAcct EXCEPT !.until["temp"] = t, !.why = "balance"]
           row == IF BalanceMay THEN paused ELSE haAcct
<1>1. /\ HaTypeOK /\ Answered(r) /\ UNCHANGED <<haClock, haProbe, haTest, haCount, haPlans, haEpoch>>
      /\ len \in Nat /\ haClock \in Nat /\ haGhost.asked["temp"] \in Nat
  BY HaAssumption DEF HealthInv, OutOfBalance, HaTypeOK, HaRemembered, Cooldown
<1>2. CASE UNCHANGED <<haAcct, haGhost>>
  BY <1>1, <1>2, AnsweredKept
<1>3. CASE Unchanged(x) /\ Write(row) /\ haGhost' = Learned(x)
  <2>1. x.epoch = haEpoch /\ haAcct.live /\ UNCHANGED <<haPlan, haSave>>
    BY <1>1, <1>3, AnsweredRead, SMTT(30) DEF Unchanged, haPlans
  <2>2. /\ paused \in HaRow /\ paused.live = haAcct.live
        /\ \A d \in Cooldown : paused.until[d] = IF d = "temp" THEN t ELSE haAcct.until[d]
    <3>1. t \in Nat /\ haAcct \in HaRow
      BY <1>1 DEF HaTypeOK
    <3> HIDE DEF t
    <3> QED
      BY <3>1, PausedRow
  <2> HIDE DEF paused
  <2>3. row \in HaRow /\ row.live /\ (row.why = "balance" => haGhost.asked["temp"] <= haClock)
    <3>1. CASE BalanceMay
      <4>1. row = paused
        BY <3>1
      <4>2. haGhost.asked["temp"] <= haClock
        BY <1>1, <3>1, BalanceHidesNothing
      <4> HIDE DEF row
      <4> QED
        BY <2>1, <2>2, <4>1, <4>2
    <3>2. CASE ~BalanceMay
      BY <1>1, <2>1, <3>2 DEF HealthInv, HaTypeOK, BalanceInv
    <3> QED
      BY <3>1, <3>2
  <2>4. \A c \in Cooldown : haGhost.asked[c] > haClock => row.until[c] >= haGhost.asked[c]
    BY <2>2, BalanceHidesNothing DEF HealthInv, CooldownsKept
  <2> HIDE DEF row
  <2> QED
    BY <1>1, <1>3, <2>1, <2>3, <2>4, AnsweredRead, LearnedWrite
<1> QED
  BY <1>2, <1>3 DEF OutOfBalance

\* A timeout that is only counted: the counter of the version in force grows
\* no faster than the reports.
LEMMA CountedInv ==
  ASSUME HealthInv, NEW r \in HaRequests, Answered(r), NEW redis \in BOOLEAN, NEW seen \in Nat,
         seen = IF haReq[r].ver = haAcct.ver /\ haGhost.reports < TimeoutThreshold THEN haGhost.reports + 1
                ELSE haGhost.reports,
         haCount' = [haCount EXCEPT ![haReq[r].ver] = IF redis /\ haCount[haReq[r].ver] < TimeoutThreshold
                                                       THEN haCount[haReq[r].ver] + 1 ELSE haCount[haReq[r].ver]],
         haGhost' = [haGhost EXCEPT !.reports = seen],
         UNCHANGED <<haClock, haAcct, haProbe, haTest, haPlans, haEpoch>>
  PROVE  HealthInv'
<1> DEFINE v == haReq[r].ver
<1>1. HaTypeOK /\ v \in HaVersions /\ UNCHANGED <<haPlan, haSave>> /\ v <= haAcct.ver
  BY AnsweredRead DEF HealthInv, haPlans
<1>2. /\ haGhost' \in HaRemembered /\ haGhost'.reports = seen /\ haGhost'.asked = haGhost.asked
      /\ haGhost'.late = haGhost.late /\ haGhost'.unearned = haGhost.unearned
  BY <1>1 DEF HaTypeOK, HaRemembered
<1>3. /\ haCount' \in [HaVersions -> Nat] /\ haCount'[v] <= haCount[v] + 1
      /\ \A w \in HaVersions : w # v => haCount'[w] = haCount[w]
  <2> DEFINE n == IF redis /\ haCount[v] < TimeoutThreshold THEN haCount[v] + 1 ELSE haCount[v]
  <2>1. haCount[v] \in Nat /\ n \in Nat /\ n <= haCount[v] + 1
    BY <1>1 DEF HaTypeOK
  <2>2. haCount' = [haCount EXCEPT ![v] = n]
    OBVIOUS
  <2> HIDE DEF n
  <2> QED
    BY <1>1, <2>1, <2>2 DEF HaTypeOK
<1>4. haAcct.ver \in HaVersions /\ \A w \in HaVersions : w \in Nat /\ haCount[w] \in Nat /\ haCount'[w] \in Nat
  BY <1>1, <1>3, HaAssumption DEF HaTypeOK, HaRow, HaVersions
<1>5. HaTypeOK' /\ ReadsInv'
  BY <1>1, <1>2, <1>3, AnsweredRead, ReadsKept DEF HaTypeOK
<1>6. CountInv'
  <2>1. haGhost.reports \in Nat /\ TimeoutThreshold \in Nat
    BY <1>1, HaAssumption DEF HaTypeOK, HaRemembered
  <2>2. haGhost.reports < TimeoutThreshold => haCount[haAcct.ver] <= haGhost.reports
    BY DEF HealthInv, CountInv
  <2>3. seen < TimeoutThreshold => haCount'[haAcct.ver] <= seen
    BY <1>3, <1>4, <2>1, <2>2
  <2>4. \A w \in HaVersions : w > haAcct.ver => haCount'[w] = 0
    BY <1>1, <1>3, <1>4 DEF HealthInv, CountInv
  <2> QED
    BY <1>2, <2>3, <2>4 DEF CountInv
<1>7. BalanceInv' /\ PlanInv' /\ AdminHasLastWord' /\ CooldownsKept' /\ TimeoutsEarned'
  BY <1>1, <1>2 DEF HealthInv, BalanceInv, PlanInv, NoTestOfDeleted, AdminHasLastWord, CooldownsKept, TimeoutsEarned
<1> QED
  BY <1>5, <1>6, <1>7 DEF HealthInv

\* What is remembered of a verdict that is earned.
LEMMA EarnedGhost ==
  ASSUME HealthInv, NEW x, x.epoch = haEpoch, NEW early, ~early
  PROVE  LET told == [Learned(x) EXCEPT !.unearned = @ \/ early] IN
         told \in HaRemembered /\ told.asked = haGhost.asked /\ ~told.late /\ told.reports = 0 /\ ~told.unearned
<1> DEFINE g == Learned(x)
           b == g.unearned \/ early
<1>1. g \in HaRemembered /\ g.asked = haGhost.asked /\ ~g.late /\ g.reports = 0 /\ ~g.unearned
  BY LearnedOf
<1> HIDE DEF g
<1>2. b \in BOOLEAN /\ ~b
  BY <1>1
<1> HIDE DEF b
<1> DEFINE told == [g EXCEPT !.unearned = b]
<1>3. told.unearned = b
  BY <1>1 DEF HaRemembered
<1>4. told.asked = g.asked /\ told.late = g.late /\ told.reports = g.reports
  BY <1>1 DEF HaRemembered
<1>5. told \in HaRemembered
  BY <1>1, <1>2 DEF HaRemembered
<1>6. [Learned(x) EXCEPT !.unearned = @ \/ early] = told
  BY DEF g, b
<1> HIDE DEF told
<1> QED
  BY <1>1, <1>2, <1>3, <1>4, <1>5, <1>6

\* The verdict of a counter at the threshold: put out, or paused no shorter than
\* the account is already.
LEMMA VerdictInv ==
  ASSUME HealthInv, NEW r \in HaRequests, Answered(r), Unchanged(haReq[r]), NEW t \in Nat, t > haClock,
         NEW told \in HaRemembered, told.asked = haGhost.asked, ~told.late, told.reports = 0, ~told.unearned,
         NEW row, Write(row),
         \/ row = [haAcct EXCEPT !.status = "error"] /\ haGhost' = told
         \/ /\ haAcct.until["temp"] < t /\ haGhost' = Asks(told, "temp", t)
            /\ row = [haAcct EXCEPT !.until["temp"] = t, !.why = "timeout"]
         \/ row = haAcct /\ haGhost' = told,
         haCount' \in [HaVersions -> Nat], \A v \in HaVersions : v > haAcct.ver => haCount'[v] = haCount[v],
         UNCHANGED <<haClock, haProbe, haTest, haPlans, haEpoch>>
  PROVE  HealthInv'
<1>1. HaTypeOK /\ UNCHANGED <<haPlan, haSave>> /\ haAcct.live
  BY DEF HealthInv, haPlans, Unchanged
<1>2. /\ haClock \in Nat /\ haEpoch' \in Nat /\ haPlan' \in [state : {"none", "on", "off"}, ver : Nat]
      /\ \A d \in Cooldown : haAcct.until[d] \in Nat /\ haGhost.asked[d] \in Nat
  BY <1>1 DEF HaTypeOK, HaRow, HaRemembered
<1>3. /\ haAcct.why = "balance" => haGhost.asked["temp"] <= haClock
      /\ \A d \in Cooldown : haGhost.asked[d] > haClock => haAcct.until[d] >= haGhost.asked[d]
  BY DEF HealthInv, BalanceInv, CooldownsKept
<1>4. CASE row = [haAcct EXCEPT !.status = "error"] /\ haGhost' = told
  <2>1. row \in HaRow /\ row.live = haAcct.live /\ row.until = haAcct.until /\ row.why = haAcct.why
    BY <1>1, <1>4 DEF HaTypeOK, HaRow
  <2>2. row.live /\ haGhost'.asked = haGhost.asked /\ ~haGhost'.late /\ haGhost'.reports = 0 /\ ~haGhost'.unearned
    BY <1>1, <1>4, <2>1
  <2> QED
    BY <1>1, <1>2, <1>3, <1>4, <2>1, <2>2, AnsweredRead, WriteKept
<1>5. CASE row = haAcct /\ haGhost' = told
  <2>1. /\ row \in HaRow /\ row.live
        /\ haGhost'.asked = haGhost.asked /\ ~haGhost'.late /\ haGhost'.reports = 0 /\ ~haGhost'.unearned
    BY <1>1, <1>5 DEF HaTypeOK
  <2> QED
    BY <1>1, <1>2, <1>3, <1>5, <2>1, AnsweredRead, WriteKept
<1>6. CASE /\ haAcct.until["temp"] < t /\ haGhost' = Asks(told, "temp", t)
           /\ row = [haAcct EXCEPT !.until["temp"] = t, !.why = "timeout"]
  <2>1. haAcct \in HaRow /\ "temp" \in Cooldown /\ "timeout" \in {"none", "balance", "timeout"}
    BY <1>1 DEF HaTypeOK, Cooldown
  <2>2. /\ row \in HaRow /\ row.live = haAcct.live /\ row.why = "timeout"
        /\ \A d \in Cooldown : row.until[d] = IF d = "temp" THEN t ELSE haAcct.until[d]
    <3> DEFINE new == [haAcct EXCEPT !.until["temp"] = t, !.why = "timeout"]
    <3>1. /\ new \in HaRow /\ new.live = haAcct.live /\ new.why = "timeout"
          /\ \A d \in Cooldown : new.until[d] = IF d = "temp" THEN t ELSE haAcct.until[d]
      BY <2>1, PausedRow
    <3>2. row = new
      BY <1>6
    <3> HIDE DEF new
    <3> QED
      BY <3>1, <3>2, SMTT(30)
  <2>3. /\ haGhost' \in HaRemembered /\ haGhost'.late = told.late /\ haGhost'.reports = told.reports
        /\ haGhost'.unearned = told.unearned
        /\ \A d \in Cooldown : haGhost'.asked[d] = IF d = "temp" THEN Later(told.asked["temp"], t) ELSE told.asked[d]
    BY <1>6, <2>1, AskedGhost
  <2>4. ASSUME NEW d \in Cooldown, haGhost'.asked[d] > haClock PROVE row.until[d] >= haGhost'.asked[d]
    BY <1>2, <1>3, <1>6, <2>1, <2>2, <2>3, <2>4 DEF Later
  <2>5. row.live /\ ~haGhost'.late /\ haGhost'.reports = 0 /\ ~haGhost'.unearned
    BY <1>1, <2>2, <2>3
  <2> QED
    BY <1>1, <1>2, <2>2, <2>3, <2>4, <2>5, AnsweredRead, WriteKept
<1> QED
  BY <1>4, <1>5, <1>6

\* A stream that stopped is counted by the version it read, and the account is
\* put out only for as many reports of the version in force.
LEMMA TimedOutInv ==
  ASSUME HealthInv, NEW r \in HaRequests, NEW len \in Cooldowns, NEW error \in BOOLEAN, NEW redis \in BOOLEAN,
         TimedOut(r, len, error, redis)
  PROVE  HealthInv'
<1> DEFINE x == haReq[r]
           v == x.ver
           n == IF redis THEN haCount[v] + 1 ELSE 1
           seen == IF v = haAcct.ver /\ haGhost.reports < TimeoutThreshold THEN haGhost.reports + 1 ELSE haGhost.reports
           verdict == n >= TimeoutThreshold /\ Unchanged(x) /\ haAcct.status = "active" /\ haAcct.sched
           t == haClock + len
           longer == haAcct.until["temp"] < t
           early == redis /\ seen < TimeoutThreshold
           told == [Learned(x) EXCEPT !.unearned = @ \/ early]
           row == IF error THEN [haAcct EXCEPT !.status = "error"]
                  ELSE [haAcct EXCEPT !.until["temp"] = Later(@, t), !.why = IF longer THEN "timeout" ELSE @]
           count == IF verdict THEN 0 ELSE IF redis /\ haCount[v] < TimeoutThreshold THEN n ELSE haCount[v]
<1>1. /\ Answered(r) /\ UNCHANGED <<haClock, haProbe, haTest, haPlans, haEpoch>>
      /\ haCount' = [haCount EXCEPT ![v] = count]
      /\ IF verdict THEN Write(row) /\ haGhost' = IF ~error /\ longer THEN Asks(told, "temp", t) ELSE told
         ELSE haAcct' = haAcct /\ haGhost' = [haGhost EXCEPT !.reports = seen]
  BY DEF TimedOut, TimeoutCounter
<1>2. /\ HaTypeOK /\ v \in HaVersions /\ v <= haAcct.ver /\ (Unchanged(x) => x.epoch = haEpoch)
  BY <1>1, AnsweredRead DEF HealthInv
<1>3. /\ haCount[v] \in Nat /\ haGhost.reports \in Nat /\ TimeoutThreshold \in Nat \ {0}
      /\ haAcct.until["temp"] \in Nat /\ t \in Nat /\ t > haClock
  BY <1>2, HaAssumption DEF HaTypeOK, HaRow, HaRemembered, Cooldown
<1>4. CASE ~verdict
  <2>1. seen \in Nat
    BY <1>3
  <2>2. haCount' = [haCount EXCEPT ![v] = IF redis /\ haCount[v] < TimeoutThreshold THEN haCount[v] + 1 ELSE haCount[v]]
    BY <1>1, <1>4
  <2>3. UNCHANGED <<haClock, haAcct, haProbe, haTest, haPlans, haEpoch>> /\ haGhost' = [haGhost EXCEPT !.reports = seen]
    BY <1>1, <1>4
  <2> QED
    BY <1>1, <2>1, <2>2, <2>3, CountedInv
<1>5. CASE verdict
  <2>1. Unchanged(x) /\ v = haAcct.ver /\ x.epoch = haEpoch /\ n >= TimeoutThreshold
    BY <1>2, <1>5 DEF Unchanged
  <2>2. ~early
    <3>1. haGhost.reports < TimeoutThreshold => haCount[v] <= haGhost.reports
      BY <2>1 DEF HealthInv, CountInv
    <3> QED
      BY <1>3, <2>1, <3>1
  <2> HIDE DEF early
  <2>3. told \in HaRemembered /\ told.asked = haGhost.asked /\ ~told.late /\ told.reports = 0 /\ ~told.unearned
    BY <2>1, <2>2, EarnedGhost
  <2>4. Write(row) /\ haGhost' = IF ~error /\ longer THEN Asks(told, "temp", t) ELSE told
    BY <1>1, <1>5
  <2> HIDE DEF told
  <2>5. \/ row = [haAcct EXCEPT !.status = "error"] /\ haGhost' = told
        \/ /\ haAcct.until["temp"] < t /\ haGhost' = Asks(told, "temp", t)
           /\ row = [haAcct EXCEPT !.until["temp"] = t, !.why = "timeout"]
        \/ row = haAcct /\ haGhost' = told
    <3>1. CASE error
      BY <2>4, <3>1
    <3>2. CASE ~error /\ longer
      <4>1. Later(haAcct.until["temp"], t) = t
        BY <1>3, <3>2 DEF Later
      <4> QED
        BY <2>4, <3>2, <4>1
    <3>3. CASE ~error /\ ~longer
      <4>1. Later(haAcct.until["temp"], t) = haAcct.until["temp"]
        BY <1>3, <3>3 DEF Later
      <4>2. row = [haAcct EXCEPT !.until["temp"] = haAcct.until["temp"], !.why = haAcct.why]
        BY <3>3, <4>1
      <4>3. haAcct \in HaRow /\ haAcct.until = [haAcct.until EXCEPT !["temp"] = haAcct.until["temp"]]
        BY <1>2 DEF HaTypeOK, HaRow
      <4>4. row = [haAcct EXCEPT !.until = haAcct.until, !.why = haAcct.why]
        BY <4>2, <4>3
      <4>5. row = haAcct
        BY <4>3, <4>4 DEF HaRow
      <4> QED
        BY <2>4, <3>3, <4>5
    <3> QED
      BY <3>1, <3>2, <3>3
  <2>6. haCount' \in [HaVersions -> Nat] /\ \A w \in HaVersions : w > haAcct.ver => haCount'[w] = haCount[w]
    <3>1. haCount' = [haCount EXCEPT ![v] = 0]
      BY <1>1, <1>5
    <3>2. haAcct.ver \in Nat
      BY <1>2, HaAssumption DEF HaTypeOK, HaRow, HaVersions
    <3> QED
      BY <1>2, <2>1, <3>1, <3>2 DEF HaTypeOK
  <2> HIDE DEF row, t
  <2> QED
    BY <1>1, <1>3, <2>1, <2>3, <2>4, <2>5, <2>6, VerdictInv
<1> QED
  BY <1>4, <1>5

\* A probe sets and lifts only pauses for want of balance.
LEMMA EndProbeInv ==
  ASSUME HealthInv, NEW low \in BOOLEAN, NEW len \in Cooldowns, EndProbe(low, len)
  PROVE  HealthInv'
<1> DEFINE x == haProbe
           t == haClock + len
           paused == [haAcct EXCEPT !.until["temp"] = t, !.why = "balance"]
           lifted == [haAcct EXCEPT !.until["temp"] = 0, !.why = "none"]
           row == Probed(haProbe, low, len)
<1>1. /\ HaTypeOK /\ x # HaIdle /\ haProbe' = HaIdle
      /\ UNCHANGED <<haClock, haReq, haTest, haCount, haPlan, haSave, haEpoch>>
      /\ t \in Nat /\ haClock \in Nat /\ haGhost.asked["temp"] \in Nat /\ haAcct \in HaRow
  BY HaAssumption DEF HealthInv, EndProbe, haPlans, HaTypeOK, HaRemembered, Cooldown
<1>2. /\ haReq' \in [HaRequests -> HaRequest] /\ \A r \in HaRequests : haReq'[r].at = "sent" => haReq'[r] = haReq[r]
  BY <1>1 DEF HaTypeOK
<1>3. CASE UNCHANGED <<haAcct, haGhost>>
  <2>1. HaTypeOK' /\ ReadsInv' /\ PlanInv'
    BY <1>1, <1>3, ReadsKept DEF HaTypeOK, HaProbing, HealthInv, PlanInv, NoTestOfDeleted
  <2> QED
    BY <1>1, <1>3, <2>1, HealthKept
<1>4. CASE Unchanged(x) /\ Write(row) /\ haGhost' = Learned(x)
  <2>1. x.epoch = haEpoch /\ haAcct.live
    BY <1>1, <1>4, SMTT(30) DEF HealthInv, ReadsInv, Current, Unchanged
  <2>2. /\ paused \in HaRow /\ paused.live = haAcct.live
        /\ \A d \in Cooldown : paused.until[d] = IF d = "temp" THEN t ELSE haAcct.until[d]
    <3> HIDE DEF t
    <3> QED
      BY <1>1, PausedRow, ZenonT(40)
  <2>3. /\ lifted \in HaRow /\ lifted.live = haAcct.live /\ lifted.why = "none"
        /\ \A d \in Cooldown : lifted.until[d] = IF d = "temp" THEN 0 ELSE haAcct.until[d]
    <3>1. haAcct \in HaRow /\ 0 \in Nat /\ "none" \in {"none", "balance", "timeout"}
      BY <1>1
    <3> QED
      BY <3>1, PausedRow
  <2>4. row = haAcct \/ (row = paused /\ BalanceMay) \/ (row = lifted /\ haAcct.why = "balance")
    BY DEF Probed
  <2> HIDE DEF paused, lifted, row
  <2>5. row.why = "balance" => haGhost.asked["temp"] <= haClock
    BY <1>1, <2>3, <2>4, BalanceHidesNothing DEF HealthInv, BalanceInv
  <2>6. row \in HaRow /\ row.live
    BY <1>1, <2>1, <2>2, <2>3, <2>4
  <2>7. \A c \in Cooldown : haGhost.asked[c] > haClock => row.until[c] >= haGhost.asked[c]
    <3>1. haAcct.why = "balance" => ~(haGhost.asked["temp"] > haClock)
      BY <1>1 DEF HealthInv, BalanceInv
    <3> QED
      BY <2>2, <2>3, <2>4, <3>1, BalanceHidesNothing DEF HealthInv, CooldownsKept
  <2> QED
    BY <1>1, <1>2, <1>4, <2>1, <2>5, <2>6, <2>7, LearnedWrite
<1> QED
  BY <1>3, <1>4 DEF EndProbe

\* Everything recovers.
LEMMA RecoveredRow ==
  ASSUME haAcct \in HaRow
  PROVE  Recovered \in HaRow /\ Recovered.live = haAcct.live /\ Recovered.why = "none"
<1> DEFINE now == IF haAcct.status = "error" THEN "active" ELSE haAcct.status
           until == [c \in Cooldown |-> 0]
<1>1. Recovered = [haAcct EXCEPT !.status = now, !.until = until, !.why = "none"]
  BY DEF Recovered
<1>2. now \in {"active", "inactive", "error"} /\ until \in [Cooldown -> Nat]
  BY DEF HaRow
<1> HIDE DEF now, until
<1> QED
  BY <1>1, <1>2 DEF HaRow

\* A test that succeeds lifts what it saw: nothing is remembered any more.
LEMMA EndTestInv == ASSUME HealthInv, NEW success \in BOOLEAN, EndTest(success) PROVE HealthInv'
<1> DEFINE x == haTest
           nothing == [c \in Cooldown |-> 0]
           asked == IF haAcct.ver = x.ver THEN nothing ELSE Learned(x).asked
           ghost == [Learned(x) EXCEPT !.asked = asked]
<1>1. /\ HaTypeOK /\ x.at = "asked" /\ haTest' = HaIdle
      /\ UNCHANGED <<haClock, haReq, haProbe, haCount, haPlan, haSave, haEpoch>>
      /\ haClock \in Nat /\ haAcct \in HaRow
  BY DEF HealthInv, EndTest, haPlans, HaTypeOK
<1>2. CASE UNCHANGED <<haAcct, haGhost>>
  <2>1. HaTypeOK' /\ ReadsInv' /\ PlanInv'
    BY <1>1, <1>2, ReadsKept DEF HaTypeOK, HaTesting, HealthInv, PlanInv, NoTestOfDeleted, HaIdle
  <2> QED
    BY <1>1, <1>2, <2>1, HealthKept
<1>3. CASE Unchanged(x) /\ Write(Recovered) /\ haGhost' = ghost
  <2>1. x.epoch = haEpoch /\ haAcct.live /\ haAcct.ver = x.ver
    BY <1>1, <1>3 DEF HealthInv, ReadsInv, Current, Unchanged
  <2>2. asked = nothing /\ nothing \in [Cooldown -> Nat]
    BY <2>1
  <2>3. /\ Learned(x) \in HaRemembered /\ ~Learned(x).late /\ Learned(x).reports = 0 /\ ~Learned(x).unearned
    BY <2>1, LearnedOf
  <2>4. ghost = [Learned(x) EXCEPT !.asked = nothing]
    BY <2>2
  <2>5. \A c \in Cooldown : nothing[c] = 0
    OBVIOUS
  <2> HIDE DEF nothing, asked, ghost
  <2>6. ghost \in HaRemembered /\ ghost.asked = nothing /\ ~ghost.late /\ ghost.reports = 0 /\ ~ghost.unearned
    BY <2>2, <2>3, <2>4 DEF HaRemembered
  <2>7. \A c \in Cooldown : ~(haGhost'.asked[c] > haClock)
    BY <1>1, <1>3, <2>5, <2>6
  <2>8. /\ haReq' \in [HaRequests -> HaRequest] /\ haCount' \in [HaVersions -> Nat] /\ haEpoch' \in Nat
        /\ haPlan' \in [state : {"none", "on", "off"}, ver : Nat]
    BY <1>1 DEF HaTypeOK
  <2>9. Recovered \in HaRow /\ Recovered.live /\ Recovered.why # "balance"
    BY <1>1, <2>1, RecoveredRow
  <2> QED
    BY <1>1, <1>3, <2>6, <2>7, <2>8, <2>9, WriteKept
<1> QED
  BY <1>2, <1>3 DEF EndTest

\* An administrator may change the row as he likes, if what he takes back is
\* forgotten: he leaves everything that was read behind.
LEMMA AdministerInv ==
  ASSUME HealthInv, NEW row \in HaRow, NEW lifted \in SUBSET Cooldown, Administer(row, lifted),
         \A c \in Cooldown \ lifted : row.until[c] = haAcct.until[c],
         row.why = "balance" => haAcct.why = "balance",
         haPlan' \in [state : {"none", "on", "off"}, ver : Nat], ~row.live => haPlan'.state # "on"
  PROVE  HealthInv'
<1> DEFINE asked == [c \in Cooldown |-> IF c \in lifted THEN 0 ELSE haGhost.asked[c]]
<1>1. /\ HaTypeOK /\ Write(row) /\ haEpoch' = haEpoch + 1 /\ haSave = NoSave
      /\ UNCHANGED <<haClock, haReq, haProbe, haTest, haCount, haSave>>
  BY DEF HealthInv, Administer, haRun, HaTypeOK, NoSave
<1>2. haGhost' = [haGhost EXCEPT !.reports = 0, !.asked = asked]
  BY DEF Administer
<1>3. haClock \in Nat /\ haGhost \in HaRemembered /\ \A c \in Cooldown : haGhost.asked[c] \in Nat
  BY <1>1 DEF HaTypeOK, HaRemembered
<1>4. asked \in [Cooldown -> Nat] /\ \A c \in Cooldown : asked[c] = IF c \in lifted THEN 0 ELSE haGhost.asked[c]
  BY <1>3
<1> HIDE DEF asked
<1>5. /\ haGhost' \in HaRemembered /\ haGhost'.asked = asked /\ haGhost'.late = haGhost.late
      /\ haGhost'.reports = 0 /\ haGhost'.unearned = haGhost.unearned
  BY <1>2, <1>3, <1>4 DEF HaRemembered
<1>6. ~haGhost'.late /\ ~haGhost'.unearned
  BY <1>5 DEF HealthInv, AdminHasLastWord, TimeoutsEarned
<1>7. \A c \in Cooldown : haGhost'.asked[c] > haClock => row.until[c] >= haGhost'.asked[c]
  BY <1>3, <1>4, <1>5 DEF HealthInv, CooldownsKept
<1>8. row.why = "balance" => haGhost'.asked["temp"] <= haClock
  BY <1>3, <1>4, <1>5 DEF HealthInv, BalanceInv, Cooldown
<1>9. haReq' \in [HaRequests -> HaRequest] /\ haCount' \in [HaVersions -> Nat] /\ haEpoch' \in Nat
  BY <1>1 DEF HaTypeOK
<1> QED
  BY <1>1, <1>5, <1>6, <1>7, <1>8, <1>9, WriteKept

\* What administrators do.
LEMMA AdministratorInv ==
  ASSUME HealthInv,
         \/ SetSchedulable \/ (\E s \in {"active", "inactive"} : SetStatus(s)) \/ ClearTemp \/ ClearRateLimit
         \/ ClearError \/ ResetQuota \/ RecoverState \/ DeleteAccount
  PROVE  HealthInv'
<1>1. HaTypeOK /\ haAcct \in HaRow /\ haPlan \in [state : {"none", "on", "off"}, ver : Nat]
      /\ {} \in SUBSET Cooldown /\ {"temp"} \in SUBSET Cooldown /\ {"rate"} \in SUBSET Cooldown /\ Cooldown \in SUBSET Cooldown
      /\ "temp" \in Cooldown /\ "rate" \in Cooldown /\ 0 \in Nat
  BY DEF HealthInv, HaTypeOK, Cooldown
<1>2. ASSUME NEW row \in HaRow, row.live, NEW lifted \in SUBSET Cooldown, Administer(row, lifted), UNCHANGED haPlan,
             \A c \in Cooldown \ lifted : row.until[c] = haAcct.until[c],
             row.why = "balance" => haAcct.why = "balance"
      PROVE  HealthInv'
  BY <1>1, <1>2, AdministerInv
<1>3. CASE SetSchedulable
  <2> DEFINE row == [haAcct EXCEPT !.sched = ~haAcct.sched]
  <2>1. haAcct.live /\ Administer(row, {}) /\ UNCHANGED haPlan
    BY <1>3 DEF SetSchedulable, Administer
  <2>2. row \in HaRow /\ row.live = haAcct.live /\ row.until = haAcct.until /\ row.why = haAcct.why
    BY <1>1 DEF HaRow
  <2> HIDE DEF row
  <2> QED
    BY <1>1, <1>2, <2>1, <2>2
<1>4. ASSUME NEW s \in {"active", "inactive"}, SetStatus(s) PROVE HealthInv'
  <2> DEFINE row == [haAcct EXCEPT !.status = s]
  <2>1. haAcct.live /\ Administer(row, {}) /\ UNCHANGED haPlan
    BY <1>4 DEF SetStatus, Administer
  <2>2. row \in HaRow /\ row.live = haAcct.live /\ row.until = haAcct.until /\ row.why = haAcct.why
    BY <1>1 DEF HaRow
  <2> HIDE DEF row
  <2> QED
    BY <1>1, <1>2, <2>1, <2>2
<1>5. CASE ClearTemp
  <2> DEFINE row == [haAcct EXCEPT !.until["temp"] = 0, !.why = "none"]
  <2>1. haAcct.live /\ Administer(row, {"temp"}) /\ UNCHANGED haPlan
    BY <1>5 DEF ClearTemp, Administer
  <2>2. /\ row \in HaRow /\ row.live = haAcct.live /\ row.why = "none"
        /\ \A d \in Cooldown : row.until[d] = IF d = "temp" THEN 0 ELSE haAcct.until[d]
    <3>1. haAcct \in HaRow /\ 0 \in Nat /\ "none" \in {"none", "balance", "timeout"}
      BY <1>1
    <3> QED
      BY <3>1, PausedRow
  <2> HIDE DEF row
  <2> QED
    BY <1>1, <1>2, <2>1, <2>2
<1>6. CASE ClearRateLimit
  <2> DEFINE until == [c \in Cooldown |-> 0]
             row == [haAcct EXCEPT !.until = until, !.why = "none"]
  <2>1. haAcct.live /\ Administer(row, Cooldown) /\ UNCHANGED haPlan
    BY <1>6 DEF ClearRateLimit, Administer
  <2>2. until \in [Cooldown -> Nat]
    OBVIOUS
  <2> HIDE DEF until
  <2>3. row \in HaRow /\ row.live = haAcct.live /\ row.why = "none"
    BY <1>1, <2>2 DEF HaRow
  <2> HIDE DEF row
  <2> QED
    BY <1>1, <1>2, <2>1, <2>3
<1>7. CASE ClearError
  <2> DEFINE now == IF haAcct.status = "error" THEN "active" ELSE haAcct.status
             row == [haAcct EXCEPT !.status = now]
  <2>1. haAcct.live /\ Administer(row, {}) /\ UNCHANGED haPlan
    BY <1>7 DEF ClearError, Administer
  <2>2. row \in HaRow /\ row.live = haAcct.live /\ row.until = haAcct.until /\ row.why = haAcct.why
    BY <1>1 DEF HaRow
  <2> HIDE DEF row
  <2> QED
    BY <1>1, <1>2, <2>1, <2>2
<1>8. CASE ResetQuota
  <2> DEFINE row == [haAcct EXCEPT !.until["rate"] = 0]
  <2>1. haAcct.live /\ Administer(row, {"rate"}) /\ UNCHANGED haPlan
    BY <1>8 DEF ResetQuota, Administer
  <2>2. /\ row \in HaRow /\ row.live = haAcct.live /\ row.why = haAcct.why
        /\ \A d \in Cooldown : row.until[d] = IF d = "rate" THEN 0 ELSE haAcct.until[d]
    BY <1>1, CooledRow
  <2> HIDE DEF row
  <2> QED
    BY <1>1, <1>2, <2>1, <2>2
<1>9. CASE RecoverState
  <2>1. haAcct.live /\ Administer(Recovered, Cooldown) /\ UNCHANGED haPlan
    BY <1>9 DEF RecoverState, Administer
  <2>2. Recovered \in HaRow /\ Recovered.live = haAcct.live /\ Recovered.why = "none"
    BY <1>1, RecoveredRow
  <2> QED
    BY <1>1, <1>2, <2>1, <2>2
<1>10. CASE DeleteAccount
  <2> DEFINE row == [haAcct EXCEPT !.live = FALSE, !.status = "inactive", !.sched = FALSE]
  <2>1. Administer(row, {}) /\ haPlan' = IF haPlan.state = "none" THEN haPlan ELSE [state |-> "off", ver |-> haPlan.ver + 1]
    BY <1>10 DEF DeleteAccount
  <2>2. row \in HaRow /\ row.until = haAcct.until /\ row.why = haAcct.why
    BY <1>1 DEF HaRow
  <2> HIDE DEF row
  <2>3. haPlan' \in [state : {"none", "on", "off"}, ver : Nat] /\ haPlan'.state # "on"
    BY <1>1, <2>1
  <2> QED
    BY <1>1, <2>1, <2>2, <2>3, AdministerInv
<1> QED
  BY <1>3, <1>4, <1>5, <1>6, <1>7, <1>8, <1>9, <1>10

\* What is begun reads the row as it is, and what fails writes nothing.
LEMMA HealthReads ==
  ASSUME HealthInv,
         \/ \E r \in HaRequests : ListAccount(r) \/ LoadAccount(r)
         \/ \E schedule \in BOOLEAN : BeginProbe(schedule)
         \/ ProbeFails \/ TakePlan \/ BeginTest
  PROVE  HealthInv'
<1>1. HaTypeOK /\ haAcct.ver \in HaVersions /\ haPlan.ver \in Nat /\ haEpoch \in Nat
  BY DEF HealthInv, HaTypeOK, HaRow
<1>2. UNCHANGED <<haClock, haAcct, haCount, haPlan, haSave, haEpoch, haGhost>>
  BY DEF ListAccount, LoadAccount, BeginProbe, ProbeFails, TakePlan, BeginTest, haPlans
<1>3. /\ haReq' \in [HaRequests -> HaRequest]
      /\ \A r \in HaRequests : haReq'[r].at = "sent" => haReq'[r] = haReq[r] \/ New(haReq'[r])
  <2>1. ASSUME NEW r \in HaRequests, NEW state, state \in {HaIdle, [at |-> "listed"], [at |-> "sent", ver |-> haAcct.ver, epoch |-> haEpoch]},
               haReq' = [haReq EXCEPT ![r] = state]
        PROVE  /\ haReq' \in [HaRequests -> HaRequest]
               /\ \A q \in HaRequests : haReq'[q].at = "sent" => haReq'[q] = haReq[q] \/ New(haReq'[q])
    <3>1. state \in HaRequest
      BY <1>1, <2>1 DEF HaRequest
    <3>2. state.at = "sent" => New(state)
      BY <1>2, <2>1 DEF New, HaIdle
    <3>3. haReq' \in [HaRequests -> HaRequest] /\ \A q \in HaRequests : haReq'[q] = IF q = r THEN state ELSE haReq[q]
      BY <1>1, <2>1, <3>1 DEF HaTypeOK
    <3> QED
      BY <3>2, <3>3
  <2>2. ASSUME NEW r \in HaRequests, ListAccount(r) PROVE haReq' = [haReq EXCEPT ![r] = [at |-> "listed"]]
    BY <2>2 DEF ListAccount
  <2>3. ASSUME NEW r \in HaRequests, LoadAccount(r)
        PROVE  \E state \in {HaIdle, [at |-> "sent", ver |-> haAcct.ver, epoch |-> haEpoch]} : haReq' = [haReq EXCEPT ![r] = state]
    BY <2>3 DEF LoadAccount
  <2>4. haReq' = haReq \/ \E r \in HaRequests : ListAccount(r) \/ LoadAccount(r)
    BY DEF BeginProbe, ProbeFails, TakePlan, BeginTest
  <2>5. CASE haReq' = haReq
    BY <1>1, <2>5 DEF HaTypeOK
  <2> QED
    BY <2>1, <2>2, <2>3, <2>4, <2>5
<1>4. haProbe' \in HaProbing /\ (haProbe' # HaIdle => haProbe' = haProbe \/ New(haProbe'))
  <2>1. haProbe' \in {haProbe, HaIdle}
        \/ \E schedule \in BOOLEAN : haProbe' = [at |-> "asked", ver |-> haAcct.ver, epoch |-> haEpoch, schedule |-> schedule]
    BY DEF ListAccount, LoadAccount, BeginProbe, ProbeFails, TakePlan, BeginTest
  <2> QED
    BY <1>1, <1>2, <2>1 DEF HaTypeOK, HaProbing, New
<1>5. haTest' \in HaTesting /\ (haTest'.at = "asked" => haTest' = haTest \/ New(haTest'))
  <2>1. \/ haTest' \in {haTest, HaIdle, [at |-> "due", plan |-> haPlan.ver]}
        \/ haTest.at = "due" /\ haTest' = [at |-> "asked", plan |-> haTest.plan, ver |-> haAcct.ver, epoch |-> haEpoch]
    BY DEF ListAccount, LoadAccount, BeginProbe, ProbeFails, TakePlan, BeginTest
  <2>2. haTest.at = "due" => haTest.plan \in Nat
    BY <1>1 DEF HaTypeOK, HaTesting, HaIdle
  <2> QED
    BY <1>1, <1>2, <2>1, <2>2 DEF HaTypeOK, HaTesting, HaIdle, New
<1>6. HaTypeOK' /\ ReadsInv'
  BY <1>1, <1>2, <1>3, <1>4, <1>5, ReadsKept DEF HaTypeOK
<1>7. PlanInv'
  BY <1>2 DEF HealthInv, PlanInv, NoTestOfDeleted
<1> QED
  BY <1>2, <1>6, <1>7, HealthKept

\* The plan of a test is on only while its account lives.
LEMMA PlansInv ==
  ASSUME HealthInv, BeginSave \/ (\E state \in {"on", "off"} : EndSave(state)) \/ DropPlan
  PROVE  HealthInv'
<1>1. HaTypeOK /\ UNCHANGED <<haClock, haAcct, haReq, haProbe, haTest, haCount, haEpoch, haGhost>>
  BY DEF HealthInv, BeginSave, EndSave, DropPlan, haRun
<1>2. haPlan \in [state : {"none", "on", "off"}, ver : Nat]
  BY <1>1 DEF HaTypeOK
<1>3. /\ haPlan' \in [state : {"none", "on", "off"}, ver : Nat] /\ haSave' \in {NoSave, [at |-> "saving", lock |-> TRUE]}
      /\ PlanInv'
  BY <1>1, <1>2 DEF HaTypeOK, HealthInv, PlanInv, NoTestOfDeleted, BeginSave, EndSave, DropPlan, NoSave
<1>4. HaTypeOK' /\ ReadsInv'
  BY <1>1, <1>3, ReadsKept DEF HaTypeOK
<1> QED
  BY <1>1, <1>3, <1>4, HealthKept

\* Time passes, and counters expire.
LEMMA ElapseInv == ASSUME HealthInv, Elapse \/ \E v \in 1..HaMaxVer : ForgetTimeouts(v) PROVE HealthInv'
<1>1. HaTypeOK /\ UNCHANGED <<haAcct, haReq, haProbe, haTest, haPlan, haSave, haEpoch, haGhost>>
  BY DEF HealthInv, Elapse, ForgetTimeouts, haRun, haPlans
<1>2. haClock \in Nat /\ haClock' \in Nat /\ haClock <= haClock' /\ \A c \in Cooldown : haGhost.asked[c] \in Nat
  BY <1>1 DEF HaTypeOK, Elapse, ForgetTimeouts, HaRemembered
<1>3. haCount' \in [HaVersions -> Nat] /\ \A v \in HaVersions : haCount'[v] = haCount[v] \/ haCount'[v] = 0
  BY <1>1 DEF HaTypeOK, Elapse, ForgetTimeouts
<1>4. HaTypeOK' /\ ReadsInv'
  BY <1>1, <1>2, <1>3, ReadsKept DEF HaTypeOK
<1>5. CountInv'
  <2>1. haAcct.ver \in HaVersions /\ haGhost.reports \in Nat /\ haCount[haAcct.ver] \in Nat
    BY <1>1 DEF HaTypeOK, HaRow, HaRemembered
  <2> QED
    BY <1>1, <1>3, <2>1 DEF HealthInv, CountInv
<1>6. BalanceInv' /\ CooldownsKept'
  BY <1>1, <1>2 DEF HealthInv, BalanceInv, CooldownsKept, Cooldown
<1>7. PlanInv' /\ AdminHasLastWord' /\ TimeoutsEarned'
  BY <1>1 DEF HealthInv, PlanInv, NoTestOfDeleted, AdminHasLastWord, TimeoutsEarned
<1> QED
  BY <1>4, <1>5, <1>6, <1>7 DEF HealthInv

\* Every step of an account's health keeps HealthInv.
LEMMA HealthStep == HealthInv /\ [HealthNext]_haVars => HealthInv'
<1> SUFFICES ASSUME HealthInv, [HealthNext]_haVars PROVE HealthInv'
  OBVIOUS
<1>1. ASSUME NEW r \in HaRequests, Succeed(r) PROVE HealthInv'
  BY <1>1, AnsweredKept DEF Succeed
<1>2. ASSUME NEW r \in HaRequests, Reject(r) PROVE HealthInv'
  BY <1>2, RejectInv
<1>3. ASSUME NEW r \in HaRequests, NEW len \in Cooldowns, NEW c \in {"rate", "overload"}, Limit(r, c, len) PROVE HealthInv'
  BY <1>3, LimitInv
<1>4. ASSUME NEW r \in HaRequests, NEW len \in Cooldowns, OutOfBalance(r, len) PROVE HealthInv'
  BY <1>4, OutOfBalanceInv
<1>5. ASSUME NEW r \in HaRequests, NEW len \in Cooldowns, NEW error \in BOOLEAN, NEW redis \in BOOLEAN,
             TimedOut(r, len, error, redis)
      PROVE  HealthInv'
  BY <1>5, TimedOutInv
<1>6. ASSUME NEW low \in BOOLEAN, NEW len \in Cooldowns, EndProbe(low, len) PROVE HealthInv'
  BY <1>6, EndProbeInv
<1>7. ASSUME NEW success \in BOOLEAN, EndTest(success) PROVE HealthInv'
  BY <1>7, EndTestInv
<1>8. CASE \/ \E r \in HaRequests : ListAccount(r) \/ LoadAccount(r)
           \/ \E schedule \in BOOLEAN : BeginProbe(schedule)
           \/ ProbeFails \/ TakePlan \/ BeginTest
  BY <1>8, HealthReads
<1>9. CASE BeginSave \/ (\E state \in {"on", "off"} : EndSave(state)) \/ DropPlan
  BY <1>9, PlansInv
<1>10. CASE Elapse \/ \E v \in 1..HaMaxVer : ForgetTimeouts(v)
  BY <1>10, ElapseInv
<1>11. CASE \/ SetSchedulable \/ (\E s \in {"active", "inactive"} : SetStatus(s)) \/ ClearTemp \/ ClearRateLimit
            \/ ClearError \/ ResetQuota \/ RecoverState \/ DeleteAccount
  BY <1>11, AdministratorInv
<1>12. CASE UNCHANGED haVars
  <2>1. /\ UNCHANGED <<haClock, haAcct, haCount, haEpoch, haGhost>>
        /\ UNCHANGED <<haReq, haProbe, haTest, haPlan, haSave>>
    BY <1>12 DEF haVars, haPlans
  <2>2. HaTypeOK' /\ ReadsInv' /\ PlanInv'
    BY <2>1, ReadsKept DEF HealthInv, HaTypeOK, PlanInv, NoTestOfDeleted
  <2> QED
    BY <2>1, <2>2, HealthKept
<1> QED
  BY <1>1, <1>2, <1>3, <1>4, <1>5, <1>6, <1>7, <1>8, <1>9, <1>10, <1>11, <1>12 DEF HealthNext

\* What is known of an account's health is true to what happened: no failure,
\* probe or test that read the row before an administrator acted on it writes
\* to it afterwards, nothing shortens a cooldown but who may, timeouts put an
\* account out only at their number, and a deleted account is not tested.
THEOREM HealthStaysFaithful == HealthSpec => []HealthFaithful
<1>1. HealthInv => HealthFaithful
  BY DEF HealthInv, PlanInv, HealthFaithful
<1> QED
  BY HealthInit, HealthStep, <1>1, PTL DEF HealthSpec

(***************************************************************************)
(* Pricing.  The card that prices a model is one of those in force or      *)
(* inherits from one (EffectiveTyped); only its tokens' prices depend on   *)
(* those of the reference (ResolvedRepriced); spans that do not overlap    *)
(* their neighbours overlap none (NeighboursSuffice).  A request keeps the *)
(* catalog and the cards it was quoted with (RequestInv).                  *)
(***************************************************************************)

\* A card, or none.
SomeCard == Cards \cup {NoCard}

\* The least of the places found is one of them.
LEMMA FirstFound ==
  ASSUME NEW found, found \subseteq Nat, found # {}
  PROVE  Min(found) \in found
<1>1. PICK n \in found : \A m \in found : n <= m
  BY LeastNumber
<1> QED
  BY <1>1 DEF Min

\* A card is not the lack of one.
LEMMA CardsAreNamed ==
  /\ \A c \in Cards : c.mode \in {"token", "request"} /\ c # NoCard
  /\ NoCard.mode = "none"
BY DEF Cards, NoCard

\* What a catalog says of a model on a platform is a card, or nothing.
LEMMA LookupOnTyped ==
  ASSUME NEW catalog \in PrFiles, NEW platform, NEW model \in PrModels
  PROVE  LookupOn(catalog, platform, model) \in SomeCard
<1> DEFINE Entry(i) == {e \in catalog : e.platform = platform /\ e.name = PrNames(model)[i]}
           found == {i \in DOMAIN PrNames(model) : Entry(i) # {}}
<1>1. LookupOn(catalog, platform, model) = IF found = {} THEN NoCard ELSE (CHOOSE e \in Entry(Min(found)) : TRUE).card
  BY DEF LookupOn
<1>2. ASSUME found # {} PROVE Entry(Min(found)) # {}
  <2>1. found \subseteq Nat
    BY PrAssumption
  <2> QED
    BY <1>2, <2>1, FirstFound
<1>3. \A e \in catalog : e.card \in Cards
  BY PrAssumption
<1> QED
  BY <1>1, <1>2, <1>3 DEF SomeCard

\* The same on any platform.
LEMMA LookupAnyTyped ==
  ASSUME NEW catalog \in PrFiles, NEW model \in PrModels
  PROVE  LookupAny(catalog, model) \in SomeCard
<1> DEFINE Entries(i) == {e \in catalog : e.name = PrNames(model)[i]}
           found == {i \in DOMAIN PrNames(model) : Entries(i) # {}}
           many == \E e, f \in Entries(Min(found)) : e # f
<1>1. LookupAny(catalog, model) = IF found = {} \/ many THEN NoCard ELSE (CHOOSE e \in Entries(Min(found)) : TRUE).card
  BY DEF LookupAny
<1>2. ASSUME found # {} PROVE Entries(Min(found)) # {}
  <2>1. found \subseteq Nat
    BY PrAssumption
  <2> QED
    BY <1>2, <2>1, FirstFound
<1>3. \A e \in catalog : e.card \in Cards
  BY PrAssumption
<1> HIDE DEF many
<1> QED
  BY <1>1, <1>2, <1>3 DEF SomeCard

\* The card of a channel for a model is one of its cards, if there is one.
LEMMA MatchPriceTyped ==
  ASSUME NEW cards \in SUBSET Cards, NEW model \in PrModels
  PROVE  MatchPrice(cards, model) \in SomeCard
<1> DEFINE Named(i) == {c \in cards : Matches(c.pattern, PrNames(model)[i])}
           found == {i \in DOMAIN PrNames(model) : Named(i) # {}}
<1>1. MatchPrice(cards, model) = IF found = {} THEN NoCard ELSE CHOOSE c \in Named(Min(found)) : TRUE
  BY DEF MatchPrice
<1>2. ASSUME found # {} PROVE Named(Min(found)) # {}
  <2>1. found \subseteq Nat
    BY PrAssumption
  <2> QED
    BY <1>2, <2>1, FirstFound
<1> QED
  BY <1>1, <1>2 DEF SomeCard

\* The card of a group for a model is one of its cards, if there is one.
LEMMA GroupPriceTyped ==
  ASSUME NEW cards \in Seq(Cards), NEW model
  PROVE  GroupModelPrice(cards, model) \in SomeCard
<1> DEFINE exact == {i \in DOMAIN cards : cards[i].pattern = model}
           found == {i \in DOMAIN cards : Matches(cards[i].pattern, model)}
<1>1. GroupModelPrice(cards, model)
      = IF exact # {} THEN cards[Min(exact)] ELSE IF found # {} THEN cards[Min(found)] ELSE NoCard
  BY DEF GroupModelPrice
<1>2. exact \subseteq DOMAIN cards /\ found \subseteq DOMAIN cards /\ DOMAIN cards \subseteq Nat
  OBVIOUS
<1>3. \A i \in DOMAIN cards : cards[i] \in Cards
  OBVIOUS
<1> HIDE DEF exact, found
<1> QED
  BY <1>1, <1>2, <1>3, FirstFound DEF SomeCard

\* A card that inherits is a card of the same kind.
LEMMA InheritTyped ==
  ASSUME NEW custom \in Cards, NEW base \in Cards
  PROVE  /\ Inherit(custom, base) \in Cards
         /\ Inherit(custom, base).mode = custom.mode
BY ZenonT(40) DEF Inherit, Or, Cards, Prices

\* What resolves the card of an operator is a card, or nothing.
LEMMA ResolvedTyped ==
  ASSUME NEW catalog \in PrFiles, NEW custom \in SomeCard, NEW model \in PrModels
  PROVE  ResolvedModelPrice(catalog, custom, model) \in SomeCard
<1> DEFINE own == LookupOn(catalog, PrPlatform, model)
           base == IF own # NoCard THEN own ELSE LookupAny(catalog, model)
<1>1. base \in SomeCard
  BY LookupOnTyped, LookupAnyTyped
<1>2. ResolvedModelPrice(catalog, custom, model) =
        CASE custom = NoCard -> base
          [] custom # NoCard /\ (custom.mode # "token" \/ base.mode # "token") -> custom
          [] OTHER -> Inherit(custom, base)
  BY DEF ResolvedModelPrice
<1> HIDE DEF base
<1>3. CASE custom = NoCard
  BY <1>1, <1>2, <1>3
<1>4. CASE custom # NoCard /\ (custom.mode # "token" \/ base.mode # "token")
  BY <1>2, <1>4
<1>5. CASE custom # NoCard /\ custom.mode = "token" /\ base.mode = "token"
  <2>1. custom \in Cards /\ base \in Cards
    BY <1>1, <1>5, CardsAreNamed DEF SomeCard
  <2> QED
    BY <1>2, <1>5, <2>1, InheritTyped DEF SomeCard
<1> QED
  BY <1>3, <1>4, <1>5

\* A card without its tiers.
LEMMA FlatTyped ==
  ASSUME NEW card \in Cards
  PROVE  /\ [card EXCEPT !.tiers = <<>>] \in Cards
         /\ [card EXCEPT !.tiers = <<>>].mode = card.mode
         /\ [card EXCEPT !.tiers = <<>>].in = card.in
         /\ [card EXCEPT !.tiers = <<>>].write = card.write
         /\ [card EXCEPT !.tiers = <<>>].hour = card.hour
<1>1. <<>> \in Seq(Tiers)
  OBVIOUS
<1> DEFINE none == <<>>
<1> HIDE DEF none
<1>2. /\ [card EXCEPT !.tiers = none].mode = card.mode
      /\ [card EXCEPT !.tiers = none].in = card.in
      /\ [card EXCEPT !.tiers = none].write = card.write
      /\ [card EXCEPT !.tiers = none].hour = card.hour
  BY DEF Cards
<1>3. [card EXCEPT !.tiers = none] \in Cards
  BY <1>1 DEF Cards, none
<1> QED
  BY <1>2, <1>3 DEF none

\* The card that prices a model is a card, or nothing.
LEMMA EffectiveTyped ==
  ASSUME NEW catalog \in PrFiles, NEW group \in PrGroups \cup {<<>>}, NEW channel \in PrChannels, NEW model \in PrModels
  PROVE  EffectiveModelPrice(catalog, group, channel, model) \in SomeCard
<1> DEFINE card == GroupModelPrice(group, model)
           below == MatchPrice(channel.cards, model)
           flat == IF card.mode = "token" THEN [card EXCEPT !.tiers = <<>>] ELSE card
<1>1. EffectiveModelPrice(catalog, group, channel, model)
      = IF channel.restrict /\ below = NoCard THEN NoCard
        ELSE IF card = NoCard THEN ResolvedModelPrice(catalog, below, model) ELSE ResolvedModelPrice(catalog, flat, model)
  BY DEF EffectiveModelPrice
<1>2. card \in SomeCard
  <2>1. group \in Seq(Cards)
    <3>1. <<>> \in Seq(Cards)
      OBVIOUS
    <3>2. \A g \in PrGroups : g \in Seq(Cards)
      BY PrAssumption
    <3> QED
      BY <3>1, <3>2
  <2> QED
    BY <2>1, GroupPriceTyped
<1>3. below \in SomeCard
  <2>1. channel.cards \in SUBSET Cards
    BY PrAssumption
  <2> QED
    BY <2>1, MatchPriceTyped
<1> HIDE DEF card, below
<1>4. card # NoCard => flat \in SomeCard
  BY <1>2, FlatTyped DEF SomeCard
<1> HIDE DEF flat
<1> QED
  BY <1>1, <1>2, <1>3, <1>4, ResolvedTyped DEF SomeCard

\* The tier of a context is a tier.
LEMMA IntervalTyped ==
  ASSUME NEW card \in Cards, NEW context
  PROVE  Interval(card, context) \in Tiers
<1> DEFINE found == {i \in DOMAIN card.tiers : InTier(card.tiers[i], context)}
<1>1. Interval(card, context) = IF found = {} THEN NoTier ELSE card.tiers[Min(found)]
  BY DEF Interval
<1>2. card.tiers \in Seq(Tiers)
  BY DEF Cards
<1>3. found \subseteq DOMAIN card.tiers /\ DOMAIN card.tiers \subseteq Nat
  BY <1>2
<1>4. NoTier \in Tiers
  BY DEF NoTier, Tiers, Prices, NoMax, NoPrice
<1>5. \A i \in DOMAIN card.tiers : card.tiers[i] \in Tiers
  BY <1>2
<1> HIDE DEF found
<1> QED
  BY <1>1, <1>3, <1>4, <1>5, FirstFound

\* A price that is given is a number of a kind.
LEMMA PricesAreNumbers ==
  ASSUME NEW p \in Prices
  PROVE  p \in Int /\ (p # NoPrice <=> p \in Nat)
BY DEF Prices, NoPrice

\* A price is resolved where the tier or the card has it.
LEMMA ResolvedPriceIs ==
  ASSUME NEW base \in Prices, NEW override \in Prices, NEW factor \in Nat
  PROVE  /\ ResolvedPrice(base, override, factor) \in Prices
         /\ ResolvedPrice(base, override, factor) = NoPrice <=> override = NoPrice /\ base = NoPrice
<1>1. base # NoPrice => base * factor \in Nat
  BY DEF Prices
<1> QED
  BY <1>1 DEF ResolvedPrice, Prices, NoPrice

\* The prices of tokens: where writes have a price, hours have.
LEMMA TokenPricesTyped ==
  ASSUME NEW card \in Cards, NEW tier \in Tiers
  PROVE  /\ TokenPrices(card, tier).in \in Prices
         /\ TokenPrices(card, tier).write \in Prices
         /\ TokenPrices(card, tier).hour \in Prices
         /\ TokenPrices(card, tier).write # NoPrice => TokenPrices(card, tier).hour # NoPrice
<1>1. {card.in, card.write, card.hour, tier.in, tier.write, tier.hour} \subseteq Prices /\ tier.factor \in Nat
  BY DEF Cards, Tiers
<1>2. Or(card.hour, card.write) \in Prices /\ (Or(card.hour, card.write) = NoPrice => card.write = NoPrice)
  BY <1>1 DEF Or
<1>3. TokenPrices(card, tier).in = ResolvedPrice(card.in, tier.in, tier.factor)
      /\ TokenPrices(card, tier).write = ResolvedPrice(card.write, tier.write, tier.factor)
      /\ TokenPrices(card, tier).hour
           = IF tier.write # NoPrice /\ tier.hour = NoPrice THEN tier.write
             ELSE ResolvedPrice(Or(card.hour, card.write), tier.hour, tier.factor)
  BY DEF TokenPrices
<1>4. ResolvedPrice(card.in, tier.in, tier.factor) \in Prices
  BY <1>1, ResolvedPriceIs
<1>5. /\ ResolvedPrice(card.write, tier.write, tier.factor) \in Prices
      /\ ResolvedPrice(card.write, tier.write, tier.factor) = NoPrice <=> tier.write = NoPrice /\ card.write = NoPrice
  BY <1>1, ResolvedPriceIs
<1>6. /\ ResolvedPrice(Or(card.hour, card.write), tier.hour, tier.factor) \in Prices
      /\ ResolvedPrice(Or(card.hour, card.write), tier.hour, tier.factor) = NoPrice
           <=> tier.hour = NoPrice /\ Or(card.hour, card.write) = NoPrice
  BY <1>1, <1>2, ResolvedPriceIs
<1> QED
  BY <1>1, <1>2, <1>3, <1>4, <1>5, <1>6

\* The part of a cost: a number exactly when the tokens have a price.
LEMMA ComponentIs ==
  ASSUME NEW count \in Nat, NEW price \in Prices
  PROVE  /\ Component(count, price) \in Prices
         /\ Component(count, price) = NoPrice <=> count # 0 /\ price = NoPrice
         /\ price # NoPrice => Component(count, price) = count * price
<1>1. price # NoPrice => count * price \in Nat
  BY DEF Prices
<1>2. price # NoPrice /\ count = 0 => count * price = 0
  BY DEF Prices
<1> QED
  BY <1>1, <1>2 DEF Component, Prices, NoPrice

\* The multiplier of an instant is a number.
LEMMA MultiplierTyped ==
  ASSUME NEW card \in Cards, NEW at
  PROVE  MultiplierAt(card.periods, at) \in Nat
<1> DEFINE found == {i \in DOMAIN card.periods : at >= card.periods[i].min /\ at < card.periods[i].max}
<1>1. MultiplierAt(card.periods, at) = IF found = {} THEN 1 ELSE card.periods[Min(found)].factor
  BY DEF MultiplierAt
<1>2. card.periods \in Seq(Periods)
  BY DEF Cards
<1>3. found \subseteq DOMAIN card.periods /\ DOMAIN card.periods \subseteq Nat
  BY <1>2
<1>4. ASSUME NEW i \in DOMAIN card.periods PROVE card.periods[i].factor \in Nat
  <2>1. card.periods[i] \in Periods
    BY <1>2
  <2> QED
    BY <2>1 DEF Periods
<1> HIDE DEF found
<1> QED
  BY <1>1, <1>3, <1>4, FirstFound

\* The rounding of a share is no more than the whole.
LEMMA HalfUpBound ==
  ASSUME NEW n \in Nat, NEW part \in Nat, NEW whole \in Nat, whole > 0, part <= whole
  PROVE  HalfUp(n, part, whole) \in 0..n
<1> DEFINE a == n * part * 2 + whole
           b == 2 * whole
<1>1. a \in Nat /\ b \in Nat /\ b > 0
  <2>1. n * part \in Nat
    OBVIOUS
  <2> QED
    BY <2>1
<1>2. n * part <= n * whole
  BY SMTT(30)
<1>3. n * whole \in Nat /\ n * part \in Nat
  OBVIOUS
<1>4. b * n = 2 * (n * whole) /\ a = 2 * (n * part) + whole
  BY SMTT(30)
<1>5. a < b * n + b
  <2>1. a <= 2 * (n * whole) + whole
    BY <1>2, <1>3, <1>4
  <2> QED
    BY <2>1, <1>3, <1>4
<1>6. b * (n + 1) = b * n + b
  BY SMTT(30)
<1> DEFINE q == a \div b
<1>7. q \in Int /\ b * q <= a /\ a < b * (q + 1)
  <2>1. q \in Int /\ a = b * q + (a % b) /\ 0 <= a % b /\ a % b < b
    BY <1>1
  <2>2. b * (q + 1) = b * q + b
    BY <2>1, <1>1, SMTT(30)
  <2> HIDE DEF a, b, q
  <2> QED
    BY <2>1, <2>2, <1>1
<1>8. HalfUp(n, part, whole) = q
  BY DEF HalfUp
<1> HIDE DEF a, b, q
<1>9. b * q < b * (n + 1)
  BY <1>1, <1>5, <1>6, <1>7
<1>10. q < n + 1
  <2>1. ASSUME q >= n + 1 PROVE b * q >= b * (n + 1)
    BY <2>1, <1>1, <1>7, SMTT(30)
  <2> QED
    BY <2>1, <1>1, <1>7, <1>9
<1>11. 0 < q + 1
  <2>1. ASSUME q + 1 <= 0 PROVE b * (q + 1) <= 0
    BY <2>1, <1>1, <1>7, SMTT(30)
  <2> QED
    BY <2>1, <1>1, <1>7
<1> QED
  BY <1>7, <1>8, <1>10, <1>11

\* What an upstream reports.
Usages == [in : Nat, write : Nat, five : Nat, hour : Nat]

\* The lifetimes of writes are numbers of tokens; more than in all are scaled
\* down to all.
LEMMA LifetimesAre ==
  ASSUME NEW u \in Usages
  PROVE  /\ Lifetimes(u).five \in Nat /\ Lifetimes(u).hour \in Nat
         /\ u.write > 0 /\ u.five + u.hour > u.write => Lifetimes(u).five + Lifetimes(u).hour = u.write
         /\ ~(u.write > 0 /\ u.five + u.hour > u.write) => Lifetimes(u).five = u.five /\ Lifetimes(u).hour = u.hour
<1> DEFINE told == u.five + u.hour
           five == HalfUp(u.write, u.five, told)
<1>1. u.write \in Nat /\ u.five \in Nat /\ u.hour \in Nat
  BY DEF Usages
<1>2. Lifetimes(u) = IF u.write > 0 /\ told > u.write
                     THEN [five |-> five, hour |-> u.write - five] ELSE [five |-> u.five, hour |-> u.hour]
  BY DEF Lifetimes
<1>3. CASE u.write > 0 /\ told > u.write
  <2>1. told \in Nat /\ told > 0 /\ u.five <= told
    BY <1>1, <1>3
  <2>2. five \in 0..u.write
    BY <1>1, <2>1, HalfUpBound
  <2>3. Lifetimes(u).five = five /\ Lifetimes(u).hour = u.write - five
    BY <1>2, <1>3
  <2> HIDE DEF five
  <2> QED
    BY <1>1, <1>3, <2>2, <2>3
<1>4. CASE ~(u.write > 0 /\ told > u.write)
  <2>1. Lifetimes(u).five = u.five /\ Lifetimes(u).hour = u.hour
    BY <1>2, <1>4
  <2> QED
    BY <1>1, <1>4, <2>1
<1> QED
  BY <1>3, <1>4

\* The prices that apply to a usage, and whether writes are split by lifetime.
PricesFor(card, u, long) == TokenPrices(card, Interval(card, IF long THEN u.in + u.write ELSE 1))
SplitBy(card, u) ==
    /\ card.hour # NoPrice \/ \E i \in DOMAIN card.tiers : card.tiers[i].hour # NoPrice
    /\ Lifetimes(u).five > 0 \/ Lifetimes(u).hour > 0

\* The three parts of a cost.
Parts(card, u, long) ==
    LET price == PricesFor(card, u, long)
        life == Lifetimes(u)
    IN IF SplitBy(card, u)
       THEN <<Component(u.in, price.in), Component(life.five, price.write), Component(life.hour, price.hour)>>
       ELSE <<Component(u.in, price.in), Component(u.write, price.write), 0>>

\* The cost of tokens is their sum, multiplied; unless one is missing.
LEMMA PriceTokensIs ==
  ASSUME NEW card, NEW u, NEW at, NEW long
  PROVE  PriceTokens(card, u, at, long)
         = IF \E i \in 1..3 : Parts(card, u, long)[i] = NoPrice THEN NoPrice
           ELSE (Parts(card, u, long)[1] + Parts(card, u, long)[2] + Parts(card, u, long)[3]) * MultiplierAt(card.periods, at)
BY DEF PriceTokens, Parts, PricesFor, SplitBy

\* The parts are prices.
LEMMA PartsTyped ==
  ASSUME NEW card \in Cards, NEW u \in Usages, NEW long \in BOOLEAN
  PROVE  /\ Parts(card, u, long)[1] \in Prices /\ Parts(card, u, long)[2] \in Prices /\ Parts(card, u, long)[3] \in Prices
         /\ PricesFor(card, u, long).in \in Prices /\ PricesFor(card, u, long).write \in Prices
         /\ PricesFor(card, u, long).hour \in Prices
         /\ PricesFor(card, u, long).write # NoPrice => PricesFor(card, u, long).hour # NoPrice
<1> DEFINE price == PricesFor(card, u, long)
<1>1. /\ price.in \in Prices /\ price.write \in Prices /\ price.hour \in Prices
      /\ price.write # NoPrice => price.hour # NoPrice
  BY IntervalTyped, TokenPricesTyped DEF PricesFor
<1>2. u.in \in Nat /\ u.write \in Nat /\ Lifetimes(u).five \in Nat /\ Lifetimes(u).hour \in Nat
  BY LifetimesAre DEF Usages
<1>3. 0 \in Prices
  BY DEF Prices
<1>4. CASE SplitBy(card, u)
  <2>1. Parts(card, u, long) = <<Component(u.in, price.in), Component(Lifetimes(u).five, price.write), Component(Lifetimes(u).hour, price.hour)>>
    BY <1>4 DEF Parts
  <2> HIDE DEF price
  <2>2. /\ Component(u.in, price.in) \in Prices
        /\ Component(Lifetimes(u).five, price.write) \in Prices
        /\ Component(Lifetimes(u).hour, price.hour) \in Prices
    BY <1>1, <1>2, ComponentIs
  <2>3. /\ Parts(card, u, long)[1] = Component(u.in, price.in)
        /\ Parts(card, u, long)[2] = Component(Lifetimes(u).five, price.write)
        /\ Parts(card, u, long)[3] = Component(Lifetimes(u).hour, price.hour)
    BY <2>1
  <2> QED
    BY <1>1, <2>2, <2>3 DEF price
<1>5. CASE ~SplitBy(card, u)
  <2>1. Parts(card, u, long) = <<Component(u.in, price.in), Component(u.write, price.write), 0>>
    BY <1>5 DEF Parts
  <2> HIDE DEF price
  <2>2. /\ Component(u.in, price.in) \in Prices
        /\ Component(u.write, price.write) \in Prices
    BY <1>1, <1>2, ComponentIs
  <2>3. /\ Parts(card, u, long)[1] = Component(u.in, price.in)
        /\ Parts(card, u, long)[2] = Component(u.write, price.write)
        /\ Parts(card, u, long)[3] = 0
    BY <2>1
  <2> QED
    BY <1>1, <1>3, <2>2, <2>3 DEF price
<1> QED
  BY <1>4, <1>5

\* Tokens have a cost when none of the parts is missing.
LEMMA TokensPriced ==
  ASSUME NEW card \in Cards, NEW u \in Usages, NEW at, NEW long \in BOOLEAN
  PROVE  PriceTokens(card, u, at, long) # NoPrice
         <=> \A i \in 1..3 : Parts(card, u, long)[i] # NoPrice
<1>1. Parts(card, u, long)[1] \in Prices /\ Parts(card, u, long)[2] \in Prices /\ Parts(card, u, long)[3] \in Prices
  BY PartsTyped
<1>2. MultiplierAt(card.periods, at) \in Nat
  BY MultiplierTyped
<1>3. CASE \A i \in 1..3 : Parts(card, u, long)[i] # NoPrice
  <2>0. PICK a, b, c, k : a = Parts(card, u, long)[1] /\ b = Parts(card, u, long)[2] /\ c = Parts(card, u, long)[3]
                          /\ k = MultiplierAt(card.periods, at)
    OBVIOUS
  <2>1. a \in Nat /\ b \in Nat /\ c \in Nat /\ k \in Nat
    BY <1>1, <1>2, <1>3, <2>0 DEF Prices
  <2>2. (a + b + c) * k \in Nat
    BY <2>1
  <2>3. PriceTokens(card, u, at, long) = (a + b + c) * k
    BY <1>3, <2>0, PriceTokensIs
  <2> QED
    BY <1>3, <2>2, <2>3 DEF NoPrice
<1>4. CASE \E i \in 1..3 : Parts(card, u, long)[i] = NoPrice
  BY <1>4, PriceTokensIs
<1> QED
  BY <1>3, <1>4

\* What the preflight could price, the usage in the same tier can.
LEMMA PreflightPrices ==
  ASSUME NEW card \in SomeCard, NEW u \in Usages, NEW at, NEW long \in BOOLEAN,
         CalculatePrice(card, Probe, at, long) # NoPrice,
         Interval(card, IF long \/ card.mode = "request" THEN u.in + u.write ELSE 1)
           = Interval(card, IF long \/ card.mode = "request" THEN Probe.in + Probe.write ELSE 1)
  PROVE  CalculatePrice(card, u, at, long) # NoPrice
<1>1. card \in Cards /\ card # NoCard
  BY CardsAreNamed DEF CalculatePrice, SomeCard
<1>2. Probe \in Usages /\ Probe.in = 1 /\ Probe.write = 1 /\ Probe.five = 0 /\ Probe.hour = 0
  BY DEF Probe, Usages
<1>3. CASE card.mode = "request"
  <2>1. Interval(card, u.in + u.write) = Interval(card, Probe.in + Probe.write)
    BY <1>3
  <2>2. PriceRequest(card, u) = PriceRequest(card, Probe)
    BY <2>1 DEF PriceRequest
  <2> QED
    BY <1>1, <1>3, <2>2 DEF CalculatePrice
<1>4. CASE card.mode = "token"
  <2>1. CalculatePrice(card, u, at, long) = PriceTokens(card, u, at, long)
        /\ CalculatePrice(card, Probe, at, long) = PriceTokens(card, Probe, at, long)
    BY <1>1, <1>4 DEF CalculatePrice
  <2>2. PricesFor(card, u, long) = PricesFor(card, Probe, long)
    BY <1>4 DEF PricesFor
  <2>3. PICK p : p = PricesFor(card, u, long)
    OBVIOUS
  <2>4. /\ p.in \in Prices /\ p.write \in Prices /\ p.hour \in Prices
        /\ p.write # NoPrice => p.hour # NoPrice
    BY <1>1, <2>3, PartsTyped
  <2>5. ~SplitBy(card, Probe)
    <3>1. Lifetimes(Probe).five = 0 /\ Lifetimes(Probe).hour = 0
      BY <1>2, LifetimesAre
    <3> QED
      BY <3>1 DEF SplitBy
  <2>6. Parts(card, Probe, long) = <<Component(1, p.in), Component(1, p.write), 0>>
    BY <1>2, <2>2, <2>3, <2>5 DEF Parts
  <2>7. Component(1, p.in) # NoPrice /\ Component(1, p.write) # NoPrice
    <3>1. \A i \in 1..3 : Parts(card, Probe, long)[i] # NoPrice
      BY <1>1, <1>2, <2>1, TokensPriced
    <3>2. Parts(card, Probe, long)[1] # NoPrice /\ Parts(card, Probe, long)[2] # NoPrice
      BY <3>1
    <3> QED
      BY <2>6, <3>2
  <2>8. p.in # NoPrice /\ p.write # NoPrice /\ p.hour # NoPrice
    BY <2>4, <2>7, ComponentIs
  <2>9. u.in \in Nat /\ u.write \in Nat /\ Lifetimes(u).five \in Nat /\ Lifetimes(u).hour \in Nat
    BY LifetimesAre DEF Usages
  <2>10. /\ Component(u.in, p.in) # NoPrice /\ Component(u.write, p.write) # NoPrice
         /\ Component(Lifetimes(u).five, p.write) # NoPrice /\ Component(Lifetimes(u).hour, p.hour) # NoPrice
    BY <2>4, <2>8, <2>9, ComponentIs
  <2>11. 0 # NoPrice
    BY DEF NoPrice
  <2>12. \A i \in 1..3 : Parts(card, u, long)[i] # NoPrice
    <3>1. CASE SplitBy(card, u)
      <4>1. Parts(card, u, long) = <<Component(u.in, p.in), Component(Lifetimes(u).five, p.write), Component(Lifetimes(u).hour, p.hour)>>
        BY <2>3, <3>1 DEF Parts
      <4> QED
        BY <2>10, <4>1
    <3>2. CASE ~SplitBy(card, u)
      <4>1. Parts(card, u, long) = <<Component(u.in, p.in), Component(u.write, p.write), 0>>
        BY <2>3, <3>2 DEF Parts
      <4> QED
        BY <2>10, <2>11, <4>1
    <3> QED
      BY <3>1, <3>2
  <2> QED
    BY <1>1, <2>1, <2>12, TokensPriced
<1> QED
  BY <1>1, <1>3, <1>4, CardsAreNamed

\* Under one price for everything, each token is charged once.
LEMMA TokensChargedOnce ==
  ASSUME NEW card \in Cards, NEW u \in Usages, NEW at, NEW long \in BOOLEAN,
         card.in = card.write, card.in = card.hour, card.in # NoPrice, card.tiers = <<>>,
         u.five + u.hour \notin 1..u.write - 1, u.write = 0 => u.five + u.hour = 0
  PROVE  PriceTokens(card, u, at, long) = card.in * (u.in + u.write) * MultiplierAt(card.periods, at)
<1>1. PICK c, n, w, f, h, k : /\ c = card.in /\ n = u.in /\ w = u.write /\ f = Lifetimes(u).five /\ h = Lifetimes(u).hour
                              /\ k = MultiplierAt(card.periods, at)
  OBVIOUS
<1>2. c \in Nat /\ n \in Nat /\ w \in Nat /\ f \in Nat /\ h \in Nat /\ k \in Nat
  BY <1>1, LifetimesAre, MultiplierTyped DEF Cards, Usages, Prices
<1>3. PricesFor(card, u, long).in = c /\ PricesFor(card, u, long).write = c /\ PricesFor(card, u, long).hour = c
  <2>1. Interval(card, IF long THEN u.in + u.write ELSE 1) = NoTier
    BY DEF Interval
  <2>2. PricesFor(card, u, long) = TokenPrices(card, NoTier)
    BY <2>1 DEF PricesFor
  <2>3. ResolvedPrice(c, NoPrice, 1) = c
    BY <1>1, <1>2 DEF ResolvedPrice, NoPrice
  <2>4. NoTier.in = NoPrice /\ NoTier.write = NoPrice /\ NoTier.hour = NoPrice /\ NoTier.factor = 1
    BY DEF NoTier
  <2>5. Or(card.hour, card.write) = c
    BY <1>1 DEF Or
  <2>6. PICK t : t = NoTier
    OBVIOUS
  <2>7. /\ TokenPrices(card, t).in = ResolvedPrice(card.in, t.in, t.factor)
        /\ TokenPrices(card, t).write = ResolvedPrice(card.write, t.write, t.factor)
        /\ t.write = NoPrice => TokenPrices(card, t).hour = ResolvedPrice(Or(card.hour, card.write), t.hour, t.factor)
    BY DEF TokenPrices
  <2> QED
    BY <1>1, <2>2, <2>3, <2>4, <2>5, <2>6, <2>7
<1>4. c # NoPrice
  BY <1>1
<1>5. c \in Prices
  BY <1>2 DEF Prices
<1>6. Component(n, c) = n * c /\ Component(w, c) = w * c /\ Component(f, c) = f * c /\ Component(h, c) = h * c
  BY <1>2, <1>4, <1>5, ComponentIs
<1>7. n * c \in Nat /\ w * c \in Nat /\ f * c \in Nat /\ h * c \in Nat
  BY <1>2
<1>8. CASE SplitBy(card, u)
  <2>1. f + h = w
    <3>1. f > 0 \/ h > 0
      BY <1>1, <1>8 DEF SplitBy
    <3>2. u.write \in Nat /\ u.five \in Nat /\ u.hour \in Nat
      BY DEF Usages
    <3>3. CASE u.write > 0 /\ u.five + u.hour > u.write
      BY <1>1, <3>3, LifetimesAre
    <3>4. CASE ~(u.write > 0 /\ u.five + u.hour > u.write)
      <4>1. f = u.five /\ h = u.hour
        BY <1>1, <3>4, LifetimesAre
      <4> QED
        BY <1>1, <3>1, <3>2, <3>4, <4>1
    <3> QED
      BY <3>3, <3>4
  <2>2. Parts(card, u, long) = <<n * c, f * c, h * c>>
    BY <1>1, <1>3, <1>6, <1>8 DEF Parts
  <2>3. PriceTokens(card, u, at, long) = (n * c + f * c + h * c) * k
    <3>1. \A i \in 1..3 : Parts(card, u, long)[i] # NoPrice
      BY <1>7, <2>2 DEF NoPrice
    <3> QED
      BY <1>1, <2>2, <3>1, PriceTokensIs
  <2>4. n * c + f * c + h * c = c * (n + w)
    <3>1. n * c + f * c + h * c = c * (n + (f + h))
      BY <1>2, SMTT(30)
    <3> QED
      BY <2>1, <3>1
  <2> QED
    BY <1>1, <2>3, <2>4
<1>9. CASE ~SplitBy(card, u)
  <2>1. Parts(card, u, long) = <<n * c, w * c, 0>>
    BY <1>1, <1>3, <1>6, <1>9 DEF Parts
  <2>2. PriceTokens(card, u, at, long) = (n * c + w * c + 0) * k
    <3>1. \A i \in 1..3 : Parts(card, u, long)[i] # NoPrice
      BY <1>7, <2>1 DEF NoPrice
    <3> QED
      BY <1>1, <2>1, <3>1, PriceTokensIs
  <2>3. n * c + w * c + 0 = c * (n + w)
    BY <1>2, SMTT(30)
  <2> QED
    BY <1>1, <2>2, <2>3
<1> QED
  BY <1>8, <1>9

\* Spans in a row that do not overlap their neighbours overlap none.
LEMMA NeighboursSuffice ==
  ASSUME NEW n \in Nat, NEW lo \in [1..n -> Int], NEW hi \in [1..n -> Int],
         \A k \in 1..n : k < n => lo[k] < hi[k],
         \A k \in 1..n : k > 1 => hi[k - 1] <= lo[k],
         NEW a \in 1..n, NEW b \in 1..n, a < b
  PROVE  hi[a] <= lo[b]
<1> SUFFICES ASSUME ~(hi[a] <= lo[b]) PROVE FALSE
  OBVIOUS
<1> DEFINE T == {k \in 1..n : a < k /\ ~(hi[a] <= lo[k])}
<1>1. PICK k \in T : \A m \in T : k <= m
  <2>1. b \in T
    OBVIOUS
  <2>2. T \subseteq 1..n /\ 1..n \subseteq Nat
    OBVIOUS
  <2> HIDE DEF T
  <2>3. T \subseteq Nat /\ T # {}
    BY <2>1, <2>2
  <2> QED
    BY <2>3, LeastNumber
<1>2. k - 1 \in 1..n /\ k > 1 /\ k \in 1..n /\ k - 1 < n /\ a < k /\ a \in Int /\ k \in Int
  BY <1>1
<1>3. hi[k - 1] <= lo[k]
  BY <1>2
<1>4. CASE a = k - 1
  BY <1>1, <1>3, <1>4
<1>5. CASE a # k - 1
  <2>1. a < k - 1
    BY <1>2, <1>5
  <2>2. k - 1 \notin T
    BY <1>1, <1>2
  <2>3. hi[a] <= lo[k - 1]
    BY <1>2, <2>1, <2>2
  <2>4. lo[k - 1] < hi[k - 1]
    BY <1>2
  <2>5. hi[a] \in Int /\ lo[k - 1] \in Int /\ hi[k - 1] \in Int /\ lo[k] \in Int
    BY <1>2
  <2>6. hi[a] <= lo[k]
    BY <1>3, <2>3, <2>4, <2>5
  <2> QED
    BY <1>1, <2>6
<1> QED
  BY <1>4, <1>5

\* No context is in two tiers of a valid card.
LEMMA TiersApart ==
  ASSUME NEW tiers \in Seq(Tiers), ValidTiers(tiers), NEW i \in DOMAIN tiers, NEW j \in DOMAIN tiers, NEW x \in Int,
         InTier(tiers[i], x), InTier(tiers[j], x)
  PROVE  i = j
<1> DEFINE n == Len(tiers)
<1>1. n \in Nat /\ DOMAIN tiers = 1..n /\ \A k \in 1..n : tiers[k].min \in Int /\ tiers[k].max \in Int
  <2>1. ASSUME NEW k \in 1..n PROVE tiers[k].min \in Int /\ tiers[k].max \in Int
    <3>1. tiers[k] \in Tiers
      OBVIOUS
    <3> QED
      BY <3>1 DEF Tiers
  <2>2. n \in Nat /\ DOMAIN tiers = 1..n
    OBVIOUS
  <2> QED
    BY <2>1, <2>2
<1>2. PICK p \in Bijection(1..n, 1..n) :
        \A k \in 1..n :
            /\ tiers[p[k]].max = NoMax \/ tiers[p[k]].max > tiers[p[k]].min
            /\ k > 1 => tiers[p[k - 1]].max # NoMax /\ tiers[p[k - 1]].max <= tiers[p[k]].min
  BY <1>1 DEF ValidTiers, Sortings
<1>3. p \in [1..n -> 1..n] /\ \A k \in 1..n : \E a \in 1..n : p[a] = k
  BY DEF Bijection, Injection, Surjection
<1> HIDE DEF n
<1> DEFINE lo == [k \in 1..n |-> tiers[p[k]].min]
           hi == [k \in 1..n |-> tiers[p[k]].max]
<1>4. lo \in [1..n -> Int] /\ hi \in [1..n -> Int]
  BY <1>1, <1>3
<1>5. \A k \in 1..n : k < n => hi[k] # NoMax /\ lo[k] < hi[k]
  <2> SUFFICES ASSUME NEW k \in 1..n, k < n PROVE hi[k] # NoMax /\ lo[k] < hi[k]
    OBVIOUS
  <2>1. k + 1 \in 1..n /\ k + 1 > 1 /\ (k + 1) - 1 = k
    BY <1>1
  <2>2. tiers[p[k]].max # NoMax
    BY <1>2, <2>1
  <2>3. tiers[p[k]].max > tiers[p[k]].min
    BY <1>2, <2>2
  <2>4. tiers[p[k]].max \in Int /\ tiers[p[k]].min \in Int
    BY <1>1, <1>3
  <2> QED
    BY <2>2, <2>3, <2>4
<1>6. \A k \in 1..n : k > 1 => hi[k - 1] <= lo[k]
  <2> SUFFICES ASSUME NEW k \in 1..n, k > 1 PROVE hi[k - 1] <= lo[k]
    OBVIOUS
  <2>1. k - 1 \in 1..n
    BY <1>1
  <2> QED
    BY <1>2, <2>1
<1>7. PICK a \in 1..n, b \in 1..n : p[a] = i /\ p[b] = j
  BY <1>1, <1>3
<1> HIDE DEF lo, hi
<1>8. ASSUME NEW c \in 1..n, NEW d \in 1..n, c < d PROVE hi[c] # NoMax /\ hi[c] <= lo[d]
  <2>1. c < n
    BY <1>1, <1>8
  <2>2. hi[c] <= lo[d]
    BY <1>1, <1>4, <1>5, <1>6, <1>8, NeighboursSuffice
  <2> QED
    BY <1>5, <2>1, <2>2
<1>9. /\ x > lo[a] /\ (hi[a] = NoMax \/ x <= hi[a]) /\ x > lo[b] /\ (hi[b] = NoMax \/ x <= hi[b])
      /\ lo[a] \in Int /\ lo[b] \in Int /\ hi[a] \in Int /\ hi[b] \in Int
  BY <1>4, <1>7 DEF InTier, lo, hi
<1>10. ~(a < b)
  BY <1>8, <1>9
<1>11. ~(b < a)
  BY <1>8, <1>9
<1>12. a = b
  BY <1>1, <1>10, <1>11
<1> QED
  BY <1>7, <1>12

\* No instant is in two periods of a valid card.
LEMMA PeriodsApart ==
  ASSUME NEW periods \in Seq(Periods), ValidPeriods(periods), NEW i \in DOMAIN periods, NEW j \in DOMAIN periods, NEW x \in Int,
         x >= periods[i].min, x < periods[i].max, x >= periods[j].min, x < periods[j].max
  PROVE  i = j
<1> DEFINE n == Len(periods)
<1>1. n \in Nat /\ DOMAIN periods = 1..n /\ \A k \in 1..n : periods[k].min \in Int /\ periods[k].max \in Int
  <2>1. ASSUME NEW k \in 1..n PROVE periods[k].min \in Int /\ periods[k].max \in Int
    <3>1. periods[k] \in Periods
      OBVIOUS
    <3> QED
      BY <3>1 DEF Periods
  <2>2. n \in Nat /\ DOMAIN periods = 1..n
    OBVIOUS
  <2> QED
    BY <2>1, <2>2
<1>2. PICK p \in Bijection(1..n, 1..n) :
        \A k \in 1..n :
            /\ periods[p[k]].min < periods[p[k]].max
            /\ k > 1 => periods[p[k]].min >= periods[p[k - 1]].max
  BY <1>1 DEF ValidPeriods, Sortings
<1>3. p \in [1..n -> 1..n] /\ \A k \in 1..n : \E a \in 1..n : p[a] = k
  BY DEF Bijection, Injection, Surjection
<1> HIDE DEF n
<1> DEFINE lo == [k \in 1..n |-> periods[p[k]].min]
           hi == [k \in 1..n |-> periods[p[k]].max]
<1>4. lo \in [1..n -> Int] /\ hi \in [1..n -> Int]
  BY <1>1, <1>3
<1>5. \A k \in 1..n : k < n => lo[k] < hi[k]
  BY <1>2
<1>6. \A k \in 1..n : k > 1 => hi[k - 1] <= lo[k]
  <2> SUFFICES ASSUME NEW k \in 1..n, k > 1 PROVE hi[k - 1] <= lo[k]
    OBVIOUS
  <2>1. k - 1 \in 1..n
    BY <1>1
  <2>2. periods[p[k]].min \in Int /\ periods[p[k - 1]].max \in Int
    BY <1>1, <1>3, <2>1
  <2>3. periods[p[k]].min >= periods[p[k - 1]].max
    BY <1>2
  <2> QED
    BY <2>1, <2>2, <2>3
<1>7. PICK a \in 1..n, b \in 1..n : p[a] = i /\ p[b] = j
  BY <1>1, <1>3
<1> HIDE DEF lo, hi
<1>8. ASSUME NEW c \in 1..n, NEW d \in 1..n, c < d PROVE hi[c] <= lo[d]
  BY <1>1, <1>4, <1>5, <1>6, <1>8, NeighboursSuffice
<1>9. /\ x >= lo[a] /\ x < hi[a] /\ x >= lo[b] /\ x < hi[b]
      /\ lo[a] \in Int /\ lo[b] \in Int /\ hi[a] \in Int /\ hi[b] \in Int
  BY <1>4, <1>7 DEF lo, hi
<1>10. ~(a < b)
  BY <1>8, <1>9
<1>11. ~(b < a)
  BY <1>8, <1>9
<1>12. a = b
  BY <1>1, <1>10, <1>11
<1> QED
  BY <1>7, <1>12

\* A catalog with other prices for tokens.
OtherPrices(e, p) == [e EXCEPT !.card.in = p, !.card.write = p, !.card.hour = p]
Repriced(catalog, p) == {OtherPrices(e, p) : e \in catalog}

\* Two cards that differ in the prices of tokens at most.
Alike(a, b) ==
    \/ a = NoCard /\ b = NoCard
    \/ a \in Cards /\ b \in Cards /\ a.mode = b.mode /\ a.tiers = b.tiers

\* Other prices change nothing else of an entry.
LEMMA OtherPricesAre ==
  ASSUME NEW e \in [platform : STRING, name : STRING, card : Cards], NEW p \in Nat
  PROVE  /\ OtherPrices(e, p).platform = e.platform /\ OtherPrices(e, p).name = e.name
         /\ Alike(e.card, OtherPrices(e, p).card)
<1> DEFINE c == [e.card EXCEPT !.in = p, !.write = p, !.hour = p]
<1>1. e.card \in Cards /\ p \in Prices
  BY DEF Prices
<1>2. c \in Cards /\ c.mode = e.card.mode /\ c.tiers = e.card.tiers
  BY <1>1 DEF Cards
<1>3. OtherPrices(e, p).platform = e.platform /\ OtherPrices(e, p).name = e.name /\ OtherPrices(e, p).card = c
  BY DEF OtherPrices
<1> HIDE DEF c
<1> QED
  BY <1>1, <1>2, <1>3 DEF Alike

\* Looked up on a platform, the card differs in the prices of tokens at most.
LEMMA LookupOnRepriced ==
  ASSUME NEW catalog \in PrFiles, ValidCatalog(catalog), NEW platform, NEW model \in PrModels, NEW p \in Nat
  PROVE  Alike(LookupOn(catalog, platform, model), LookupOn(Repriced(catalog, p), platform, model))
<1> DEFINE names == PrNames(model)
           Entry(i) == {e \in catalog : e.platform = platform /\ e.name = names[i]}
           Other(i) == {e \in Repriced(catalog, p) : e.platform = platform /\ e.name = names[i]}
           found == {i \in DOMAIN names : Entry(i) # {}}
           other == {i \in DOMAIN names : Other(i) # {}}
<1>1. LookupOn(catalog, platform, model) = IF found = {} THEN NoCard ELSE (CHOOSE e \in Entry(Min(found)) : TRUE).card
  BY DEF LookupOn
<1>2. LookupOn(Repriced(catalog, p), platform, model) = IF other = {} THEN NoCard ELSE (CHOOSE e \in Other(Min(other)) : TRUE).card
  BY DEF LookupOn
<1>3. \A e \in catalog : /\ OtherPrices(e, p).platform = e.platform /\ OtherPrices(e, p).name = e.name
                         /\ Alike(e.card, OtherPrices(e, p).card)
  BY PrAssumption, OtherPricesAre
<1>4. \A i \in DOMAIN names : \A f : f \in Other(i) <=> \E e \in Entry(i) : f = OtherPrices(e, p)
  BY <1>3 DEF Repriced
<1>5. other = found
  BY <1>4
<1>6. CASE found = {}
  BY <1>1, <1>2, <1>5, <1>6 DEF Alike
<1>7. CASE found # {}
  <2>1. PICK k : k = Min(found)
    OBVIOUS
  <2>2. k \in found
    <3>1. found \subseteq Nat
      BY PrAssumption
    <3> QED
      BY <1>7, <2>1, <3>1, FirstFound
  <2>3. PICK e \in Entry(k) : TRUE
    BY <2>2
  <2>4. \A f \in Entry(k) : f = e
    BY <2>3 DEF ValidCatalog
  <2>5. \A f \in Other(k) : f = OtherPrices(e, p)
    BY <1>4, <2>2, <2>4
  <2>6. OtherPrices(e, p) \in Other(k)
    BY <1>4, <2>2, <2>3
  <2>7. (CHOOSE f \in Entry(k) : TRUE) = e
    BY <2>3, <2>4
  <2>8. (CHOOSE f \in Other(k) : TRUE) = OtherPrices(e, p)
    BY <2>5, <2>6
  <2>9. e \in catalog
    BY <2>3
  <2> HIDE DEF Entry, Other, found, other
  <2> QED
    BY <1>1, <1>2, <1>3, <1>5, <1>7, <2>1, <2>7, <2>8, <2>9
<1> QED
  BY <1>6, <1>7

\* The same on any platform.
LEMMA LookupAnyRepriced ==
  ASSUME NEW catalog \in PrFiles, ValidCatalog(catalog), NEW model \in PrModels, NEW p \in Nat
  PROVE  Alike(LookupAny(catalog, model), LookupAny(Repriced(catalog, p), model))
<1> DEFINE names == PrNames(model)
           Entries(i) == {e \in catalog : e.name = names[i]}
           Others(i) == {e \in Repriced(catalog, p) : e.name = names[i]}
           found == {i \in DOMAIN names : Entries(i) # {}}
           other == {i \in DOMAIN names : Others(i) # {}}
<1>1. LookupAny(catalog, model) = IF found = {} \/ (\E e, f \in Entries(Min(found)) : e # f) THEN NoCard
                                  ELSE (CHOOSE e \in Entries(Min(found)) : TRUE).card
  BY DEF LookupAny
<1>2. LookupAny(Repriced(catalog, p), model) = IF other = {} \/ (\E e, f \in Others(Min(other)) : e # f) THEN NoCard
                                               ELSE (CHOOSE e \in Others(Min(other)) : TRUE).card
  BY DEF LookupAny
<1>3. \A e \in catalog : /\ OtherPrices(e, p).platform = e.platform /\ OtherPrices(e, p).name = e.name
                         /\ Alike(e.card, OtherPrices(e, p).card)
  BY PrAssumption, OtherPricesAre
<1>4. \A i \in DOMAIN names : \A f : f \in Others(i) <=> \E e \in Entries(i) : f = OtherPrices(e, p)
  BY <1>3 DEF Repriced
<1>5. other = found
  BY <1>4
<1>6. CASE found = {}
  BY <1>1, <1>2, <1>5, <1>6 DEF Alike
<1>7. CASE found # {}
  <2>1. PICK k : k = Min(found)
    OBVIOUS
  <2>2. k \in found
    <3>1. found \subseteq Nat
      BY PrAssumption
    <3> QED
      BY <1>7, <2>1, <3>1, FirstFound
  <2>3. PICK e \in Entries(k) : TRUE
    BY <2>2
  <2>4. e \in catalog /\ OtherPrices(e, p) \in Others(k)
    BY <1>4, <2>2, <2>3
  <2>5. CASE \E f \in Entries(k) : f # e
    <3>1. PICK f \in Entries(k) : f # e
      BY <2>5
    <3>2. f \in catalog /\ OtherPrices(f, p) \in Others(k)
      BY <1>4, <2>2, <3>1
    <3>3. e.name = f.name
      BY <2>3, <3>1
    <3>4. e.platform # f.platform
      BY <2>4, <3>1, <3>2, <3>3 DEF ValidCatalog
    <3>5. OtherPrices(e, p) # OtherPrices(f, p)
      BY <1>3, <2>4, <3>2, <3>4
    <3> HIDE DEF Entries, Others, found, other
    <3>6. LookupAny(catalog, model) = NoCard
      BY <1>1, <2>1, <2>3, <3>1
    <3>7. LookupAny(Repriced(catalog, p), model) = NoCard
      BY <1>2, <1>5, <2>1, <2>4, <3>2, <3>5
    <3> QED
      BY <3>6, <3>7 DEF Alike
  <2>6. CASE \A f \in Entries(k) : f = e
    <3>1. \A f \in Others(k) : f = OtherPrices(e, p)
      BY <1>4, <2>2, <2>6
    <3>2. (CHOOSE f \in Entries(k) : TRUE) = e
      BY <2>3, <2>6
    <3>3. (CHOOSE f \in Others(k) : TRUE) = OtherPrices(e, p)
      BY <2>4, <3>1
    <3> HIDE DEF Entries, Others, found, other
    <3>4. LookupAny(catalog, model) = e.card
      BY <1>1, <1>7, <2>1, <2>6, <3>2
    <3>5. LookupAny(Repriced(catalog, p), model) = OtherPrices(e, p).card
      BY <1>2, <1>5, <1>7, <2>1, <3>1, <3>3
    <3> QED
      BY <1>3, <2>4, <3>4, <3>5
  <2> QED
    BY <2>5, <2>6
<1> QED
  BY <1>6, <1>7

\* A card with its own prices for input and writes inherits the same of both.
LEMMA ResolvedRepriced ==
  ASSUME NEW catalog \in PrFiles, ValidCatalog(catalog), NEW custom \in Cards, NEW model \in PrModels, NEW p \in Nat,
         custom.mode = "token", custom.in # NoPrice, custom.write # NoPrice
  PROVE  ResolvedModelPrice(Repriced(catalog, p), custom, model) = ResolvedModelPrice(catalog, custom, model)
<1> DEFINE Base(c) == IF LookupOn(c, PrPlatform, model) # NoCard THEN LookupOn(c, PrPlatform, model) ELSE LookupAny(c, model)
<1>1. Alike(Base(catalog), Base(Repriced(catalog, p)))
  <2>1. PICK a, b, c, d : /\ a = LookupOn(catalog, PrPlatform, model) /\ b = LookupOn(Repriced(catalog, p), PrPlatform, model)
                          /\ c = LookupAny(catalog, model) /\ d = LookupAny(Repriced(catalog, p), model)
    OBVIOUS
  <2>2. Alike(a, b) /\ Alike(c, d)
    BY <2>1, LookupOnRepriced, LookupAnyRepriced
  <2>3. a = NoCard <=> b = NoCard
    BY <2>2, CardsAreNamed DEF Alike
  <2>4. Base(catalog) = (IF a # NoCard THEN a ELSE c) /\ Base(Repriced(catalog, p)) = (IF b # NoCard THEN b ELSE d)
    BY <2>1
  <2> HIDE DEF Base
  <2> QED
    BY <2>2, <2>3, <2>4
<1>2. \A c : ResolvedModelPrice(c, custom, model) =
        CASE custom = NoCard -> Base(c)
          [] custom # NoCard /\ (custom.mode # "token" \/ Base(c).mode # "token") -> custom
          [] OTHER -> Inherit(custom, Base(c))
  BY DEF ResolvedModelPrice
<1> HIDE DEF Base
<1>3. custom # NoCard
  BY CardsAreNamed
<1>4. Base(catalog).mode = Base(Repriced(catalog, p)).mode
  BY <1>1 DEF Alike
<1>5. CASE Base(catalog).mode # "token"
  BY <1>2, <1>3, <1>4, <1>5
<1>6. CASE Base(catalog).mode = "token"
  <2>1. PICK a, b : a = Base(catalog) /\ b = Base(Repriced(catalog, p))
    OBVIOUS
  <2>2. a.tiers = b.tiers
    BY <1>1, <1>6, <2>1, CardsAreNamed DEF Alike
  <2>3. /\ Or(custom.in, a.in) = custom.in /\ Or(custom.in, b.in) = custom.in
        /\ Or(custom.write, a.write) = custom.write /\ Or(custom.write, b.write) = custom.write
        /\ Or(custom.write, a.hour) = custom.write /\ Or(custom.write, b.hour) = custom.write
    BY DEF Or
  <2>4. Inherit(custom, a) = Inherit(custom, b)
    BY <2>2, <2>3 DEF Inherit
  <2> QED
    BY <1>2, <1>3, <1>4, <1>6, <2>1, <2>4
<1> QED
  BY <1>5, <1>6

\* Where the deciding card prices input and writes, other reference prices
\* give the same card.
LEMMA EffectiveRepriced ==
  ASSUME NEW catalog \in PrFiles, ValidCatalog(catalog), NEW group \in PrGroups \cup {<<>>}, NEW channel \in PrChannels,
         NEW model \in PrModels, NEW p \in Nat, NEW card,
         card = IF GroupModelPrice(group, model) # NoCard THEN GroupModelPrice(group, model) ELSE MatchPrice(channel.cards, model),
         card.mode = "token", card.in # NoPrice, card.write # NoPrice
  PROVE  EffectiveModelPrice(Repriced(catalog, p), group, channel, model) = EffectiveModelPrice(catalog, group, channel, model)
<1>1. PICK own, below : own = GroupModelPrice(group, model) /\ below = MatchPrice(channel.cards, model)
  OBVIOUS
<1>2. own \in SomeCard
  <2>1. group \in Seq(Cards)
    <3>1. <<>> \in Seq(Cards)
      OBVIOUS
    <3>2. \A g \in PrGroups : g \in Seq(Cards)
      BY PrAssumption
    <3> QED
      BY <3>1, <3>2
  <2> QED
    BY <1>1, <2>1, GroupPriceTyped
<1>3. below \in SomeCard
  <2>1. channel.cards \in SUBSET Cards
    BY PrAssumption
  <2> QED
    BY <1>1, <2>1, MatchPriceTyped
<1>4. \A c : EffectiveModelPrice(c, group, channel, model)
      = IF channel.restrict /\ below = NoCard THEN NoCard
        ELSE IF own = NoCard THEN ResolvedModelPrice(c, below, model)
        ELSE ResolvedModelPrice(c, IF own.mode = "token" THEN [own EXCEPT !.tiers = <<>>] ELSE own, model)
  BY <1>1 DEF EffectiveModelPrice
<1>5. CASE own # NoCard
  <2>1. own = card /\ own \in Cards
    BY <1>1, <1>2, <1>5 DEF SomeCard
  <2>2. PICK flat : flat = [own EXCEPT !.tiers = <<>>]
    OBVIOUS
  <2>3. flat \in Cards /\ flat.mode = "token" /\ flat.in # NoPrice /\ flat.write # NoPrice
    BY <2>1, <2>2, FlatTyped
  <2>4. ResolvedModelPrice(Repriced(catalog, p), flat, model) = ResolvedModelPrice(catalog, flat, model)
    BY <2>3, ResolvedRepriced
  <2> QED
    BY <1>4, <1>5, <2>1, <2>2, <2>4
<1>6. CASE own = NoCard
  <2>1. below = card /\ below \in Cards
    BY <1>1, <1>3, <1>6, CardsAreNamed DEF SomeCard
  <2>2. ResolvedModelPrice(Repriced(catalog, p), below, model) = ResolvedModelPrice(catalog, below, model)
    BY <2>1, ResolvedRepriced
  <2> QED
    BY <1>4, <1>6, <2>2
<1> QED
  BY <1>5, <1>6

\* With a card of the group and no restriction, the channel's have no say.
LEMMA GroupDecides ==
  ASSUME NEW catalog, NEW group, NEW c, NEW d, NEW model, GroupModelPrice(group, model) # NoCard, ~c.restrict, ~d.restrict
  PROVE  EffectiveModelPrice(catalog, group, c, model) = EffectiveModelPrice(catalog, group, d, model)
BY DEF EffectiveModelPrice

\* What the request is, by its phase: it keeps a valid catalog of the file and
\* the cards it was admitted with, whose price for the probe there was; its
\* quote and its cost are what these make of a usage.
RequestInv ==
    /\ prReq.phase \in {"idle", "refused", "begun", "selected", "settled"}
    /\ prReq.phase \in {"begun", "selected", "settled"} =>
          /\ prReq.model \in PrModels /\ prReq.long \in BOOLEAN
          /\ prReq.catalog \in PrFiles /\ ValidCatalog(prReq.catalog)
    /\ prReq.phase \in {"selected", "settled"} =>
          /\ prReq.group \in PrGroups \cup {<<>>} /\ prReq.channel \in PrChannels
          /\ Cost(prReq, prReq.model, Probe) # NoPrice
          /\ \A u \in PrUsages : prReq.quote[u] = Cost(prReq, prReq.model, u)
    /\ prReq.phase = "settled" =>
          /\ prReq.billed \in PrModels /\ prReq.usage \in PrUsages
          /\ prReq.cost = Cost(prReq, prReq.billed, prReq.usage)
          /\ prReq = [phase |-> prReq.phase, model |-> prReq.model, long |-> prReq.long, at |-> prReq.at,
                      catalog |-> prReq.catalog, group |-> prReq.group, channel |-> prReq.channel, quote |-> prReq.quote,
                      billed |-> prReq.billed, usage |-> prReq.usage, cost |-> prReq.cost]

PricesInv ==
    /\ prCatalog \in PrFiles /\ ValidCatalog(prCatalog)
    /\ prFile \in PrFiles
    /\ prChannel \in PrChannels /\ ValidCards(prChannel.cards)
    /\ prGroup \in PrGroups \cup {<<>>}
    /\ RequestInv

\* Two requests with the same catalog, cards, hour and context are priced alike.
LEMMA CostDepends ==
  ASSUME NEW r, NEW q, NEW model, NEW u,
         r.catalog = q.catalog, r.group = q.group, r.channel = q.channel, r.at = q.at, r.long = q.long
  PROVE  Cost(r, model, u) = Cost(q, model, u)
BY DEF Cost

\* Initially a valid file is loaded and nothing is asked.
LEMMA PricesInit == PrInit => PricesInv
<1> SUFFICES ASSUME PrInit PROVE PricesInv
  OBVIOUS
<1>1. prReq.phase = "idle"
  BY DEF PrInit, Idle
<1>2. RequestInv
  BY <1>1 DEF RequestInv
<1> QED
  BY <1>2 DEF PrInit, PricesInv

\* A step that leaves the request alone keeps what it is.
LEMMA RequestKept ==
  ASSUME RequestInv, UNCHANGED prReq
  PROVE  RequestInv'
BY DEF RequestInv, Cost

\* A selected account is one whose cards price the probe; it is quoted.
LEMMA SelectKeeps == ASSUME PricesInv, SelectAccount PROVE RequestInv'
<1>1. PICK r : r = [phase |-> "selected", model |-> prReq.model, long |-> prReq.long, at |-> prReq.at,
                    catalog |-> prReq.catalog, group |-> prGroup, channel |-> prChannel]
  OBVIOUS
<1>2. PICK q : q = [phase |-> "selected", model |-> r.model, long |-> r.long, at |-> r.at,
                    catalog |-> r.catalog, group |-> prGroup, channel |-> prChannel,
                    quote |-> [u \in PrUsages |-> Cost(r, r.model, u)]]
  OBVIOUS
<1>3. prReq' = IF Cost(r, r.model, Probe) = NoPrice THEN [phase |-> "refused"] ELSE q
  BY <1>1, <1>2 DEF SelectAccount
<1>4. CASE Cost(r, r.model, Probe) = NoPrice
  <2>1. prReq'.phase = "refused"
    BY <1>3, <1>4
  <2> QED
    BY <2>1 DEF RequestInv
<1>5. CASE Cost(r, r.model, Probe) # NoPrice
  <2>1. prReq' = q
    BY <1>3, <1>5
  <2>2. /\ q.phase = "selected" /\ q.model = prReq.model /\ q.long = prReq.long /\ q.catalog = prReq.catalog
        /\ q.group = prGroup /\ q.channel = prChannel /\ q.at = r.at /\ q.model = r.model /\ q.catalog = r.catalog
        /\ q.group = r.group /\ q.channel = r.channel /\ q.long = r.long
        /\ q.quote = [u \in PrUsages |-> Cost(r, r.model, u)]
    BY <1>1, <1>2
  <2>3. \A u : Cost(q, q.model, u) = Cost(r, r.model, u)
    BY <2>2, CostDepends
  <2>4. prReq.phase \in {"begun", "selected"}
    BY DEF SelectAccount
  <2>5. /\ q.model \in PrModels /\ q.long \in BOOLEAN /\ q.catalog \in PrFiles /\ ValidCatalog(q.catalog)
        /\ q.group \in PrGroups \cup {<<>>} /\ q.channel \in PrChannels
    BY <2>2, <2>4 DEF PricesInv, RequestInv
  <2>6. Cost(q, q.model, Probe) # NoPrice /\ \A u \in PrUsages : q.quote[u] = Cost(q, q.model, u)
    BY <1>5, <2>2, <2>3
  <2> QED
    BY <2>1, <2>2, <2>5, <2>6 DEF RequestInv
<1> QED
  BY <1>4, <1>5

\* A receipt keeps what the request was quoted with.
LEMMA ReceiptKeeps ==
  ASSUME PricesInv, NEW u \in PrUsages, NEW response \in PrModels \cup {""}, PriceReceipt(u, response)
  PROVE  RequestInv'
<1>1. PICK billed : billed = BilledModel(prReq, response)
  OBVIOUS
<1>2. PICK q : q = [phase |-> "settled", model |-> prReq.model, long |-> prReq.long, at |-> prReq.at,
                    catalog |-> prReq.catalog, group |-> prReq.group, channel |-> prReq.channel, quote |-> prReq.quote,
                    billed |-> billed, usage |-> u, cost |-> Cost(prReq, billed, u)]
  OBVIOUS
<1>3. prReq' = q /\ prReq.phase = "selected"
  BY <1>1, <1>2 DEF PriceReceipt
<1>4. /\ q.phase = "settled" /\ q.model = prReq.model /\ q.long = prReq.long /\ q.catalog = prReq.catalog /\ q.at = prReq.at
      /\ q.group = prReq.group /\ q.channel = prReq.channel /\ q.quote = prReq.quote
      /\ q.billed = billed /\ q.usage = u /\ q.cost = Cost(prReq, billed, u)
  BY <1>2
<1>5. ASSUME NEW m, NEW v PROVE Cost(q, m, v) = Cost(prReq, m, v)
  BY <1>4 DEF Cost
<1>6. /\ prReq.model \in PrModels /\ prReq.long \in BOOLEAN /\ prReq.catalog \in PrFiles /\ ValidCatalog(prReq.catalog)
      /\ prReq.group \in PrGroups \cup {<<>>} /\ prReq.channel \in PrChannels
      /\ Cost(prReq, prReq.model, Probe) # NoPrice
      /\ \A v \in PrUsages : prReq.quote[v] = Cost(prReq, prReq.model, v)
  BY <1>3 DEF PricesInv, RequestInv
<1>7. billed \in PrModels
  BY <1>1, <1>6 DEF BilledModel
<1>8. Cost(q, q.model, Probe) # NoPrice /\ \A v \in PrUsages : q.quote[v] = Cost(q, q.model, v)
  <2>1. Cost(q, q.model, Probe) = Cost(prReq, prReq.model, Probe)
    BY <1>4, <1>5, ZenonT(40)
  <2>2. ASSUME NEW v \in PrUsages PROVE q.quote[v] = Cost(q, q.model, v)
    <3>1. Cost(q, q.model, v) = Cost(prReq, prReq.model, v)
      BY <1>4, <1>5, ZenonT(40)
    <3> QED
      BY <1>4, <1>6, <3>1
  <2> QED
    BY <1>6, <2>1, <2>2
<1>9. q.cost = Cost(q, q.billed, q.usage)
  <2>1. Cost(q, billed, u) = Cost(prReq, billed, u)
    BY <1>5
  <2> QED
    BY <1>4, <2>1
<1>10. q = [phase |-> q.phase, model |-> q.model, long |-> q.long, at |-> q.at,
            catalog |-> q.catalog, group |-> q.group, channel |-> q.channel, quote |-> q.quote,
            billed |-> q.billed, usage |-> q.usage, cost |-> q.cost]
  BY <1>2
<1> QED
  BY <1>3, <1>4, <1>6, <1>7, <1>8, <1>9, <1>10 DEF RequestInv

\* Every step keeps the invariant.
LEMMA PricesStep == PricesInv /\ [PrNext]_prVars => PricesInv'
<1> SUFFICES ASSUME PricesInv, [PrNext]_prVars PROVE PricesInv'
  OBVIOUS
<1>1. CASE EditPrices
  <2>1. RequestInv'
    BY <1>1, RequestKept DEF EditPrices, PricesInv
  <2>2. UNCHANGED prCatalog
    BY <1>1 DEF EditPrices
  <2>3. prFile' \in PrFiles
    BY <1>1 DEF EditPrices, PricesInv
  <2>4. prChannel' \in PrChannels /\ ValidCards(prChannel'.cards)
    BY <1>1 DEF EditPrices, PricesInv
  <2>5. prGroup' \in PrGroups \cup {<<>>}
    BY <1>1 DEF EditPrices, PricesInv
  <2> QED
    BY <2>1, <2>2, <2>3, <2>4, <2>5 DEF PricesInv
<1>2. CASE ReloadPrices
  BY <1>2, RequestKept DEF ReloadPrices, PricesInv
<1>3. CASE TimePasses
  BY <1>3, RequestKept DEF TimePasses, PricesInv
<1>4. CASE SelectAccount
  BY <1>4, SelectKeeps DEF SelectAccount, PricesInv
<1>5. ASSUME NEW m \in PrModels, NEW long \in BOOLEAN, BeginRequest(m, long) PROVE PricesInv'
  <2>1. PICK q : q = [phase |-> "begun", model |-> m, long |-> long, at |-> prClock, catalog |-> prCatalog]
    OBVIOUS
  <2>2. prReq' = q
    BY <1>5, <2>1 DEF BeginRequest
  <2>3. q.phase = "begun" /\ q.model = m /\ q.long = long /\ q.catalog = prCatalog
    BY <2>1
  <2>4. RequestInv'
    BY <2>2, <2>3 DEF RequestInv, PricesInv
  <2> QED
    BY <1>5, <2>4 DEF BeginRequest, PricesInv
<1>6. ASSUME NEW u \in PrUsages, NEW response \in PrModels \cup {""}, PriceReceipt(u, response) PROVE PricesInv'
  BY <1>6, ReceiptKeeps DEF PriceReceipt, PricesInv
<1>7. CASE UNCHANGED prVars
  BY <1>7, RequestKept DEF prVars, PricesInv
<1> QED
  BY <1>1, <1>2, <1>3, <1>4, <1>5, <1>6, <1>7 DEF PrNext

\* What a settled request relies on, with its parts named.
LEMMA SettledRequest ==
  ASSUME PricesInv, prReq.phase = "settled", NEW card,
         card = EffectiveModelPrice(prReq.catalog, prReq.group, prReq.channel, prReq.billed)
  PROVE  /\ card \in SomeCard /\ prReq.usage \in Usages /\ prReq.long \in BOOLEAN
         /\ prReq.usage.write = 0 => prReq.usage.five + prReq.usage.hour = 0
         /\ prReq.cost = CalculatePrice(card, prReq.usage, prReq.at, prReq.long)
<1>1. /\ prReq.catalog \in PrFiles /\ prReq.group \in PrGroups \cup {<<>>} /\ prReq.channel \in PrChannels
      /\ prReq.billed \in PrModels /\ prReq.usage \in PrUsages /\ prReq.long \in BOOLEAN
      /\ prReq.cost = Cost(prReq, prReq.billed, prReq.usage)
  BY DEF PricesInv, RequestInv
<1>2. card \in SomeCard
  BY <1>1, EffectiveTyped
<1>3. prReq.usage \in Usages /\ (prReq.usage.write = 0 => prReq.usage.five + prReq.usage.hour = 0)
  BY <1>1, PrAssumption DEF Usages
<1>4. prReq.cost = CalculatePrice(card, prReq.usage, prReq.at, prReq.long)
  BY <1>1 DEF Cost
<1> QED
  BY <1>1, <1>2, <1>3, <1>4

\* The invariant makes prices sound.
LEMMA PricesAreSound == PricesInv => PricesSound
<1> SUFFICES ASSUME PricesInv PROVE PricesSound
  OBVIOUS
<1>1. ChargedAsQuoted
  BY DEF ChargedAsQuoted, PricesInv, RequestInv
<1>2. OneTier
  <2> SUFFICES ASSUME NEW c \in prChannel.cards, c.mode = "token"
               PROVE  /\ \A i, j \in DOMAIN c.tiers, x \in {u.in + u.write : u \in PrUsages} :
                            InTier(c.tiers[i], x) /\ InTier(c.tiers[j], x) => i = j
                      /\ \A i, j \in DOMAIN c.periods, at \in 0..PrDay :
                            at >= c.periods[i].min /\ at < c.periods[i].max
                              /\ at >= c.periods[j].min /\ at < c.periods[j].max => i = j
    BY DEF OneTier
  <2>1. c \in Cards
    BY PrAssumption DEF PricesInv
  <2>2. c.tiers \in Seq(Tiers) /\ c.periods \in Seq(Periods)
    BY <2>1 DEF Cards
  <2>3. ValidTiers(c.tiers) /\ ValidPeriods(c.periods)
    BY DEF PricesInv, ValidCards
  <2>4. \A u \in PrUsages : u.in + u.write \in Int
    BY PrAssumption
  <2>5. ASSUME NEW i \in DOMAIN c.tiers, NEW j \in DOMAIN c.tiers, NEW x \in {u.in + u.write : u \in PrUsages},
               InTier(c.tiers[i], x), InTier(c.tiers[j], x)
        PROVE  i = j
    <3>1. x \in Int
      BY <2>4
    <3> QED
      BY <2>2, <2>3, <2>5, <3>1, TiersApart
  <2>6. ASSUME NEW i \in DOMAIN c.periods, NEW j \in DOMAIN c.periods, NEW at \in 0..PrDay,
               at >= c.periods[i].min, at < c.periods[i].max, at >= c.periods[j].min, at < c.periods[j].max
        PROVE  i = j
    <3>1. at \in Int
      OBVIOUS
    <3> QED
      BY <2>2, <2>3, <2>6, <3>1, PeriodsApart
  <2> QED
    BY <2>5, <2>6
<1>3. OperatorPricesDecide
  <2> SUFFICES ASSUME prReq.phase = "settled" PROVE OperatorPricesDecide
    BY DEF OperatorPricesDecide
  <2> DEFINE own == GroupModelPrice(prReq.group, prReq.billed)
             card == IF own # NoCard THEN own ELSE MatchPrice(prReq.channel.cards, prReq.billed)
  <2>1. /\ prReq.catalog \in PrFiles /\ ValidCatalog(prReq.catalog)
        /\ prReq.group \in PrGroups \cup {<<>>} /\ prReq.channel \in PrChannels
        /\ prReq.billed \in PrModels /\ prReq.cost = Cost(prReq, prReq.billed, prReq.usage)
    BY DEF PricesInv, RequestInv
  <2>4. prReq = [phase |-> prReq.phase, model |-> prReq.model, long |-> prReq.long, at |-> prReq.at,
                 catalog |-> prReq.catalog, group |-> prReq.group, channel |-> prReq.channel, quote |-> prReq.quote,
                 billed |-> prReq.billed, usage |-> prReq.usage, cost |-> prReq.cost]
    BY DEF PricesInv, RequestInv
  <2>2. ASSUME own # NoCard, ~prReq.channel.restrict, NEW c \in PrChannels
        PROVE  Cost([prReq EXCEPT !.channel = [c EXCEPT !.restrict = FALSE]], prReq.billed, prReq.usage) = prReq.cost
    <3>1. PICK d : d = [c EXCEPT !.restrict = FALSE]
      OBVIOUS
    <3>2. ~d.restrict
      <4>1. c \in [cards : SUBSET Cards, restrict : BOOLEAN, source : STRING]
        BY PrAssumption
      <4> QED
        BY <3>1, <4>1
    <3>3. PICK r : r = [prReq EXCEPT !.channel = d]
      OBVIOUS
    <3>4. r.catalog = prReq.catalog /\ r.group = prReq.group /\ r.channel = d /\ r.at = prReq.at /\ r.long = prReq.long
      BY <2>4, <3>3
    <3>5. EffectiveModelPrice(prReq.catalog, prReq.group, d, prReq.billed)
          = EffectiveModelPrice(prReq.catalog, prReq.group, prReq.channel, prReq.billed)
      BY <2>2, <3>2, GroupDecides
    <3>6. Cost(r, prReq.billed, prReq.usage) = Cost(prReq, prReq.billed, prReq.usage)
      BY <3>4, <3>5 DEF Cost
    <3> QED
      BY <2>1, <3>1, <3>3, <3>6
  <2>3. ASSUME card.mode = "token", NoPrice \notin {card.in, card.write}, NEW p \in 0..2
        PROVE  Cost([prReq EXCEPT !.catalog = Repriced(prReq.catalog, p)], prReq.billed, prReq.usage) = prReq.cost
    <3>1. PICK r, k : r = [prReq EXCEPT !.catalog = Repriced(prReq.catalog, p)] /\ k = card
      OBVIOUS
    <3>2. /\ r.catalog = Repriced(prReq.catalog, p) /\ r.group = prReq.group /\ r.channel = prReq.channel
          /\ r.at = prReq.at /\ r.long = prReq.long
      BY <2>4, <3>1
    <3>3. k.mode = "token" /\ k.in # NoPrice /\ k.write # NoPrice /\ p \in Nat
      BY <2>3, <3>1
    <3>4. EffectiveModelPrice(Repriced(prReq.catalog, p), prReq.group, prReq.channel, prReq.billed)
          = EffectiveModelPrice(prReq.catalog, prReq.group, prReq.channel, prReq.billed)
      BY <2>1, <3>1, <3>3, EffectiveRepriced
    <3>5. Cost(r, prReq.billed, prReq.usage) = Cost(prReq, prReq.billed, prReq.usage)
      BY <3>2, <3>4 DEF Cost
    <3> QED
      BY <2>1, <3>1, <3>5
  <2> QED
    BY <2>2, <2>3 DEF OperatorPricesDecide, Repriced, OtherPrices
<1>4. PreflightSuffices
  <2> DEFINE card == EffectiveModelPrice(prReq.catalog, prReq.group, prReq.channel, prReq.model)
             Tier(u) == Interval(card, IF prReq.long \/ card.mode = "request" THEN u.in + u.write ELSE 1)
  <2> SUFFICES ASSUME prReq.phase = "settled", prReq.billed = prReq.model, Tier(prReq.usage) = Tier(Probe)
               PROVE  prReq.cost # NoPrice
    BY DEF PreflightSuffices
  <2>1. /\ card \in SomeCard /\ prReq.usage \in Usages /\ prReq.long \in BOOLEAN
        /\ prReq.cost = CalculatePrice(card, prReq.usage, prReq.at, prReq.long)
    BY SettledRequest
  <2>2. CalculatePrice(card, Probe, prReq.at, prReq.long) # NoPrice
    BY DEF PricesInv, RequestInv, Cost
  <2>3. PICK c : c = card
    OBVIOUS
  <2> QED
    BY <2>1, <2>2, PreflightPrices
<1>5. EveryTokenCharged
  <2> DEFINE card == EffectiveModelPrice(prReq.catalog, prReq.group, prReq.channel, prReq.billed)
             u == prReq.usage
  <2> SUFFICES ASSUME prReq.phase = "settled", card.mode = "token", card.in = card.write, card.in = card.hour,
                      card.in # NoPrice, card.tiers = <<>>, u.five + u.hour \notin 1..u.write - 1
               PROVE  prReq.cost = card.in * (u.in + u.write) * MultiplierAt(card.periods, prReq.at)
    BY DEF EveryTokenCharged
  <2>1. /\ card \in SomeCard /\ u \in Usages /\ prReq.long \in BOOLEAN
        /\ u.write = 0 => u.five + u.hour = 0
        /\ prReq.cost = CalculatePrice(card, u, prReq.at, prReq.long)
    BY SettledRequest
  <2>2. PICK c, v, at, long : c = card /\ v = u /\ at = prReq.at /\ long = prReq.long
    OBVIOUS
  <2> HIDE DEF card, u
  <2>3. c \in Cards /\ c # NoCard
    BY <2>1, <2>2, CardsAreNamed DEF SomeCard
  <2>4. prReq.cost = PriceTokens(c, v, at, long)
    BY <2>1, <2>2, <2>3 DEF CalculatePrice
  <2>5. PriceTokens(c, v, at, long) = c.in * (v.in + v.write) * MultiplierAt(c.periods, at)
    BY <2>1, <2>2, <2>3, TokensChargedOnce
  <2> QED
    BY <2>2, <2>4, <2>5
<1> QED
  BY <1>1, <1>2, <1>3, <1>4, <1>5 DEF PricesSound

\* Whatever is edited, published or reloaded while it runs, a request costs what
\* it was quoted, by one tier and one period, by the operator's prices where
\* there are any and for every token once; and what the preflight could price,
\* the receipt can (selectAccount's preflight, effectiveModelPrice,
\* calculatePrice, makeReceipt, validateModelPrices).
THEOREM PricesStaySound == PrSpec => []PricesSound
BY PricesInit, PricesStep, PricesAreSound, PTL DEF PrSpec

=============================================================================
