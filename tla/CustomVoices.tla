---------------------------- MODULE CustomVoices ----------------------------
(***************************************************************************)
(* Custom voices of one API key (custom_voices.go): a registry in Redis    *)
(* maps local ids to voices that live at one provider account.  Calls are  *)
(* serialized by the slot voice-management, but their outcome at the       *)
(* provider may be unknown, Redis may fail, accounts are edited and the    *)
(* process may crash between any two steps.  A realtime session names      *)
(* voices in its frames.                                                   *)
(*                                                                         *)
(* A voice is named by the call that created it.  The idempotency claim of *)
(* a call is the subject of Idempotency.                                   *)
(***************************************************************************)
EXTENDS Integers, FiniteSets, Functions

CONSTANTS
    CvCalls,        \* calls of the handler
    CvAccounts,
    CvNobody,       \* no call, no account
    CvMaxEdits,     \* bound: rotations of an account's target
    CvMaxFaults     \* bound: failures of Redis, unknown outcomes and crashes

CvKinds == {"create", "get", "audio", "patch", "delete"}
CvSources == CvAccounts \X (0..CvMaxEdits)
CvNoSource == <<CvNobody, 0>>

ASSUME CvAssumption ==
    /\ CvNobody \notin CvCalls \cup CvAccounts /\ {CvMaxEdits, CvMaxFaults} \subseteq Nat

VARIABLES
    cvTarget,   \* responseTarget of each account
    cvReg,      \* gateway:custom-voices: the Binding of each local id
    cvHome,     \* the account at which each voice lives, or CvNobody
    cvMade,     \* the account at which each voice was created, for ever
    cvSlot,     \* the holder of the slot
    cvCall,     \* where each call is
    cvGone,     \* voices whose deletion was acknowledged
    cvSession,  \* the source of the open realtime session
    cvTold,     \* <<voice, account>>: a request about a voice went to an account
    cvEdits, cvFaults

cvVars == <<cvTarget, cvReg, cvHome, cvMade, cvSlot, cvCall, cvGone, cvSession, cvTold, cvEdits, cvFaults>>
cvProvider == <<cvHome, cvMade, cvTold>>
cvRest == <<cvTarget, cvSession, cvEdits>>

CvNew == [at |-> "new", kind |-> "get", voice |-> CvNobody, binding |-> CvNoSource, source |-> CvNoSource]

CvTypeOK ==
    /\ cvTarget \in [CvAccounts -> 0..CvMaxEdits]
    /\ DOMAIN cvReg \subseteq CvCalls /\ Range(cvReg) \subseteq CvSources
    /\ cvHome \in [CvCalls -> CvAccounts \cup {CvNobody}]
    /\ cvMade \in [CvCalls -> CvAccounts \cup {CvNobody}]
    /\ cvSlot \in CvCalls \cup {CvNobody}
    /\ cvCall \in [CvCalls -> [at : {"new", "held", "loaded", "chosen", "answered", "done"},
                               kind : CvKinds, voice : CvCalls \cup {CvNobody},
                               binding : CvSources \cup {CvNoSource}, source : CvSources \cup {CvNoSource}]]
    /\ cvGone \subseteq CvCalls /\ cvSession \in CvSources \cup {CvNoSource}
    /\ cvTold \subseteq CvCalls \X CvAccounts

VoiceInit ==
    /\ cvTarget = [a \in CvAccounts |-> 0] /\ cvReg = <<>>
    /\ cvHome = [c \in CvCalls |-> CvNobody] /\ cvMade = cvHome
    /\ cvSlot = CvNobody /\ cvCall = [c \in CvCalls |-> CvNew]
    /\ cvGone = {} /\ cvSession = CvNoSource /\ cvTold = {}
    /\ cvEdits = 0 /\ cvFaults = 0

CvFault == cvFaults < CvMaxFaults /\ cvFaults' = cvFaults + 1
CvFine == UNCHANGED cvFaults

CvDone == [CvNew EXCEPT !.at = "done"]

\* The deferred functions of a call: it has ended and gives its slot back.
CvEnds(c) ==
    /\ cvCall' = [cvCall EXCEPT ![c] = CvDone]
    /\ cvSlot' = IF cvSlot = c THEN CvNobody ELSE cvSlot
-----------------------------------------------------------------------------
BeginVoiceShared(c, kind, v) ==
    /\ cvCall[c].at = "new" /\ (kind = "create" <=> v = c)
    /\ cvSlot' = c
    /\ cvCall' = [cvCall EXCEPT ![c] = [CvNew EXCEPT !.at = "held", !.kind = kind, !.voice = v]]
    /\ UNCHANGED <<cvReg, cvProvider, cvGone, cvRest, cvFaults>>

\* takeSlot("voice-management"): a second call is refused with 409.
BeginVoice(c, kind, v) ==
    /\ cvCall[c].at = "new" /\ (kind = "create" <=> v = c)
    /\ IF cvSlot = CvNobody
       THEN /\ cvSlot' = c
            /\ cvCall' = [cvCall EXCEPT ![c] = [CvNew EXCEPT !.at = "held", !.kind = kind, !.voice = v]]
       ELSE cvCall' = [cvCall EXCEPT ![c] = CvDone] /\ UNCHANGED cvSlot
    /\ UNCHANGED <<cvReg, cvProvider, cvGone, cvRest, cvFaults>>

\* voiceLibraryBinding: the source of the whole library, of which there must
\* not be two.
LibrarySources == Range(cvReg)
VoiceBinding(c) ==
    IF cvCall[c].kind # "create" THEN cvReg[cvCall[c].voice]
    ELSE IF LibrarySources = {} THEN CvNoSource ELSE CHOOSE s \in LibrarySources : TRUE

\* loadCustomVoice or voiceLibraryBinding.
LoadVoice(c) ==
    /\ cvCall[c].at = "held"
    /\ IF IF cvCall[c].kind = "create" THEN Cardinality(LibrarySources) <= 1
          ELSE cvCall[c].voice \in DOMAIN cvReg
       THEN /\ cvCall' = [cvCall EXCEPT ![c].at = "loaded", ![c].binding = VoiceBinding(c)]
            /\ UNCHANGED cvSlot
       ELSE CvEnds(c)
    /\ UNCHANGED <<cvReg, cvProvider, cvGone, cvRest, cvFaults>>

MayServe(binding, a) == binding \in {CvNoSource, <<a, cvTarget[a]>>}

\* chooseAccount, perhaps after a wait: the account of the binding with its
\* target unchanged, or none at all.
ChooseVoiceAccount(c) ==
    LET usable == {a \in CvAccounts : MayServe(cvCall[c].binding, a)} IN
    /\ cvCall[c].at = "loaded"
    /\ \/ /\ \E a \in usable :
               cvCall' = [cvCall EXCEPT ![c].at = "chosen", ![c].source = <<a, cvTarget[a]>>]
          /\ UNCHANGED cvSlot
       \/ CvEnds(c)
    /\ UNCHANGED <<cvReg, cvProvider, cvGone, cvRest, cvFaults>>

\* The provider's part of a call and its answer.  A rejection changes
\* nothing there; without an answer the outcome is unknown.  For a deletion,
\* 404 is as good as an acknowledgement.
DispatchVoice(c) ==
    LET v == cvCall[c].voice
        a == cvCall[c].source[1]
        kind == cvCall[c].kind
        known == kind = "create" \/ cvHome[v] = a
        acted == CASE kind = "create" -> [cvHome EXCEPT ![v] = a]
                   [] kind = "delete" /\ known -> [cvHome EXCEPT ![v] = CvNobody]
                   [] OTHER -> cvHome
    IN
    /\ cvCall[c].at = "chosen"
    /\ cvTold' = cvTold \cup {<<v, a>>}
    /\ \/ /\ (known \/ kind = "delete") /\ cvHome' = acted /\ CvFine
          /\ cvCall' = [cvCall EXCEPT ![c].at = "answered"] /\ UNCHANGED cvSlot
       \/ UNCHANGED cvHome /\ CvFine /\ CvEnds(c)
       \/ cvHome' \in {cvHome, acted} /\ CvFault /\ CvEnds(c)
    /\ cvMade' = [cvMade EXCEPT ![v] = IF cvHome'[v] # CvNobody THEN cvHome'[v] ELSE @]
    /\ UNCHANGED <<cvReg, cvGone, cvRest>>

\* The registry follows the answer: HDel after a deletion, HSet after a
\* creation, a change or a look at the metadata, nothing after a download.
Registered(c) ==
    LET v == cvCall[c].voice IN
    CASE cvCall[c].kind = "delete" -> Restrict(cvReg, DOMAIN cvReg \ {v})
      [] cvCall[c].kind = "audio" -> cvReg
      [] OTHER -> [w \in DOMAIN cvReg \cup {v} |->
                     IF w # v THEN cvReg[w]
                     ELSE IF cvCall[c].kind = "create" THEN cvCall[c].source ELSE cvCall[c].binding]

PersistVoice(c) ==
    /\ cvCall[c].at = "answered"
    /\ \/ /\ CvFine /\ cvReg' = Registered(c)
          /\ cvGone' = IF cvCall[c].kind = "delete" THEN cvGone \cup {cvCall[c].voice} ELSE cvGone
       \/ CvFault /\ cvReg' \in {cvReg, Registered(c)} /\ UNCHANGED cvGone
    /\ CvEnds(c)
    /\ UNCHANGED <<cvProvider, cvRest>>
-----------------------------------------------------------------------------
\* A realtime session opens at the source of the library (grokRealtime).
OpenVoiceSession ==
    /\ cvSession = CvNoSource /\ Cardinality(LibrarySources) <= 1
    /\ \E a \in CvAccounts :
         /\ MayServe(IF LibrarySources = {} THEN CvNoSource ELSE CHOOSE s \in LibrarySources : TRUE, a)
         /\ cvSession' = <<a, cvTarget[a]>>
    /\ UNCHANGED <<cvTarget, cvReg, cvProvider, cvSlot, cvCall, cvGone, cvEdits, cvFaults>>

\* realtimeVoices: a frame that names a voice of another source ends the session.
NameVoice(v) ==
    /\ cvSession # CvNoSource
    /\ IF v \in DOMAIN cvReg /\ cvReg[v] = cvSession
       THEN cvTold' = cvTold \cup {<<v, cvSession[1]>>} /\ UNCHANGED cvSession
       ELSE cvSession' = CvNoSource /\ UNCHANGED cvTold
    /\ UNCHANGED <<cvTarget, cvReg, cvHome, cvMade, cvSlot, cvCall, cvGone, cvEdits, cvFaults>>

RotateTarget(a) ==
    /\ cvEdits < CvMaxEdits /\ cvEdits' = cvEdits + 1
    /\ cvTarget' = [cvTarget EXCEPT ![a] = @ + 1]
    /\ UNCHANGED <<cvReg, cvProvider, cvSlot, cvCall, cvGone, cvSession, cvFaults>>

\* The slots and sessions of a process end with it.
VoiceCrash ==
    /\ CvFault /\ cvSlot' = CvNobody /\ cvSession' = CvNoSource
    /\ cvCall' = [c \in CvCalls |-> IF cvCall[c].at = "new" THEN cvCall[c]
                                    ELSE CvDone]
    /\ UNCHANGED <<cvTarget, cvReg, cvProvider, cvGone, cvEdits>>

VoiceStep(c) == LoadVoice(c) \/ ChooseVoiceAccount(c) \/ DispatchVoice(c) \/ PersistVoice(c)

VoiceNext ==
    \/ \E c \in CvCalls :
         VoiceStep(c) \/ NameVoice(c) \/ \E kind \in CvKinds, v \in CvCalls : BeginVoice(c, kind, v)
    \/ \E a \in CvAccounts : RotateTarget(a)
    \/ OpenVoiceSession \/ VoiceCrash

\* A call has five minutes.
VoiceFairness == \A c \in CvCalls : WF_cvVars(VoiceStep(c))

VoiceSpec == VoiceInit /\ [][VoiceNext]_cvVars /\ VoiceFairness
-----------------------------------------------------------------------------
\* The library of a key is at one source, so that a realtime session can reach
\* all of it, though its creations are apart from the check of the library.
LibraryOneSource == Cardinality(LibrarySources) <= 1

\* A voice whose deletion was acknowledged is not brought back by a call that
\* read it before.
DeletedVoiceStaysDeleted == cvGone \cap DOMAIN cvReg = {}

\* Only the account at which a voice was created is ever asked about it, by
\* calls and by realtime frames, however accounts are edited.
VoicesStayHome == \A told \in cvTold : cvMade[told[1]] \in {CvNobody, told[2]}

\* The slot is free again and again: no outcome of a call keeps it.
VoiceSlotFreed == []<>(cvSlot = CvNobody)

\* The voices of a library are all at one account, which alone is asked about
\* them, and those deleted are not listed again.
LibraryFaithful == CvTypeOK /\ LibraryOneSource /\ DeletedVoiceStaysDeleted /\ VoicesStayHome
=============================================================================
