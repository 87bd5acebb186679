--------------------------- MODULE SafeApplyProofs ---------------------------
(***************************************************************************)
(* TLAPS proofs about SafeApply, for every set of files, clients, texts,   *)
(* policies and author versions: type correctness, and, outside Python,    *)
(* the end-to-end code guarantee CodeKept.                                 *)
(*                                                                         *)
(* CodeKept is not inductive: it says nothing of what clients hold in      *)
(* memory, and it must survive two writes that overlap.  The invariant     *)
(* Sound adds, for every file whose history is not exposed, that at most   *)
(* one client is inside fs::write, that the file is then empty, and that   *)
(* every pending rewrite already has the author's code.                    *)
(***************************************************************************)
EXTENDS SafeApply, SourceTextProofs

WritesTo(c, f) == client[c].phase = "writing" /\ client[c].file = f

Holds(c, f) == client[c].phase \in {"isolating", "ready", "writing"} /\ client[c].file = f

\* Every rewrite of f still in memory has the code its author last saved.
HeldCode(f) == \A c \in Clients : Holds(c, f) => AuthorCode(client[c].new) = authored[f]

OneWriter(f) == \A c, d \in Clients : WritesTo(c, f) /\ WritesTo(d, f) => c = d

Truncated(f) == WindowOpen(f) => disk[f] = <<>>

DiskCode(f) == ~WindowOpen(f) => AuthorCode(disk[f]) = authored[f]

Sound ==
  \A f \in Files :
    ~exposed[f] => HeldCode(f) /\ OneWriter(f) /\ Truncated(f) /\ DiskCode(f)

\* A strip pass that goes through a file comment by comment finds no code where
\* a docstring is to be taken out.
DocstringsStand ==
  \A c \in Clients :
    LET me == client[c]
    IN  me.phase = "isolating" =>
          \A r \in me.targets : IsCodeNode(r) => \A i \in Span(r) : me.new[i] \notin Code

-----------------------------------------------------------------------------
(* Types of what the actions compute.                                      *)

LEMMA OverlayIsText ==
  ASSUME NEW src \in Text, NEW new \in Text, NEW k \in 0..Len(new)
  PROVE  Overlay(src, new, k) \in Text
<1>1. /\ Len(src) \in Nat /\ \A i \in 1..Len(src) : src[i] \in Atom
      /\ Len(new) \in Nat /\ \A i \in 1..Len(new) : new[i] \in Atom
  BY LenProperties, ElementOfSeq DEF Text
<1>2. SubSeq(new, 1, k) \in Seq(Atom)
  <2>1. \A i \in 1..k : new[i] \in Atom
    BY <1>1
  <2> QED
    BY <2>1, SubSeqProperties
<1>3. SubSeq(src, k + 1, Len(src)) \in Seq(Atom)
  <2>1. \A i \in (k + 1)..Len(src) : src[i] \in Atom
    BY <1>1
  <2>2. k + 1 \in Int /\ Len(src) \in Int
    BY <1>1
  <2> QED
    BY <2>1, <2>2, SubSeqProperties
<1> QED
  BY <1>2, <1>3, ConcatProperties DEF Overlay, Text

LEMMA ClientFields ==
  ASSUME TypeOK, NEW c \in Clients
  PROVE  /\ client[c] \in ClientState
         /\ client[c].phase \in Phase /\ client[c].file \in Files
         /\ client[c].rec \in Record /\ client[c].text \in Text
         /\ client[c].todo \in SUBSET Files /\ client[c].policy \in Policy
         /\ client[c].src \in Text /\ client[c].new \in Text
         /\ client[c].targets \in SUBSET Record /\ client[c].points \in SUBSET Nat
BY DEF TypeOK, ClientState

LEMMA ViewsAreTexts ==
  ASSUME TypeOK, NEW f \in Files, NEW s \in Views(f)
  PROVE  s \in Text
<1>1. disk[f] \in Text
  BY DEF TypeOK
<1>2. CASE s = disk[f]
  BY <1>1, <1>2
<1>3. CASE s # disk[f]
  <2>1. PICK w \in Clients : \E k \in 0..Len(client[w].new) :
          s = Overlay(disk[f], client[w].new, k)
    BY <1>3 DEF Views
  <2> QED
    BY <1>1, <2>1, ClientFields, OverlayIsText
<1> QED
  BY <1>2, <1>3

LEMMA IdleType == Idle \in ClientState
<1>1. AnyFile \in Files
  BY ApplyAssumption DEF AnyFile, ApplyAssumption
<1>2. AnyRecord \in Record
  BY DEF AnyRecord, Record, Kind
<1>3. AnyPolicy \in Policy
  BY DEF AnyPolicy, Policy
<1>4. <<>> \in Text
  BY EmptySeq DEF Text
<1> QED
  BY <1>1, <1>2, <1>3, <1>4 DEF Idle, ClientState, Phase

LEMMA NextFileType ==
  ASSUME NEW me \in ClientState
  PROVE  NextFile(me) \in ClientState
<1>1. <<>> \in Text
  BY EmptySeq DEF Text
<1> QED
  BY <1>1, IdleType DEF NextFile, ClientState, Phase

LEMMA BecomeType ==
  ASSUME TypeOK, NEW c \in Clients, NEW v \in ClientState, Become(c, v)
  PROVE  client' \in [Clients -> ClientState]
BY DEF TypeOK, Become

LEMMA ExposeType ==
  ASSUME TypeOK, NEW f \in Files, NEW how \in BOOLEAN, Expose(f, how)
  PROVE  exposed' \in [Files -> BOOLEAN]
BY DEF TypeOK, Expose

\* What is left of TypeOK when an action leaves the disk, the index and the
\* authors' saves alone.
LEMMA ClientStepType ==
  ASSUME TypeOK, UNCHANGED <<disk, index, authored>>,
         client' \in [Clients -> ClientState],
         started' \in 0..MaxOps, exposed' \in [Files -> BOOLEAN]
  PROVE  TypeOK'
BY DEF TypeOK

-----------------------------------------------------------------------------
(* Every action preserves the types.                                       *)

LEMMA StartOneType ==
  ASSUME TypeOK, StartOne
  PROVE  started' \in 0..MaxOps
BY ApplyAssumption DEF TypeOK, StartOne, ApplyAssumption

LEMMA ResolveType ==
  ASSUME TypeOK, NEW c \in Clients, Resolve(c)
  PROVE  TypeOK'
<1>1. PICK f \in Files : \E r \in index[f], text \in Texts, ack \in BOOLEAN :
        Become(c, [Idle EXCEPT !.phase = "resolved", !.file = f, !.rec = r,
                               !.text = text, !.ack = ack])
  BY DEF Resolve
<1>2. PICK r \in index[f], text \in Texts, ack \in BOOLEAN :
        Become(c, [Idle EXCEPT !.phase = "resolved", !.file = f, !.rec = r,
                               !.text = text, !.ack = ack])
  BY <1>1
<1>3. r \in Record /\ text \in Text
  BY ApplyAssumption DEF TypeOK, ApplyAssumption
<1>4. [Idle EXCEPT !.phase = "resolved", !.file = f, !.rec = r,
                   !.text = text, !.ack = ack] \in ClientState
  BY <1>3, IdleType DEF ClientState, Phase
<1> QED
  BY <1>2, <1>4, BecomeType, StartOneType, ClientStepType DEF Resolve, TypeOK

LEMMA ReadAndVerifyType ==
  ASSUME TypeOK, NEW c \in Clients, ReadAndVerify(c)
  PROVE  TypeOK'
<1> DEFINE me == client[c]
<1>1. PICK s \in Views(me.file) :
        IF ApplyOk(s, me.rec, me.text, me.ack)
        THEN Become(c, [me EXCEPT !.phase = "ready", !.src = s,
                                  !.new = Splice(s, me.rec, me.text)])
        ELSE Become(c, Idle)
  BY DEF ReadAndVerify
<1>2. s \in Text
  BY ClientFields, ViewsAreTexts
<1>3. client' \in [Clients -> ClientState]
  <2>1. CASE ApplyOk(s, me.rec, me.text, me.ack)
    <3>1. me.rec.last <= Len(s)
      BY <2>1 DEF ApplyOk, CommentEditOk
    <3>2. Splice(s, me.rec, me.text) \in Text
      BY <1>2, <3>1, ClientFields, SpliceIsText
    <3>3. [me EXCEPT !.phase = "ready", !.src = s,
                     !.new = Splice(s, me.rec, me.text)] \in ClientState
      BY <1>2, <3>2, ClientFields DEF ClientState, Phase
    <3> QED
      BY <1>1, <2>1, <3>3, BecomeType
  <2>2. CASE ~ApplyOk(s, me.rec, me.text, me.ack)
    BY <1>1, <2>2, IdleType, BecomeType
  <2> QED
    BY <2>1, <2>2
<1>4. exposed' \in [Files -> BOOLEAN]
  BY ClientFields, ExposeType DEF ReadAndVerify, WindowOpen
<1> QED
  BY <1>3, <1>4, ClientStepType DEF ReadAndVerify, TypeOK

LEMMA StartStripType ==
  ASSUME TypeOK, NEW c \in Clients, StartStrip(c)
  PROVE  TypeOK'
<1>1. PICK policy \in Policies, dry \in BOOLEAN :
        Become(c, [Idle EXCEPT !.phase = "walking", !.op = "strip",
                               !.policy = policy, !.dry = dry, !.todo = Files,
                               !.ack = policy.significant])
  BY DEF StartStrip
<1>2. policy \in Policy /\ policy.significant \in BOOLEAN
  BY ApplyAssumption DEF ApplyAssumption, Policy
<1>3. [Idle EXCEPT !.phase = "walking", !.op = "strip",
                   !.policy = policy, !.dry = dry, !.todo = Files,
                   !.ack = policy.significant] \in ClientState
  BY <1>2, IdleType DEF ClientState, Phase
<1> QED
  BY <1>1, <1>3, BecomeType, StartOneType, ClientStepType DEF StartStrip, TypeOK

LEMMA TidyIfAskedIsText ==
  ASSUME NEW policy, NEW src \in Text, NEW points
  PROVE  TidyIfAsked(policy, src, points) \in Text
BY TidyIsText DEF TidyIfAsked

LEMMA StripFileType ==
  ASSUME TypeOK, NEW c \in Clients, StripFile(c)
  PROVE  TypeOK'
<1> DEFINE me == client[c]
<1>1. PICK f \in me.todo : \E s \in Views(f) :
        LET targets == Targets(s, me.policy)
            took == [me EXCEPT !.file = f, !.todo = @ \ {f}, !.src = s]
        IN  /\ Expose(f, WindowOpen(f))
            /\ CASE targets = {} -> Become(c, NextFile(took))
                 [] targets # {} /\ BatchOk(s, targets) ->
                      Become(c, [took EXCEPT
                        !.phase = "ready",
                        !.new = TidyIfAsked(me.policy, BatchText(s, targets),
                                            PointsOf(targets))])
                 [] OTHER ->
                      Become(c, [took EXCEPT !.phase = "isolating", !.new = s,
                                             !.targets = targets])
  BY DEF StripFile
<1>2. PICK s \in Views(f) :
        LET targets == Targets(s, me.policy)
            took == [me EXCEPT !.file = f, !.todo = @ \ {f}, !.src = s]
        IN  /\ Expose(f, WindowOpen(f))
            /\ \/ Become(c, NextFile(took))
               \/ Become(c, [took EXCEPT
                        !.phase = "ready",
                        !.new = TidyIfAsked(me.policy, BatchText(s, targets),
                                            PointsOf(targets))])
               \/ Become(c, [took EXCEPT !.phase = "isolating", !.new = s,
                                         !.targets = targets])
  BY <1>1
<1> DEFINE targets == Targets(s, me.policy)
           took == [me EXCEPT !.file = f, !.todo = @ \ {f}, !.src = s]
<1>3. f \in Files /\ s \in Text
  BY ClientFields, ViewsAreTexts
<1>4. took \in ClientState
  BY <1>3, ClientFields DEF ClientState
<1>5. targets \in SUBSET Record
  BY <1>3, ExtractIsRecords DEF Targets
<1>6. NextFile(took) \in ClientState
  <2> HIDE DEF took
  <2> QED
    BY <1>4, NextFileType
<1>7. [took EXCEPT !.phase = "ready",
                   !.new = TidyIfAsked(me.policy, BatchText(s, targets),
                                       PointsOf(targets))] \in ClientState
  <2> HIDE DEF took, targets
  <2>1. TidyIfAsked(me.policy, BatchText(s, targets), PointsOf(targets)) \in Text
    BY <1>3, KeepAtIsText, TidyIfAskedIsText DEF BatchText
  <2> QED
    BY <2>1, <1>4 DEF ClientState, Phase
<1>8. [took EXCEPT !.phase = "isolating", !.new = s,
                   !.targets = targets] \in ClientState
  <2> HIDE DEF took, targets
  <2> QED
    BY <1>3, <1>4, <1>5 DEF ClientState, Phase
<1>9. client' \in [Clients -> ClientState]
  <2>1. \E v \in ClientState : Become(c, v)
    BY <1>2, <1>6, <1>7, <1>8
  <2> QED
    BY <2>1, BecomeType
<1>10. exposed' \in [Files -> BOOLEAN]
  BY <1>2, <1>3, ExposeType DEF WindowOpen
<1> QED
  BY <1>9, <1>10, ClientStepType DEF StripFile, TypeOK

LEMMA SkipFileType ==
  ASSUME TypeOK, NEW c \in Clients, SkipFile(c)
  PROVE  TypeOK'
<1>1. PICK f \in client[c].todo :
        Become(c, NextFile([client[c] EXCEPT !.file = f, !.todo = @ \ {f}]))
  BY DEF SkipFile
<1>2. [client[c] EXCEPT !.file = f, !.todo = @ \ {f}] \in ClientState
  BY ClientFields DEF ClientState
<1> QED
  BY <1>1, <1>2, NextFileType, BecomeType, ClientStepType DEF SkipFile, TypeOK

LEMMA SlideDownType ==
  ASSUME NEW p \in Nat, NEW r \in Record
  PROVE  SlideDown(p, r) \in Nat
BY DEF SlideDown, Record

LEMMA IsolateOneType ==
  ASSUME TypeOK, NEW c \in Clients, IsolateOne(c)
  PROVE  TypeOK'
<1> DEFINE me == client[c]
<1>1. PICK r \in me.targets :
        Become(c,
          IF ApplyOk(me.new, r, <<>>, me.policy.significant)
          THEN [me EXCEPT
                  !.new = Splice(@, r, <<>>),
                  !.targets = @ \ {r},
                  !.points = {SlideDown(p, r) : p \in @} \cup {r.first - 1}]
          ELSE [me EXCEPT !.targets = @ \ {r}])
  BY DEF IsolateOne
<1>2. r \in Record /\ r.first - 1 \in Nat
  BY ClientFields DEF Record
<1>3. [me EXCEPT !.targets = @ \ {r}] \in ClientState
  BY ClientFields DEF ClientState
<1>4. ASSUME ApplyOk(me.new, r, <<>>, me.policy.significant)
      PROVE  [me EXCEPT
                !.new = Splice(@, r, <<>>),
                !.targets = @ \ {r},
                !.points = {SlideDown(p, r) : p \in @} \cup {r.first - 1}]
             \in ClientState
  <2>1. r.last <= Len(me.new)
    BY <1>4 DEF ApplyOk, CommentEditOk
  <2>2. <<>> \in Text
    BY EmptySeq DEF Text
  <2>3. Splice(me.new, r, <<>>) \in Text
    BY <1>2, <2>1, <2>2, ClientFields, SpliceIsText
  <2>4. {SlideDown(p, r) : p \in me.points} \cup {r.first - 1} \in SUBSET Nat
    BY <1>2, ClientFields, SlideDownType
  <2> QED
    BY <2>3, <2>4, ClientFields DEF ClientState
<1>5. client' \in [Clients -> ClientState]
  BY <1>1, <1>3, <1>4, BecomeType
<1> QED
  BY <1>5, ClientStepType DEF IsolateOne, TypeOK

LEMMA IsolateDoneType ==
  ASSUME TypeOK, NEW c \in Clients, IsolateDone(c)
  PROVE  TypeOK'
<1> DEFINE me == client[c]
<1>1. Become(c, IF me.points = {} THEN NextFile(me)
                ELSE [me EXCEPT !.phase = "ready",
                                !.new = TidyIfAsked(me.policy, @, me.points)])
  BY DEF IsolateDone
<1>2. [me EXCEPT !.phase = "ready",
                 !.new = TidyIfAsked(me.policy, @, me.points)] \in ClientState
  <2>1. TidyIfAsked(me.policy, me.new, me.points) \in Text
    BY ClientFields, TidyIfAskedIsText
  <2> QED
    BY <2>1, ClientFields DEF ClientState, Phase
<1>3. NextFile(me) \in ClientState
  BY ClientFields, NextFileType
<1> QED
  BY <1>1, <1>2, <1>3, BecomeType, ClientStepType DEF IsolateDone, TypeOK

LEMMA SkipWriteType ==
  ASSUME TypeOK, NEW c \in Clients, SkipWrite(c)
  PROVE  TypeOK'
BY ClientFields, NextFileType, BecomeType, ClientStepType DEF SkipWrite, TypeOK

LEMMA TruncateType ==
  ASSUME TypeOK, NEW c \in Clients, Truncate(c)
  PROVE  TypeOK'
<1>1. disk' \in [Files -> Text]
  BY EmptySeq DEF Truncate, TypeOK, Text
<1>2. [client[c] EXCEPT !.phase = "writing"] \in ClientState
  BY ClientFields DEF ClientState, Phase
<1>3. client' \in [Clients -> ClientState]
  BY <1>2, BecomeType DEF Truncate
<1>4. exposed' \in [Files -> BOOLEAN]
  BY ClientFields, ExposeType DEF Truncate, WindowOpen
<1> QED
  BY <1>1, <1>3, <1>4 DEF Truncate, TypeOK

LEMMA FillType ==
  ASSUME TypeOK, NEW c \in Clients, Fill(c)
  PROVE  TypeOK'
<1> DEFINE me == client[c]
<1>1. Overlay(disk[me.file], me.new, Len(me.new)) \in Text
  <2>1. Len(me.new) \in 0..Len(me.new)
    BY ClientFields, LenProperties DEF Text
  <2>2. disk[me.file] \in Text
    BY ClientFields DEF TypeOK
  <2> QED
    BY <2>1, <2>2, ClientFields, OverlayIsText
<1>2. disk' \in [Files -> Text]
  BY <1>1 DEF Fill, TypeOK
<1>3. client' \in [Clients -> ClientState]
  BY ClientFields, NextFileType, BecomeType DEF Fill
<1> QED
  BY <1>2, <1>3 DEF Fill, TypeOK

LEMMA TearType ==
  ASSUME TypeOK, NEW c \in Clients, Tear(c)
  PROVE  TypeOK'
<1> DEFINE me == client[c]
<1>1. PICK k \in 0..Len(me.new) :
        disk' = [disk EXCEPT ![me.file] = Overlay(@, me.new, k)]
  BY DEF Tear
<1>2. disk' \in [Files -> Text]
  <2>1. disk[me.file] \in Text
    BY ClientFields DEF TypeOK
  <2>2. Overlay(disk[me.file], me.new, k) \in Text
    BY <2>1, ClientFields, OverlayIsText
  <2> QED
    BY <1>1, <2>2 DEF TypeOK
<1>3. client' \in [Clients -> ClientState]
  BY IdleType, BecomeType DEF Tear
<1>4. exposed' \in [Files -> BOOLEAN]
  BY ClientFields, ExposeType DEF Tear
<1> QED
  BY <1>2, <1>3, <1>4 DEF Tear, TypeOK

LEMMA AbandonType ==
  ASSUME TypeOK, NEW c \in Clients, Abandon(c)
  PROVE  TypeOK'
BY IdleType, BecomeType, ClientStepType DEF Abandon, TypeOK

LEMMA CheckType ==
  ASSUME TypeOK, NEW f \in Files, Check(f)
  PROVE  TypeOK'
<1>1. PICK s \in Views(f) : index' = [index EXCEPT ![f] = Extract(s)]
  BY DEF Check
<1>2. Extract(s) \in SUBSET Record
  BY ViewsAreTexts, ExtractIsRecords
<1> QED
  BY <1>1, <1>2 DEF Check, TypeOK

LEMMA AuthorSaveType ==
  ASSUME TypeOK, NEW f \in Files, AuthorSave(f)
  PROVE  TypeOK'
<1>1. disk' \in [Files -> Text]
  <2>1. PICK s \in AuthorVersions[f] : disk' = [disk EXCEPT ![f] = s]
    BY DEF AuthorSave
  <2>2. s \in Text
    BY ApplyAssumption DEF ApplyAssumption
  <2> QED
    BY <2>1, <2>2 DEF TypeOK
<1>2. exposed' \in [Files -> BOOLEAN]
  <2>1. PICK how \in BOOLEAN : how = Holding(f)
    BY DEF Holding
  <2>2. exposed' = [exposed EXCEPT ![f] = how]
    BY <2>1 DEF AuthorSave
  <2> QED
    BY <2>2 DEF TypeOK
<1> QED
  BY <1>1, <1>2 DEF AuthorSave, TypeOK

LEMMA InitType == Init => TypeOK
<1> SUFFICES ASSUME Init
             PROVE  TypeOK
  OBVIOUS
<1>1. disk \in [Files -> Text]
  BY ApplyAssumption DEF Init, ApplyAssumption
<1>2. index \in [Files -> SUBSET Record]
  BY <1>1, ExtractIsRecords DEF Init
<1>3. client \in [Clients -> ClientState]
  BY IdleType DEF Init
<1> QED
  BY <1>1, <1>2, <1>3, ApplyAssumption DEF Init, TypeOK, ApplyAssumption

\* Every variable keeps its type: no interleaving of edits, strip passes, torn
\* writes, saves and re-checks makes a range empty or a file anything but a text.
THEOREM TypeCorrect == Spec => []TypeOK
<1>1. TypeOK /\ [Next]_vars => TypeOK'
  <2> SUFFICES ASSUME TypeOK, [Next]_vars
               PROVE  TypeOK'
    OBVIOUS
  <2>1. CASE UNCHANGED vars
    BY <2>1 DEF vars, TypeOK
  <2>2. ASSUME NEW c \in Clients, EditStep(c)
        PROVE  TypeOK'
    BY <2>2, ResolveType, ReadAndVerifyType DEF EditStep
  <2>3. ASSUME NEW c \in Clients, StripStep(c)
        PROVE  TypeOK'
    BY <2>3, StartStripType, StripFileType, SkipFileType, IsolateOneType,
       IsolateDoneType, SkipWriteType DEF StripStep
  <2>4. ASSUME NEW c \in Clients, WriteStep(c)
        PROVE  TypeOK'
    BY <2>4, TruncateType, FillType, TearType, AbandonType DEF WriteStep
  <2>5. CASE World
    BY <2>5, CheckType, AuthorSaveType DEF World
  <2> QED
    BY <2>1, <2>2, <2>3, <2>4, <2>5 DEF Next
<1> QED
  BY InitType, <1>1, PTL DEF Spec

-----------------------------------------------------------------------------
(* The code guarantee.                                                     *)

\* A read of a quiet, unexposed file finds the author's code.
LEMMA CleanRead ==
  ASSUME Sound, NEW f \in Files, ~exposed[f], ~WindowOpen(f), NEW s \in Views(f)
  PROVE  AuthorCode(s) = authored[f]
<1>1. Views(f) = {disk[f]}
  BY DEF Views, WindowOpen
<1> QED
  BY <1>1 DEF Sound, DiskCode

\* A step of one client outside fs::write keeps Sound if whatever rewrite it
\* then holds has the author's code.
LEMMA QuietStep ==
  ASSUME TypeOK, Sound, NEW c \in Clients, NEW v, Become(c, v),
         UNCHANGED <<disk, authored>>,
         \A f \in Files : exposed[f] => exposed'[f],
         client[c].phase # "writing", v.phase # "writing",
         \A f \in Files : v.phase \in {"isolating", "ready"} /\ v.file = f /\ ~exposed'[f]
                            => AuthorCode(v.new) = authored[f]
  PROVE  Sound'
<1> SUFFICES ASSUME NEW f \in Files, ~exposed'[f]
             PROVE  HeldCode(f)' /\ OneWriter(f)' /\ Truncated(f)' /\ DiskCode(f)'
  BY DEF Sound
<1>1. HeldCode(f) /\ OneWriter(f) /\ Truncated(f) /\ DiskCode(f)
  BY DEF Sound
<1>2. client'[c] = v /\ \A d \in Clients : d # c => client'[d] = client[d]
  BY DEF Become, TypeOK
<1>3. \A d \in Clients : WritesTo(d, f)' <=> WritesTo(d, f)
  BY <1>2 DEF WritesTo
<1>4. WindowOpen(f)' <=> WindowOpen(f)
  BY <1>3 DEF WindowOpen, WritesTo
<1>5. HeldCode(f)'
  BY <1>1, <1>2 DEF HeldCode, Holds
<1>6. OneWriter(f)'
  BY <1>1, <1>3 DEF OneWriter
<1>7. Truncated(f)' /\ DiskCode(f)'
  BY <1>1, <1>4 DEF Truncated, DiskCode
<1> QED
  BY <1>5, <1>6, <1>7

\* NextFile leaves a client with nothing to write.
LEMMA NextFileHoldsNothing ==
  ASSUME NEW me \in ClientState
  PROVE  NextFile(me).phase \notin {"isolating", "ready", "writing"}
BY DEF NextFile, Idle, ClientState

LEMMA ResolveSound ==
  ASSUME TypeOK, Sound, NEW c \in Clients, Resolve(c)
  PROVE  Sound'
<1>1. PICK f \in Files : \E r \in index[f], text \in Texts, ack \in BOOLEAN :
        Become(c, [Idle EXCEPT !.phase = "resolved", !.file = f, !.rec = r,
                               !.text = text, !.ack = ack])
  BY DEF Resolve
<1>2. PICK r \in index[f], text \in Texts, ack \in BOOLEAN :
        Become(c, [Idle EXCEPT !.phase = "resolved", !.file = f, !.rec = r,
                               !.text = text, !.ack = ack])
  BY <1>1
<1> DEFINE v == [Idle EXCEPT !.phase = "resolved", !.file = f, !.rec = r,
                             !.text = text, !.ack = ack]
<1>3. Become(c, v) /\ v.phase = "resolved"
  BY <1>2 DEF Idle
<1> HIDE DEF v
<1> QED
  BY <1>3, QuietStep DEF Resolve

LEMMA ReadAndVerifySound ==
  ASSUME ~Python, TypeOK, Sound, NEW c \in Clients, ReadAndVerify(c)
  PROVE  Sound'
<1> DEFINE me == client[c]
<1>1. PICK s \in Views(me.file) :
        IF ApplyOk(s, me.rec, me.text, me.ack)
        THEN Become(c, [me EXCEPT !.phase = "ready", !.src = s,
                                  !.new = Splice(s, me.rec, me.text)])
        ELSE Become(c, Idle)
  BY DEF ReadAndVerify
<1>2. /\ me \in ClientState /\ me.file \in Files /\ me.phase = "resolved"
      /\ UNCHANGED <<disk, authored>>
      /\ Expose(me.file, WindowOpen(me.file))
  BY ClientFields DEF ReadAndVerify
<1>3. \A f \in Files : exposed[f] => exposed'[f]
  BY <1>2 DEF Expose, TypeOK
<1>4. CASE ~ApplyOk(s, me.rec, me.text, me.ack)
  <2>1. Become(c, Idle) /\ Idle.phase = "idle"
    BY <1>1, <1>4 DEF Idle
  <2> QED
    BY <2>1, <1>2, <1>3, QuietStep
<1>5. CASE ApplyOk(s, me.rec, me.text, me.ack)
  <2> DEFINE v == [me EXCEPT !.phase = "ready", !.src = s,
                             !.new = Splice(s, me.rec, me.text)]
  <2>1. /\ Become(c, v) /\ v.phase = "ready" /\ v.file = me.file
        /\ v.new = Splice(s, me.rec, me.text)
    BY <1>1, <1>2, <1>5 DEF ClientState
  <2>2. ASSUME ~exposed'[me.file]
        PROVE  AuthorCode(v.new) = authored[me.file]
    <3>1. ~exposed[me.file] /\ ~WindowOpen(me.file)
      BY <1>2, <2>2 DEF Expose, TypeOK
    <3>2. AuthorCode(s) = authored[me.file]
      BY <1>2, <3>1, CleanRead
    <3>3. CommentEditOk(s, me.rec, me.text)
      BY <1>5 DEF ApplyOk
    <3>4. /\ s \in Text /\ me.rec \in Record /\ me.text \in Text
          /\ ~IsCodeNode(me.rec)
      BY <1>2, ClientFields, ViewsAreTexts DEF IsCodeNode
    <3> HIDE DEF v
    <3> QED
      BY <2>1, <3>2, <3>3, <3>4, EditKeepsCode
  <2> HIDE DEF v
  <2> QED
    BY <2>1, <2>2, <1>2, <1>3, QuietStep
<1> QED
  BY <1>4, <1>5

LEMMA StartStripSound ==
  ASSUME TypeOK, Sound, NEW c \in Clients, StartStrip(c)
  PROVE  Sound'
<1>1. PICK policy \in Policies, dry \in BOOLEAN :
        Become(c, [Idle EXCEPT !.phase = "walking", !.op = "strip",
                               !.policy = policy, !.dry = dry, !.todo = Files,
                               !.ack = policy.significant])
  BY DEF StartStrip
<1> DEFINE v == [Idle EXCEPT !.phase = "walking", !.op = "strip",
                             !.policy = policy, !.dry = dry, !.todo = Files,
                             !.ack = policy.significant]
<1>2. Become(c, v) /\ v.phase = "walking"
  BY <1>1 DEF Idle
<1> HIDE DEF v
<1> QED
  BY <1>2, QuietStep DEF StartStrip

LEMMA TidyIfAskedKeepsCode ==
  ASSUME NEW policy, NEW src \in Text, NEW points
  PROVE  AuthorCode(TidyIfAsked(policy, src, points)) = AuthorCode(src)
BY TidyKeepsAuthorCode DEF TidyIfAsked

LEMMA StripFileSound ==
  ASSUME TypeOK, Sound, NEW c \in Clients, StripFile(c)
  PROVE  Sound'
<1> DEFINE me == client[c]
           took(f, s) == [me EXCEPT !.file = f, !.todo = @ \ {f}, !.src = s]
<1>1. PICK f \in me.todo : \E s \in Views(f) :
        LET targets == Targets(s, me.policy)
            took0 == [me EXCEPT !.file = f, !.todo = @ \ {f}, !.src = s]
        IN  /\ Expose(f, WindowOpen(f))
            /\ CASE targets = {} -> Become(c, NextFile(took0))
                 [] targets # {} /\ BatchOk(s, targets) ->
                      Become(c, [took0 EXCEPT
                        !.phase = "ready",
                        !.new = TidyIfAsked(me.policy, BatchText(s, targets),
                                            PointsOf(targets))])
                 [] OTHER ->
                      Become(c, [took0 EXCEPT !.phase = "isolating", !.new = s,
                                              !.targets = targets])
  BY DEF StripFile
<1>2. PICK s \in Views(f) :
        LET targets == Targets(s, me.policy)
            took0 == [me EXCEPT !.file = f, !.todo = @ \ {f}, !.src = s]
        IN  /\ Expose(f, WindowOpen(f))
            /\ \/ Become(c, NextFile(took0))
               \/ /\ BatchOk(s, targets)
                  /\ Become(c, [took0 EXCEPT
                        !.phase = "ready",
                        !.new = TidyIfAsked(me.policy, BatchText(s, targets),
                                            PointsOf(targets))])
               \/ Become(c, [took0 EXCEPT !.phase = "isolating", !.new = s,
                                          !.targets = targets])
  BY <1>1
<1> DEFINE targets == Targets(s, me.policy)
           stripped == BatchText(s, targets)
           tidied == TidyIfAsked(me.policy, stripped, PointsOf(targets))
           w == took(f, s)
<1>3. /\ f \in Files /\ s \in Text /\ me.phase = "walking"
      /\ UNCHANGED <<disk, authored>> /\ Expose(f, WindowOpen(f))
  BY <1>2, ClientFields, ViewsAreTexts DEF StripFile
<1>4. w \in ClientState /\ w.file = f
  BY <1>3, ClientFields DEF ClientState
<1>5. \A g \in Files : exposed[g] => exposed'[g]
  BY <1>3 DEF Expose, TypeOK
<1>6. ~exposed'[f] => AuthorCode(s) = authored[f]
  <2>1. ~exposed'[f] => ~exposed[f] /\ ~WindowOpen(f)
    BY <1>3 DEF Expose, TypeOK
  <2> QED
    BY <1>3, <2>1, CleanRead
<1>7. CASE Become(c, NextFile(w))
  <2> HIDE DEF w
  <2>1. NextFile(w).phase \notin {"isolating", "ready", "writing"}
    BY <1>4, NextFileHoldsNothing
  <2> QED
    BY <1>3, <1>5, <1>7, <2>1, QuietStep
<1>8. CASE /\ BatchOk(s, targets)
           /\ Become(c, [w EXCEPT !.phase = "ready", !.new = tidied])
  <2> DEFINE v == [w EXCEPT !.phase = "ready", !.new = tidied]
  <2>1. v.phase = "ready" /\ v.file = f /\ v.new = tidied
    <3> HIDE DEF w, tidied
    <3> QED
      BY <1>4 DEF ClientState
  <2>2. AuthorCode(tidied) = AuthorCode(s)
    <3>1. targets \subseteq Extract(s)
      BY DEF Targets
    <3> HIDE DEF targets
    <3>2. AuthorCode(stripped) = AuthorCode(s)
      BY <1>3, <1>8, <3>1, BatchKeepsCode
    <3>3. stripped \in Text
      BY <1>3, KeepAtIsText DEF BatchText
    <3> QED
      BY <3>2, <3>3, TidyIfAskedKeepsCode
  <2>3. Become(c, v)
    BY <1>8
  <2> HIDE DEF v, tidied, w
  <2> QED
    BY <2>1, <2>2, <2>3, <1>3, <1>5, <1>6, QuietStep
<1>9. CASE Become(c, [w EXCEPT !.phase = "isolating", !.new = s, !.targets = targets])
  <2> DEFINE v == [w EXCEPT !.phase = "isolating", !.new = s, !.targets = targets]
  <2>1. v.phase = "isolating" /\ v.file = f /\ v.new = s
    <3> HIDE DEF w, targets
    <3> QED
      BY <1>4 DEF ClientState
  <2>2. Become(c, v)
    BY <1>9
  <2> HIDE DEF v, w, targets
  <2> QED
    BY <2>1, <2>2, <1>3, <1>5, <1>6, QuietStep
<1> QED
  BY <1>2, <1>7, <1>8, <1>9

LEMMA SkipFileSound ==
  ASSUME TypeOK, Sound, NEW c \in Clients, SkipFile(c)
  PROVE  Sound'
<1>1. PICK f \in client[c].todo :
        Become(c, NextFile([client[c] EXCEPT !.file = f, !.todo = @ \ {f}]))
  BY DEF SkipFile
<1> DEFINE w == [client[c] EXCEPT !.file = f, !.todo = @ \ {f}]
<1>2. w \in ClientState
  BY ClientFields DEF ClientState
<1> HIDE DEF w
<1>3. NextFile(w).phase \notin {"isolating", "ready", "writing"}
  BY <1>2, NextFileHoldsNothing
<1>4. Become(c, NextFile(w))
  BY <1>1 DEF w
<1> QED
  BY <1>3, <1>4, QuietStep DEF SkipFile

LEMMA IsolateOneSound ==
  ASSUME TypeOK, Sound, DocstringsStand, NEW c \in Clients, IsolateOne(c)
  PROVE  Sound'
<1> DEFINE me == client[c]
<1>1. PICK r \in me.targets :
        Become(c,
          IF ApplyOk(me.new, r, <<>>, me.policy.significant)
          THEN [me EXCEPT
                  !.new = Splice(@, r, <<>>),
                  !.targets = @ \ {r},
                  !.points = {SlideDown(p, r) : p \in @} \cup {r.first - 1}]
          ELSE [me EXCEPT !.targets = @ \ {r}])
  BY DEF IsolateOne
<1>2. /\ me \in ClientState /\ me.phase = "isolating"
      /\ UNCHANGED <<disk, authored, exposed>>
  BY ClientFields DEF IsolateOne
<1>3. ~exposed[me.file] => AuthorCode(me.new) = authored[me.file]
  BY <1>2, ClientFields DEF Sound, HeldCode, Holds
<1>4. PICK new, targets, points :
        /\ Become(c, [me EXCEPT !.new = new, !.targets = targets, !.points = points])
        /\ \/ new = me.new
           \/ CommentEditOk(me.new, r, <<>>) /\ new = Splice(me.new, r, <<>>)
  <2>1. CASE ApplyOk(me.new, r, <<>>, me.policy.significant)
    <3>1. CommentEditOk(me.new, r, <<>>)
      BY <2>1 DEF ApplyOk
    <3> WITNESS Splice(me.new, r, <<>>), me.targets \ {r},
                {SlideDown(p, r) : p \in me.points} \cup {r.first - 1}
    <3> QED
      BY <1>1, <2>1, <3>1
  <2>2. CASE ~ApplyOk(me.new, r, <<>>, me.policy.significant)
    <3>1. [me EXCEPT !.targets = @ \ {r}]
            = [me EXCEPT !.new = me.new, !.targets = me.targets \ {r}, !.points = me.points]
      BY <1>2 DEF ClientState
    <3> WITNESS me.new, me.targets \ {r}, me.points
    <3> QED
      BY <1>1, <2>2, <3>1
  <2> QED
    BY <2>1, <2>2
<1> DEFINE v == [me EXCEPT !.new = new, !.targets = targets, !.points = points]
<1>5. v.phase = "isolating" /\ v.file = me.file /\ v.new = new
  BY <1>2 DEF ClientState
<1>6. AuthorCode(new) = AuthorCode(me.new)
  <2>1. me.new \in Text /\ r \in Record /\ <<>> \in Text
    BY <1>2, ApplyAssumption DEF ClientState, ApplyAssumption
  <2>2. IsCodeNode(r) => \A i \in Span(r) : me.new[i] \notin Code
    BY <1>2 DEF DocstringsStand
  <2> QED
    BY <1>4, <2>1, <2>2, EditKeepsCode
<1>7. Become(c, v)
  BY <1>4
<1> HIDE DEF v
<1> QED
  BY <1>2, <1>3, <1>5, <1>6, <1>7, QuietStep

LEMMA IsolateDoneSound ==
  ASSUME TypeOK, Sound, NEW c \in Clients, IsolateDone(c)
  PROVE  Sound'
<1> DEFINE me == client[c]
           tidied == TidyIfAsked(me.policy, me.new, me.points)
           v == [me EXCEPT !.phase = "ready", !.new = tidied]
<1>1. /\ me \in ClientState /\ me.phase = "isolating"
      /\ UNCHANGED <<disk, authored, exposed>>
      /\ Become(c, NextFile(me)) \/ Become(c, v)
  BY ClientFields DEF IsolateDone
<1>2. CASE Become(c, NextFile(me))
  BY <1>1, <1>2, NextFileHoldsNothing, QuietStep
<1>3. CASE Become(c, v)
  <2>1. v.phase = "ready" /\ v.file = me.file /\ v.new = tidied
    <3> HIDE DEF tidied
    <3> QED
      BY <1>1 DEF ClientState
  <2>2. AuthorCode(tidied) = AuthorCode(me.new)
    <3>1. me.new \in Text
      BY <1>1 DEF ClientState
    <3> QED
      BY <3>1, TidyIfAskedKeepsCode
  <2>3. ~exposed[me.file] => AuthorCode(me.new) = authored[me.file]
    BY <1>1, ClientFields DEF Sound, HeldCode, Holds
  <2> HIDE DEF v, tidied
  <2> QED
    BY <1>1, <1>3, <2>1, <2>2, <2>3, QuietStep
<1> QED
  BY <1>1, <1>2, <1>3

LEMMA SkipWriteSound ==
  ASSUME TypeOK, Sound, NEW c \in Clients, SkipWrite(c)
  PROVE  Sound'
<1>1. client[c] \in ClientState
  BY ClientFields
<1> QED
  BY <1>1, NextFileHoldsNothing, QuietStep DEF SkipWrite

LEMMA AbandonSound ==
  ASSUME TypeOK, Sound, NEW c \in Clients, Abandon(c)
  PROVE  Sound'
<1>1. Idle.phase = "idle"
  BY DEF Idle
<1> QED
  BY <1>1, QuietStep DEF Abandon

\* Opening for writing: in an unexposed file nobody else has it open.
LEMMA TruncateSound ==
  ASSUME TypeOK, Sound, NEW c \in Clients, Truncate(c)
  PROVE  Sound'
<1> DEFINE me == client[c]
<1> SUFFICES ASSUME NEW f \in Files, ~exposed'[f]
             PROVE  HeldCode(f)' /\ OneWriter(f)' /\ Truncated(f)' /\ DiskCode(f)'
  BY DEF Sound
<1>1. /\ me \in ClientState /\ me.file \in Files /\ me.phase = "ready"
      /\ UNCHANGED authored
      /\ disk' = [disk EXCEPT ![me.file] = <<>>]
      /\ exposed' = [exposed EXCEPT ![me.file] = @ \/ WindowOpen(me.file)]
      /\ Become(c, [me EXCEPT !.phase = "writing"])
  BY ClientFields DEF Truncate, Expose
<1>2. ~exposed[f] /\ (f = me.file => ~WindowOpen(f))
  BY <1>1 DEF TypeOK
<1>3. HeldCode(f) /\ OneWriter(f) /\ Truncated(f) /\ DiskCode(f)
  BY <1>2 DEF Sound
<1>4. /\ client'[c].phase = "writing" /\ client'[c].file = me.file
      /\ client'[c].new = me.new
      /\ \A d \in Clients : d # c => client'[d] = client[d]
  BY <1>1 DEF Become, TypeOK, ClientState
<1>5. HeldCode(f)'
  BY <1>1, <1>3, <1>4 DEF HeldCode, Holds
<1>6. CASE f = me.file
  <2>1. \A d \in Clients : WritesTo(d, f)' <=> d = c
    BY <1>2, <1>4, <1>6 DEF WritesTo, WindowOpen
  <2>2. OneWriter(f)'
    BY <2>1 DEF OneWriter
  <2>3. WindowOpen(f)' /\ disk'[f] = <<>>
    BY <1>1, <1>4, <1>6 DEF WindowOpen, TypeOK
  <2> QED
    BY <1>5, <2>2, <2>3 DEF Truncated, DiskCode
<1>7. CASE f # me.file
  <2>1. \A d \in Clients : WritesTo(d, f)' <=> WritesTo(d, f)
    BY <1>1, <1>4, <1>7 DEF WritesTo
  <2>2. OneWriter(f)'
    BY <1>3, <2>1 DEF OneWriter
  <2>3. (WindowOpen(f)' <=> WindowOpen(f)) /\ disk'[f] = disk[f]
    BY <1>1, <1>7, <2>1 DEF WindowOpen, WritesTo, TypeOK
  <2> QED
    BY <1>1, <1>3, <1>5, <2>2, <2>3 DEF Truncated, DiskCode
<1> QED
  BY <1>6, <1>7

\* Filling a file that was truncated for this client alone puts down its text.
LEMMA FillSound ==
  ASSUME TypeOK, Sound, NEW c \in Clients, Fill(c)
  PROVE  Sound'
<1> DEFINE me == client[c]
<1> SUFFICES ASSUME NEW f \in Files, ~exposed'[f]
             PROVE  HeldCode(f)' /\ OneWriter(f)' /\ Truncated(f)' /\ DiskCode(f)'
  BY DEF Sound
<1>1. /\ me \in ClientState /\ me.file \in Files /\ me.phase = "writing"
      /\ UNCHANGED <<authored, exposed>>
      /\ disk' = [disk EXCEPT ![me.file] = Overlay(@, me.new, Len(me.new))]
      /\ Become(c, NextFile(me))
  BY ClientFields DEF Fill
<1>2. HeldCode(f) /\ OneWriter(f) /\ Truncated(f) /\ DiskCode(f)
  BY <1>1 DEF Sound
<1>3. /\ client'[c].phase \notin {"isolating", "ready", "writing"}
      /\ \A d \in Clients : d # c => client'[d] = client[d]
  BY <1>1, NextFileHoldsNothing DEF Become, TypeOK
<1>4. HeldCode(f)'
  BY <1>1, <1>2, <1>3 DEF HeldCode, Holds
<1>5. \A d \in Clients : WritesTo(d, f)' <=> WritesTo(d, f) /\ d # c
  BY <1>3 DEF WritesTo
<1>6. OneWriter(f)'
  BY <1>2, <1>5 DEF OneWriter
<1>7. CASE f = me.file
  <2>1. \A d \in Clients : WritesTo(d, f) <=> d = c
    BY <1>1, <1>2, <1>7 DEF WritesTo, OneWriter
  <2>2. ~WindowOpen(f)'
    BY <1>5, <2>1 DEF WindowOpen, WritesTo
  <2>3. disk[f] = <<>>
    BY <1>1, <1>2, <1>7 DEF Truncated, WindowOpen
  <2>4. Overlay(<<>>, me.new, Len(me.new)) = me.new
    <3>1. me.new \in Seq(Atom) /\ Len(me.new) \in Nat
      BY ClientFields, LenProperties DEF Text
    <3>2. SubSeq(me.new, 1, Len(me.new)) = me.new
      BY <3>1, SubSeqFull
    <3>3. SubSeq(<<>>, Len(me.new) + 1, Len(<<>>)) = <<>>
      <4>1. Len(<<>>) = 0
        BY EmptySeq
      <4>2. Len(me.new) + 1 \in Int /\ 0 < Len(me.new) + 1
        BY <3>1
      <4> QED
        BY <4>1, <4>2, SubSeqEmpty
    <3> QED
      BY <3>1, <3>2, <3>3, ConcatEmptySeq DEF Overlay
  <2>5. disk'[f] = me.new
    BY <1>1, <1>7, <2>3, <2>4 DEF TypeOK
  <2>6. AuthorCode(me.new) = authored[f]
    BY <1>1, <1>2, <1>7 DEF HeldCode, Holds
  <2> QED
    BY <1>1, <1>4, <1>6, <2>2, <2>5, <2>6 DEF Truncated, DiskCode
<1>8. CASE f # me.file
  <2>1. disk'[f] = disk[f]
    BY <1>1, <1>8 DEF TypeOK
  <2>2. WindowOpen(f)' <=> WindowOpen(f)
    BY <1>5, <1>8 DEF WindowOpen, WritesTo
  <2> QED
    BY <1>1, <1>2, <1>4, <1>6, <2>1, <2>2 DEF Truncated, DiskCode
<1> QED
  BY <1>7, <1>8

\* A torn write exposes its file and disturbs no other.
LEMMA TearSound ==
  ASSUME TypeOK, Sound, NEW c \in Clients, Tear(c)
  PROVE  Sound'
<1> DEFINE me == client[c]
<1> SUFFICES ASSUME NEW f \in Files, ~exposed'[f]
             PROVE  HeldCode(f)' /\ OneWriter(f)' /\ Truncated(f)' /\ DiskCode(f)'
  BY DEF Sound
<1>1. /\ me.file \in Files /\ UNCHANGED authored
      /\ exposed' = [exposed EXCEPT ![me.file] = @ \/ TRUE]
      /\ Become(c, Idle)
      /\ \E text : disk' = [disk EXCEPT ![me.file] = text]
  BY ClientFields DEF Tear, Expose
<1>2. f # me.file /\ ~exposed[f] /\ disk'[f] = disk[f]
  BY <1>1 DEF TypeOK
<1>3. HeldCode(f) /\ OneWriter(f) /\ Truncated(f) /\ DiskCode(f)
  BY <1>2 DEF Sound
<1>4. client'[c].phase = "idle" /\ \A d \in Clients : d # c => client'[d] = client[d]
  BY <1>1 DEF Become, TypeOK, Idle
<1>5. \A d \in Clients : WritesTo(d, f)' <=> WritesTo(d, f)
  BY <1>2, <1>4 DEF WritesTo
<1>6. HeldCode(f)' /\ OneWriter(f)'
  BY <1>1, <1>3, <1>4, <1>5 DEF HeldCode, Holds, OneWriter
<1>7. WindowOpen(f)' <=> WindowOpen(f)
  BY <1>5 DEF WindowOpen, WritesTo
<1> QED
  BY <1>1, <1>2, <1>3, <1>6, <1>7 DEF Truncated, DiskCode

LEMMA CheckSound ==
  ASSUME Sound, NEW f \in Files, Check(f)
  PROVE  Sound'
BY DEF Check, Sound, HeldCode, Holds, OneWriter, WritesTo, Truncated, DiskCode, WindowOpen

\* A save starts the file's history afresh, unless a client still holds an
\* older text of it.
LEMMA AuthorSaveSound ==
  ASSUME TypeOK, Sound, NEW g \in Files, AuthorSave(g)
  PROVE  Sound'
<1> SUFFICES ASSUME NEW f \in Files, ~exposed'[f]
             PROVE  HeldCode(f)' /\ OneWriter(f)' /\ Truncated(f)' /\ DiskCode(f)'
  BY DEF Sound
<1>1. PICK s \in AuthorVersions[g] :
        /\ disk' = [disk EXCEPT ![g] = s]
        /\ authored' = [authored EXCEPT ![g] = AuthorCode(s)]
        /\ exposed' = [exposed EXCEPT ![g] = Holding(g)]
        /\ UNCHANGED client
  BY DEF AuthorSave
<1>2. CASE f = g
  <2>1. ~Holding(f)
    BY <1>1, <1>2 DEF TypeOK
  <2>2. \A c \in Clients : ~Holds(c, f)' /\ ~WritesTo(c, f)'
    BY <1>1, <2>1 DEF Holding, Holds, WritesTo
  <2>3. disk'[f] = s /\ authored'[f] = AuthorCode(s)
    BY <1>1, <1>2 DEF TypeOK
  <2>4. ~WindowOpen(f)'
    BY <2>2 DEF WindowOpen, WritesTo
  <2>5. HeldCode(f)' /\ OneWriter(f)'
    BY <2>2 DEF HeldCode, OneWriter
  <2>6. AuthorCode(disk[f])' = authored'[f]
    BY <2>3 DEF AuthorCode
  <2> QED
    BY <2>4, <2>5, <2>6 DEF Truncated, DiskCode
<1>3. CASE f # g
  <2>1. ~exposed[f] /\ disk'[f] = disk[f] /\ authored'[f] = authored[f]
    BY <1>1, <1>3 DEF TypeOK
  <2>2. HeldCode(f) /\ OneWriter(f) /\ Truncated(f) /\ DiskCode(f)
    BY <2>1 DEF Sound
  <2> QED
    BY <1>1, <2>1, <2>2 DEF HeldCode, Holds, OneWriter, WritesTo, Truncated,
                            DiskCode, WindowOpen
<1> QED
  BY <1>2, <1>3

LEMMA InitSound == Init => Sound
<1> SUFFICES ASSUME Init, NEW f \in Files
             PROVE  HeldCode(f) /\ OneWriter(f) /\ Truncated(f) /\ DiskCode(f)
  BY DEF Sound
<1>1. \A c \in Clients : client[c].phase = "idle"
  BY DEF Init, Idle
<1>2. AuthorCode(disk[f]) = authored[f]
  BY DEF Init
<1> QED
  BY <1>1, <1>2 DEF HeldCode, Holds, OneWriter, WritesTo, Truncated, DiskCode, WindowOpen

LEMMA StripSound ==
  ASSUME TypeOK, Sound, DocstringsStand, [StripNext]_vars
  PROVE  Sound'
<1>1. CASE UNCHANGED vars
  BY <1>1 DEF vars, Sound, HeldCode, Holds, OneWriter, WritesTo, Truncated, DiskCode,
              WindowOpen
<1>2. ASSUME NEW c \in Clients, StripStep(c)
      PROVE  Sound'
  BY <1>2, StartStripSound, StripFileSound, SkipFileSound, IsolateOneSound,
     IsolateDoneSound, SkipWriteSound DEF StripStep
<1>3. ASSUME NEW c \in Clients, WriteStep(c)
      PROVE  Sound'
  BY <1>3, TruncateSound, FillSound, TearSound, AbandonSound DEF WriteStep
<1>4. CASE World
  BY <1>4, CheckSound, AuthorSaveSound DEF World
<1> QED
  BY <1>1, <1>2, <1>3, <1>4 DEF StripNext

\* An edit is another matter in Python: its range is from the index, and what
\* was a docstring there may be code by now.
LEMMA SoundStep ==
  ASSUME ~Python, TypeOK, Sound, [Next]_vars
  PROVE  Sound'
<1>1. ASSUME NEW c \in Clients, EditStep(c)
      PROVE  Sound'
  BY <1>1, ResolveSound, ReadAndVerifySound DEF EditStep
<1>2. DocstringsStand
  BY DEF DocstringsStand, IsCodeNode
<1>3. (\E c \in Clients : EditStep(c)) \/ [StripNext]_vars
  BY DEF Next, StripNext
<1> QED
  BY <1>1, <1>2, <1>3, StripSound

\* Parse-invariance end to end, for every language but Python: however edits,
\* strip passes, re-checks and saves interleave, and however stale the index, a
\* file whose writes were not overlapped or torn has the code its author saved.
THEOREM CodeIsKept == ~Python => (Spec => []CodeKept)
<1>1. ASSUME ~Python
      PROVE  Spec => []CodeKept
  <2>1. Init => TypeOK /\ Sound
    BY InitType, InitSound
  <2>2. TypeOK /\ Sound /\ TypeOK' /\ [Next]_vars => (TypeOK /\ Sound)'
    BY <1>1, SoundStep
  <2>3. Sound => CodeKept
    BY DEF Sound, DiskCode, CodeKept
  <2> QED
    BY <2>1, <2>2, <2>3, TypeCorrect, PTL DEF Spec
<1> QED
  BY <1>1
=============================================================================
