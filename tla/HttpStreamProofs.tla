-------------------------- MODULE HttpStreamProofs --------------------------
(***************************************************************************)
(* The pipeline between network and reader, for any chunks, limits, ways   *)
(* of waiting and allocation failures: it never loses, repeats or moves a  *)
(* chunk, and so the stream implements ByteStream.                         *)
(***************************************************************************)
EXTENDS HttpStream, SequenceTheorems, TLAPS

Recursion == INSTANCE RecursionProofs

Chunks == 1 .. MaxChunks
UpTo(n) == [i \in 1 .. n |-> i]

\* What is given, detached, queued and being copied.
Sequences ==
  /\ arrived \in 0 .. MaxChunks
  /\ got \in Seq(Chunks) /\ taken \in Seq(Chunks)
  /\ queue \in Seq(Chunks) /\ held \in Seq(Chunks)

\* Where the helper is, and what that says of its chunk and its verdict.
HelperShape ==
  /\ helper \in {"perform", "copying", "returned", "exited"}
  /\ helper = "copying" => held = <<arrived>> /\ arrived > 0
  /\ helper # "copying" => held = << >>
  /\ helper \in {"perform", "copying"} => code = "none" /\ ~writeFailed
  /\ writeFailed \in BOOLEAN
  /\ helper \in {"returned", "exited"} => code \in {"ok", "network", "aborted", "write"}
  /\ writeFailed <=> code = "write"

\* Where the reader is: a detached list is there only while it is joined,
\* the stream ends only when the helper is gone and nothing is left, and it
\* is closed only after that.
ReaderShape ==
  /\ main \in {"reading", "waiting", "woken", "joining", "finishing", "closed"}
  /\ sawDone \in BOOLEAN
  /\ main # "joining" => taken = << >>
  /\ sawDone => /\ main \in {"reading", "finishing", "closed"}
                /\ helper = "exited" /\ queue = << >>
  /\ main = "closed" => helper = "exited"

\* The pipeline alone is not inductive: a chunk could be linked twice or while
\* another is copied, or arrive after a failure.
IInv == Sequences /\ HelperShape /\ ReaderShape /\ PipelineIsWhole

-----------------------------------------------------------------------------
(* Sequences of chunks. *)

\* The chunks up to the n-th are a sequence of that length.
LEMMA UpToSeq ==
  ASSUME NEW n \in 0 .. MaxChunks
  PROVE  UpTo(n) \in Seq(Chunks) /\ Len(UpTo(n)) = n
BY SizeAssumption DEF UpTo, Chunks

\* One more chunk at the end.
LEMMA UpToNext ==
  ASSUME NEW n \in 0 .. MaxChunks, n < MaxChunks
  PROVE  UpTo(n) \o <<n + 1>> = UpTo(n + 1)
<1>1. /\ UpTo(n) \in Seq(Chunks) /\ UpTo(n + 1) \in Seq(Chunks)
      /\ n + 1 \in Chunks /\ <<n + 1>> \in Seq(Chunks) /\ Len(<<n + 1>>) = 1
  <2>1. n + 1 \in 0 .. MaxChunks /\ n + 1 \in Chunks
    BY SizeAssumption DEF Chunks
  <2> QED
    BY <2>1, UpToSeq
<1>2. Len(UpTo(n)) = n /\ Len(UpTo(n + 1)) = n + 1
  BY SizeAssumption, UpToSeq
<1> DEFINE s == UpTo(n) \o <<n + 1>>
<1>3. s \in Seq(Chunks) /\ Len(s) = n + 1
      /\ \A i \in 1 .. n + 1 : s[i] = IF i <= n THEN UpTo(n)[i] ELSE <<n + 1>>[i - n]
  <2>1. /\ s \in Seq(Chunks) /\ Len(s) = Len(UpTo(n)) + Len(<<n + 1>>)
        /\ \A i \in 1 .. Len(UpTo(n)) + Len(<<n + 1>>) :
             s[i] = IF i <= Len(UpTo(n)) THEN UpTo(n)[i] ELSE <<n + 1>>[i - Len(UpTo(n))]
    BY <1>1, ConcatProperties
  <2> QED
    BY <1>1, <1>2, <2>1
<1>4. \A i \in 1 .. n + 1 : s[i] = UpTo(n + 1)[i]
  BY <1>3 DEF UpTo
<1> QED
  BY <1>1, <1>2, <1>3, <1>4, SeqEqual

\* The beginning of the chunks up to the n-th is the chunks up to its length.
LEMMA UpToPrefix ==
  ASSUME NEW n \in 0 .. MaxChunks, NEW s \in Seq(Chunks), NEW t \in Seq(Chunks),
         s \o t = UpTo(n)
  PROVE  Len(s) \in 0 .. n /\ s = UpTo(Len(s))
<1>1. Len(s) \in Nat /\ Len(t) \in Nat /\ Len(s) + Len(t) = n
      /\ \A i \in 1 .. Len(s) + Len(t) : (s \o t)[i] = IF i <= Len(s) THEN s[i] ELSE t[i - Len(s)]
  BY ConcatProperties, LenProperties, UpToSeq, ZenonT(110)
<1>2. Len(s) \in 0 .. n /\ Len(s) \in 0 .. MaxChunks
  BY <1>1, SizeAssumption
<1>3. \A i \in 1 .. Len(s) : s[i] = UpTo(Len(s))[i]
  <2> TAKE i \in 1 .. Len(s)
  <2>1. i \in 1 .. n /\ (s \o t)[i] = s[i]
    BY <1>1
  <2>2. UpTo(n)[i] = i /\ UpTo(Len(s))[i] = i
    BY <1>1, <2>1 DEF UpTo
  <2> QED
    BY <2>1, <2>2
<1> QED
  BY <1>2, <1>3, UpToSeq, SeqEqual

\* The laws of concatenation; under a name of its own it is opaque to the provers.
Cat(s, t) == s \o t

LEMMA CatType == \A s, t \in Seq(Chunks) : Cat(s, t) \in Seq(Chunks)
BY ConcatProperties DEF Cat

LEMMA CatGroups == \A s, t, u \in Seq(Chunks) : Cat(Cat(s, t), u) = Cat(s, Cat(t, u))
BY ConcatAssociative, SMTT(60) DEF Cat

LEMMA CatEmpty ==
  << >> \in Seq(Chunks) /\ \A s \in Seq(Chunks) : Cat(s, << >>) = s /\ Cat(<< >>, s) = s
BY ConcatEmptySeq DEF Cat

-----------------------------------------------------------------------------
(* What a step does to the pipeline, with a, b, c and d for what is given,   *)
(* detached, queued and being copied.                                        *)

Line(a, b, c, d) == Cat(Cat(Cat(a, b), c), d)

LEMMA LineType ==
  \A a, b, c, d \in Seq(Chunks) : Line(a, b, c, d) \in Seq(Chunks)
BY CatType DEF Line

\* What was given is the beginning of it, with what was detached and without.
LEMMA GivenFirst ==
  \A a, b, c, d \in Seq(Chunks) :
    /\ Cat(c, d) \in Seq(Chunks) /\ Cat(b, Cat(c, d)) \in Seq(Chunks)
    /\ Line(a, b, c, d) = Cat(Cat(a, b), Cat(c, d))
    /\ Line(a, b, c, d) = Cat(a, Cat(b, Cat(c, d)))
<1> SUFFICES ASSUME NEW a \in Seq(Chunks), NEW b \in Seq(Chunks),
                    NEW c \in Seq(Chunks), NEW d \in Seq(Chunks)
             PROVE  /\ Cat(c, d) \in Seq(Chunks) /\ Cat(b, Cat(c, d)) \in Seq(Chunks)
                    /\ Line(a, b, c, d) = Cat(Cat(a, b), Cat(c, d))
                    /\ Line(a, b, c, d) = Cat(a, Cat(b, Cat(c, d)))
  OBVIOUS
<1>1. Cat(a, b) \in Seq(Chunks) /\ Cat(c, d) \in Seq(Chunks)
  BY CatType
<1>2. Cat(b, Cat(c, d)) \in Seq(Chunks)
  BY <1>1, CatType
<1>3. Line(a, b, c, d) = Cat(Cat(a, b), Cat(c, d))
  BY <1>1, CatGroups DEF Line
<1>4. Cat(Cat(a, b), Cat(c, d)) = Cat(a, Cat(b, Cat(c, d)))
  BY <1>1, CatGroups
<1> QED
  BY <1>1, <1>2, <1>3, <1>4

\* Linking the chunk that was copied.
LEMMA Linked ==
  \A a, b, c, d \in Seq(Chunks) : Line(a, b, Cat(c, d), << >>) = Line(a, b, c, d)
<1> SUFFICES ASSUME NEW a \in Seq(Chunks), NEW b \in Seq(Chunks),
                    NEW c \in Seq(Chunks), NEW d \in Seq(Chunks)
             PROVE  Line(a, b, Cat(c, d), << >>) = Line(a, b, c, d)
  OBVIOUS
<1>1. Cat(a, b) \in Seq(Chunks) /\ Cat(c, d) \in Seq(Chunks)
  BY CatType
<1>2. Cat(Cat(a, b), Cat(c, d)) \in Seq(Chunks)
  BY <1>1, CatType
<1>3. Line(a, b, Cat(c, d), << >>) = Cat(Cat(a, b), Cat(c, d))
  BY <1>2, CatEmpty DEF Line
<1> QED
  BY <1>1, <1>3, CatGroups DEF Line

\* Detaching the queue.
LEMMA Detached ==
  \A a, c, d \in Seq(Chunks) : Line(a, c, << >>, d) = Line(a, << >>, c, d)
BY CatType, CatEmpty DEF Line

\* Handing over what was detached.
LEMMA Handed ==
  \A a, b, c, d \in Seq(Chunks) : Line(Cat(a, b), << >>, c, d) = Line(a, b, c, d)
BY CatType, CatEmpty DEF Line

\* A sequence is its head and its tail.
LEMMA HeadFirst ==
  ASSUME NEW b \in Seq(Chunks), b # << >>
  PROVE  /\ <<Head(b)>> \in Seq(Chunks) /\ Tail(b) \in Seq(Chunks)
         /\ b = Cat(<<Head(b)>>, Tail(b))
<1> DEFINE h == <<Head(b)>>
           t == Tail(b)
<1>1. h \in Seq(Chunks) /\ t \in Seq(Chunks)
  OBVIOUS
<1>2. /\ Len(t) = Len(b) - 1 /\ Len(h) = 1 /\ h[1] = b[1] /\ Len(b) \in Nat
      /\ \A i \in 1 .. Len(t) : t[i] = b[i + 1]
  BY HeadTailProperties
<1>3. /\ h \o t \in Seq(Chunks) /\ Len(h \o t) = Len(b)
      /\ \A i \in 1 .. Len(b) : (h \o t)[i] = IF i <= 1 THEN h[i] ELSE t[i - 1]
  BY <1>1, <1>2, ConcatProperties
<1>4. \A i \in 1 .. Len(b) : (h \o t)[i] = b[i]
  BY <1>2, <1>3
<1> QED
  BY <1>1, <1>3, <1>4, SeqEqual DEF Cat

\* Handing over the first of it and putting the rest back.
LEMMA Requeued ==
  ASSUME NEW a \in Seq(Chunks), NEW b \in Seq(Chunks), NEW c \in Seq(Chunks),
         NEW d \in Seq(Chunks), b # << >>
  PROVE  Line(Cat(a, <<Head(b)>>), << >>, Cat(Tail(b), c), d) = Line(a, b, c, d)
<1> DEFINE h == <<Head(b)>>
           t == Tail(b)
<1>1. h \in Seq(Chunks) /\ t \in Seq(Chunks) /\ b = Cat(h, t)
  BY HeadFirst
<1> HIDE DEF h, t
<1>2. Line(Cat(a, h), << >>, Cat(t, c), d) = Line(Cat(a, h), t, c, d)
  <2>1. Cat(a, h) \in Seq(Chunks)
    BY <1>1, CatType
  <2>2. Cat(Cat(a, h), << >>) = Cat(a, h)
    BY <2>1, CatEmpty
  <2>3. Cat(Cat(a, h), Cat(t, c)) = Cat(Cat(Cat(a, h), t), c)
    BY <1>1, <2>1, CatGroups
  <2> QED
    BY <2>2, <2>3 DEF Line
<1>3. Line(Cat(a, h), t, c, d) = Line(a, Cat(h, t), c, d)
  <2>1. Cat(Cat(a, h), t) = Cat(a, Cat(h, t))
    BY <1>1, CatGroups
  <2> QED
    BY <2>1 DEF Line
<1> QED
  BY <1>1, <1>2, <1>3 DEF h, t

-----------------------------------------------------------------------------
(* The invariant. *)

LEMMA PipelineLine == Pipeline = Line(got, taken, queue, held)
BY DEF Pipeline, Line, Cat

LEMMA PipelineLineNext == Pipeline' = Line(got', taken', queue', held')
BY DEF Pipeline, Line, Cat

\* A step that leaves the pipeline as it is and forgets no failure.
LEMMA WholeKept ==
  ASSUME IInv, main # "closed",
         Line(got', taken', queue', held') = Line(got, taken, queue, held),
         arrived' = arrived,
         writeFailed /\ code = "write" => writeFailed' /\ code' = "write"
  PROVE  PipelineIsWhole'
BY PipelineLine, PipelineLineNext DEF IInv, PipelineIsWhole

\* While the helper works nothing was refused.
LEMMA NothingRefused ==
  ASSUME IInv, helper \in {"perform", "copying"}
  PROVE  main # "closed" /\ Pipeline = UpTo(arrived)
BY DEF IInv, HelperShape, ReaderShape, PipelineIsWhole, UpTo

LEMMA ReserveStep == ASSUME IInv, Reserve PROVE IInv'
<1>1. /\ helper = "perform" /\ held = << >> /\ code = "none" /\ ~writeFailed
      /\ arrived < MaxChunks /\ arrived' = arrived + 1 /\ arrived \in 0 .. MaxChunks
      /\ UNCHANGED <<queue, got, taken, sawDone>>
  BY DEF Reserve, IInv, HelperShape, Sequences, reader
<1>2. main # "closed" /\ Pipeline = UpTo(arrived) /\ ~sawDone
  BY <1>1, NothingRefused DEF IInv, ReaderShape
<1>3. CASE Exceeds(Size[arrived + 1])
  <2>1. /\ writeFailed' = TRUE /\ Signal /\ Returns("write") /\ UNCHANGED held
    BY <1>1, <1>3 DEF Reserve
  <2>2. Pipeline' = UpTo(arrived)
    BY <1>1, <1>2, <2>1 DEF Pipeline
  <2>3. PipelineIsWhole'
    BY <1>1, <2>1, <2>2 DEF PipelineIsWhole, UpTo, Returns
  <2>4. Sequences'
    BY <1>1, <2>1, SizeAssumption DEF IInv, Sequences
  <2>5. HelperShape' /\ ReaderShape'
    BY <1>1, <1>2, <2>1 DEF IInv, HelperShape, ReaderShape, Signal, Returns
  <2> QED
    BY <2>3, <2>4, <2>5 DEF IInv
<1>4. CASE ~Exceeds(Size[arrived + 1])
  <2>1. /\ held' = <<arrived + 1>> /\ helper' = "copying"
        /\ UNCHANGED <<main, code, writeFailed>>
    BY <1>1, <1>4 DEF Reserve
  <2>2. arrived + 1 \in Chunks
    BY <1>1, SizeAssumption DEF Chunks
  <2>3. held' \in Seq(Chunks)
    BY <2>1, <2>2
  <2>4. Pipeline' = Pipeline \o <<arrived + 1>>
    <3>1. Pipeline = got \o taken \o queue
      <4>1. Pipeline = Cat(got \o taken \o queue, << >>)
        BY <1>1 DEF Pipeline, Cat
      <4>2. got \o taken \o queue \in Seq(Chunks)
        BY CatType DEF Cat, IInv, Sequences
      <4> QED
        BY <4>1, <4>2, CatEmpty
    <3> QED
      BY <1>1, <2>1, <3>1 DEF Pipeline
  <2>5. Pipeline' = UpTo(arrived')
    BY <1>1, <1>2, <2>4, UpToNext
  <2>6. PipelineIsWhole'
    BY <1>1, <2>5 DEF PipelineIsWhole, UpTo
  <2>7. Sequences'
    BY <1>1, <2>2, <2>3 DEF IInv, Sequences, Chunks
  <2>8. HelperShape' /\ ReaderShape'
    BY <1>1, <1>2, <2>1 DEF IInv, HelperShape, ReaderShape
  <2> QED
    BY <2>6, <2>7, <2>8 DEF IInv
<1> QED
  BY <1>3, <1>4

LEMMA LinkStep == ASSUME IInv, Link PROVE IInv'
<1>1. /\ helper = "copying" /\ queue' = Cat(queue, held) /\ held' = << >>
      /\ Signal /\ helper' = "perform"
      /\ UNCHANGED <<arrived, writeFailed, code, got, taken, sawDone>>
  BY DEF Link, Cat, reader
<1>2. main # "closed" /\ ~sawDone
  BY <1>1 DEF IInv, HelperShape, ReaderShape
<1>3. Sequences'
  BY <1>1, CatType, CatEmpty DEF IInv, Sequences
<1>4. PipelineIsWhole'
  BY <1>1, <1>2, Linked, WholeKept DEF IInv, Sequences
<1>5. HelperShape' /\ ReaderShape'
  BY <1>1, <1>2 DEF IInv, HelperShape, ReaderShape, Signal
<1> QED
  BY <1>3, <1>4, <1>5 DEF IInv

LEMMA PushFailStep == ASSUME IInv, PushFail PROVE IInv'
<1>1. /\ helper = "copying" /\ held' = << >> /\ writeFailed' = TRUE
      /\ Signal /\ Returns("write")
      /\ UNCHANGED <<arrived, queue, got, taken, sawDone>>
  BY DEF PushFail, reader
<1>2. main # "closed" /\ Pipeline = UpTo(arrived) /\ ~sawDone /\ held = <<arrived>>
  BY <1>1, NothingRefused DEF IInv, HelperShape, ReaderShape
<1>3. arrived \in 0 .. MaxChunks /\ arrived > 0
  BY <1>1 DEF IInv, HelperShape, Sequences
<1>4. Sequences'
  BY <1>1, CatEmpty DEF IInv, Sequences
<1>5. Pipeline' = UpTo(arrived - 1)
  <2> DEFINE x == got \o taken \o queue
  <2>1. x \in Seq(Chunks) /\ held \in Seq(Chunks)
    BY CatType DEF Cat, IInv, Sequences
  <2>2. x \o held = UpTo(arrived) /\ Pipeline' = Cat(x, << >>)
    BY <1>1, <1>2 DEF Pipeline, Cat
  <2> HIDE DEF x
  <2>3. x = UpTo(Len(x)) /\ Len(x) \in 0 .. arrived
    BY <1>3, <2>1, <2>2, UpToPrefix
  <2>4. Len(x \o held) = Len(x) + 1
    BY <1>2, <2>1, ConcatProperties
  <2>5. Len(x) = arrived - 1
    BY <1>3, <2>2, <2>3, <2>4, UpToSeq
  <2> QED
    BY <2>1, <2>2, <2>3, <2>5, CatEmpty
<1>6. PipelineIsWhole'
  BY <1>1, <1>3, <1>5 DEF PipelineIsWhole, UpTo, Returns
<1>7. HelperShape' /\ ReaderShape'
  BY <1>1, <1>2 DEF IInv, HelperShape, ReaderShape, Signal, Returns
<1> QED
  BY <1>4, <1>6, <1>7 DEF IInv

\* The rest of the helper touches no chunk.
LEMMA HelperStep == ASSUME IInv, Perform \/ Exit PROVE IInv'
<1>1. /\ UNCHANGED <<arrived, held, queue, got, taken, sawDone, writeFailed>>
      /\ main # "closed" => main' # "closed"
      /\ main # main' => main' = "woken" /\ main = "waiting"
      /\ \/ /\ helper = "perform" /\ helper' = "returned"
            /\ code' \in {"ok", "network", "aborted"}
         \/ helper = "returned" /\ helper' = "exited" /\ code' = code
  BY DEF Perform, Exit, Returns, Signal, reader
<1>2. main # "closed" /\ ~sawDone
  BY <1>1 DEF IInv, HelperShape, ReaderShape
<1>3. Sequences'
  BY <1>1 DEF IInv, Sequences
<1>4. HelperShape' /\ ReaderShape'
  BY <1>1, <1>2 DEF IInv, HelperShape, ReaderShape
<1>5. PipelineIsWhole'
  BY <1>1, <1>2, WholeKept DEF IInv, HelperShape
<1> QED
  BY <1>3, <1>4, <1>5 DEF IInv

\* A poll that finds the lock: what is queued is detached, and the end is only
\* seen when nothing was.
LEMMA DetachStep ==
  ASSUME IInv, main \in {"reading", "woken"}, ~sawDone, Detach, UNCHANGED <<transfer, got>>
  PROVE  IInv'
<1>1. /\ taken' = queue /\ queue' = << >> /\ taken = << >>
      /\ main' = (IF queue # << >> THEN "joining" ELSE "reading")
      /\ sawDone' = (queue = << >> /\ helper = "exited")
      /\ UNCHANGED <<helper, arrived, held, writeFailed, code, got>>
  BY DEF Detach, done, transfer, IInv, ReaderShape
<1>2. Sequences'
  BY <1>1, CatEmpty DEF IInv, Sequences
<1>3. HelperShape' /\ ReaderShape'
  BY <1>1 DEF IInv, HelperShape, ReaderShape
<1>4. PipelineIsWhole'
  BY <1>1, Detached, WholeKept DEF IInv, Sequences
<1> QED
  BY <1>2, <1>3, <1>4 DEF IInv

LEMMA JoinStep == ASSUME IInv, Join \/ JoinFails PROVE IInv'
<1>1. /\ main = "joining" /\ main' = "reading" /\ taken' = << >> /\ ~sawDone
      /\ UNCHANGED <<helper, arrived, held, writeFailed, code, sawDone>>
  BY DEF Join, JoinFails, transfer, IInv, ReaderShape
<1>2. CASE Join
  <2>1. got' = Cat(got, taken) /\ queue' = queue
    BY <1>2 DEF Join, Cat
  <2>2. Sequences'
    BY <1>1, <2>1, CatType, CatEmpty DEF IInv, Sequences
  <2>3. PipelineIsWhole'
    BY <1>1, <2>1, Handed, WholeKept DEF IInv, Sequences
  <2> QED
    BY <1>1, <2>1, <2>2, <2>3 DEF IInv, HelperShape, ReaderShape
<1>3. CASE JoinFails
  <2>1. taken # << >> /\ got \in Seq(Chunks) /\ taken \in Seq(Chunks) /\ queue \in Seq(Chunks)
        /\ held \in Seq(Chunks) /\ Len(taken) > 1
    <3>1. got \in Seq(Chunks) /\ taken \in Seq(Chunks) /\ queue \in Seq(Chunks)
          /\ held \in Seq(Chunks) /\ Len(taken) > 1
      BY <1>3 DEF IInv, Sequences, JoinFails
    <3> QED
      BY <3>1
  <2>2. got' = Cat(got, <<Head(taken)>>) /\ queue' = Cat(Tail(taken), queue)
    <3>1. Head(taken) \in Chunks
      BY <2>1, HeadTailProperties
    <3>2. Append(got, Head(taken)) = got \o <<Head(taken)>>
      <4> DEFINE h == Head(taken)
      <4> HIDE DEF h
      <4>1. h \in Chunks => Append(got, h) = got \o <<h>>
        BY <2>1
      <4> QED
        BY <3>1, <4>1 DEF h
    <3> QED
      BY <1>3, <3>2 DEF JoinFails, Cat
  <2>3. <<Head(taken)>> \in Seq(Chunks) /\ Tail(taken) \in Seq(Chunks)
    BY <2>1, HeadFirst
  <2>4. Sequences'
    BY <1>1, <2>1, <2>2, <2>3, CatType, CatEmpty DEF IInv, Sequences
  <2>5. PipelineIsWhole'
    BY <1>1, <2>1, <2>2, Requeued, WholeKept
  <2> QED
    BY <1>1, <2>4, <2>5 DEF IInv, HelperShape, ReaderShape
<1> QED
  BY <1>2, <1>3

\* The rest of the reader.
LEMMA ReaderStep ==
  ASSUME IInv, NEW timeout,
         Poll(timeout) \/ TimeOut \/ Resume \/ Finish \/ Drop \/ Joined \/ Abort
  PROVE  IInv'
<1>1. CASE Poll(timeout) /\ Detach
  BY <1>1, DetachStep DEF Poll
<1>2. CASE Resume
  <2>1. ~sawDone
    BY <1>2 DEF Resume, IInv, ReaderShape
  <2> QED
    BY <1>2, <2>1, DetachStep DEF Resume
<1>3. CASE Joined
  <2>1. /\ main = "finishing" /\ main' = "closed" /\ helper = "exited" /\ queue' = << >>
        /\ UNCHANGED <<helper, arrived, held, writeFailed, code, taken, got, sawDone>>
    BY <1>3 DEF Joined, transfer, reader
  <2>2. Sequences'
    BY <2>1, CatEmpty DEF IInv, Sequences
  <2> QED
    BY <2>1, <2>2 DEF IInv, HelperShape, ReaderShape, PipelineIsWhole
<1>4. ASSUME main # "closed", main' # "closed", main' # "joining", main # "joining",
             ~sawDone \/ main' \in {"reading", "finishing"},
             main' \in {"reading", "waiting", "woken", "finishing"},
             UNCHANGED <<helper, arrived, held, writeFailed, code, taken, queue, got, sawDone>>
      PROVE  IInv'
  <2>1. PipelineIsWhole'
    BY <1>4, WholeKept
  <2> QED
    BY <1>4, <2>1 DEF IInv, Sequences, HelperShape, ReaderShape
<1>5. CASE Poll(timeout) /\ ~Detach
  BY <1>4, <1>5 DEF Poll, transfer
<1>6. CASE TimeOut
  BY <1>4, <1>6 DEF TimeOut, transfer, reader, IInv, ReaderShape
<1>7. CASE Finish \/ Drop
  BY <1>4, <1>7 DEF Finish, Drop, transfer, reader, IInv, ReaderShape
<1>8. CASE Abort
  <2>1. /\ main # "closed"
        /\ UNCHANGED <<main, helper, arrived, held, writeFailed, code, taken, queue, got, sawDone>>
    BY <1>8 DEF Abort, reader
  <2>2. PipelineIsWhole'
    BY <2>1, WholeKept
  <2> QED
    BY <2>1, <2>2 DEF IInv, Sequences, HelperShape, ReaderShape
<1> QED
  BY <1>1, <1>2, <1>3, <1>5, <1>6, <1>7, <1>8

LEMMA InitialState == Init => IInv
<1> SUFFICES ASSUME Init PROVE IInv
  OBVIOUS
<1>1. Sequences
  BY CatEmpty, SizeAssumption DEF Init, Sequences
<1>2. HelperShape /\ ReaderShape
  BY DEF Init, HelperShape, ReaderShape
<1>3. Pipeline = << >>
  BY <1>1, CatType, CatEmpty DEF Init, Pipeline, Cat, Sequences
<1>4. PipelineIsWhole
  <2>1. << >> = [i \in 1 .. 0 |-> i]
    OBVIOUS
  <2> QED
    BY <1>3, <2>1 DEF Init, PipelineIsWhole
<1> QED
  BY <1>1, <1>2, <1>4 DEF IInv

LEMMA NextStep == IInv /\ [Next]_vars => IInv'
<1>1. ASSUME IInv, Helper PROVE IInv'
  BY <1>1, ReserveStep, LinkStep, PushFailStep, HelperStep DEF Helper
<1>2. ASSUME IInv, Join \/ JoinFails PROVE IInv'
  BY <1>2, JoinStep
<1>3. ASSUME IInv, NEW timeout \in Timeouts, Poll(timeout) PROVE IInv'
  BY <1>3, ReaderStep
<1>4. ASSUME IInv, TimeOut \/ Resume \/ Finish \/ Drop \/ Joined \/ Abort PROVE IInv'
  BY <1>4, ReaderStep
<1>5. ASSUME IInv, UNCHANGED vars PROVE IInv'
  BY <1>5 DEF vars, IInv, Sequences, HelperShape, ReaderShape, PipelineIsWhole, Pipeline
<1> QED
  BY <1>1, <1>2, <1>3, <1>4, <1>5 DEF Next, Main

\* No chunk is lost, repeated or out of place between curl and the reader, for
\* any chunks and limits, any way of waiting and any allocation that fails; what
\* is missing at the end was refused, and the transfer's failure says so.
THEOREM Whole == Spec => []PipelineIsWhole
<1>1. IInv => PipelineIsWhole
  BY DEF IInv
<1> QED
  BY <1>1, InitialState, NextStep, PTL DEF Spec

-----------------------------------------------------------------------------
(* The refinement: every step is one of ByteStream, or none. *)

\* The values ByteStream's variables have.
absReader == IF main = "closed" THEN "closed"
             ELSE IF sawDone THEN "ended"
             ELSE IF main = "finishing" THEN "left" ELSE "reading"
absOutcome == IF ~sawDone /\ main # "closed" THEN "none"
              ELSE IF code = "ok" THEN "ok" ELSE "failed"

Stutter == UNCHANGED <<arrived, got, absReader, absOutcome>>

\* What was given to the reader is the beginning of what arrived.
LEMMA GivenInOrder ==
  ASSUME IInv, main # "closed"
  PROVE  Len(got) \in 0 .. arrived /\ got = UpTo(Len(got))
<1>1. PICK n \in 0 .. arrived : Pipeline = UpTo(n)
  BY DEF IInv, PipelineIsWhole, UpTo
<1>2. n \in 0 .. MaxChunks /\ arrived \in Nat
  BY SizeAssumption DEF IInv, Sequences
<1> DEFINE rest == Cat(taken, Cat(queue, held))
<1>3. Pipeline = Cat(got, rest) /\ rest \in Seq(Chunks) /\ got \in Seq(Chunks)
  BY PipelineLine, GivenFirst DEF IInv, Sequences
<1>4. Len(got) \in 0 .. n /\ got = UpTo(Len(got))
  BY <1>1, <1>2, <1>3, UpToPrefix DEF Cat
<1> QED
  BY <1>2, <1>4

\* The helper: a chunk that arrives is sent, and nothing else is seen.
LEMMA HelperImplements ==
  ASSUME IInv, Helper
  PROVE  Abstract!Send \/ Stutter
<1>1. helper \in {"perform", "copying", "returned"} /\ main # "closed" /\ ~sawDone
  BY DEF Helper, Reserve, Link, PushFail, Perform, Exit, IInv, ReaderShape
<1>2. /\ UNCHANGED <<got, sawDone>>
      /\ main' = main \/ (main = "waiting" /\ main' = "woken")
  BY DEF Helper, Reserve, Link, PushFail, Perform, Exit, Signal, reader
<1>3. absReader' = absReader /\ absOutcome' = absOutcome /\ absReader \in {"reading", "left"}
  BY <1>1, <1>2 DEF absReader, absOutcome
<1>4. CASE Reserve
  BY <1>2, <1>3, <1>4 DEF Reserve, Abstract!Send, absReader, absOutcome
<1>5. CASE Link \/ PushFail \/ Perform \/ Exit
  BY <1>2, <1>3, <1>5 DEF Link, PushFail, Perform, Exit, Stutter
<1> QED
  BY <1>4, <1>5 DEF Helper

\* A poll: it may see the end, and then everything was handed over.
LEMMA DetachImplements ==
  ASSUME IInv, main \in {"reading", "woken"}, ~sawDone, Detach, UNCHANGED <<transfer, got>>
  PROVE  (\E v \in {"ok", "failed"} : Abstract!End(v)) \/ Stutter
<1>1. /\ taken = << >> /\ UNCHANGED <<helper, arrived, held, writeFailed, code, got>>
      /\ main' = (IF queue # << >> THEN "joining" ELSE "reading")
      /\ sawDone' = (queue = << >> /\ helper = "exited")
  BY DEF Detach, done, transfer, IInv, ReaderShape
<1>2. CASE ~sawDone'
  BY <1>1, <1>2 DEF Stutter, absReader, absOutcome
<1>3. CASE sawDone'
  <2>1. held = << >> /\ queue = << >> /\ main' = "reading"
    BY <1>1, <1>3 DEF IInv, HelperShape
  <2>2. Pipeline = got
    <3>1. Pipeline = Line(got, << >>, << >>, << >>) /\ got \in Seq(Chunks)
      BY <1>1, <2>1, PipelineLine DEF IInv, Sequences
    <3> QED
      BY <3>1, CatEmpty DEF Line
  <2>3. code = "ok" => got = UpTo(arrived)
    BY <2>2 DEF IInv, HelperShape, PipelineIsWhole, UpTo
  <2>4. Abstract!End(IF code = "ok" THEN "ok" ELSE "failed")
    BY <1>1, <1>3, <2>1, <2>3 DEF Abstract!End, Abstract!UpTo, UpTo, absReader, absOutcome
  <2> QED
    BY <2>4
<1> QED
  BY <1>2, <1>3

\* Handing over: more of what arrived.
LEMMA JoinImplements ==
  ASSUME IInv, Join \/ JoinFails
  PROVE  Abstract!Deliver
<1>1. /\ main = "joining" /\ main' = "reading" /\ ~sawDone
      /\ UNCHANGED <<arrived, code, sawDone>>
  BY DEF Join, JoinFails, transfer, IInv, ReaderShape
<1>2. IInv' /\ main' # "closed"
  BY <1>1, JoinStep
<1>3. Len(got) \in 0 .. arrived /\ got = UpTo(Len(got))
  BY <1>1, GivenInOrder
<1>4. Len(got') \in 0 .. arrived /\ got' = UpTo(Len(got'))
  <2>1. PICK n \in 0 .. arrived' : Pipeline' = UpTo(n)
    BY <1>2 DEF IInv, PipelineIsWhole, UpTo
  <2>2. n \in 0 .. MaxChunks /\ arrived' \in Nat
    BY <1>2, SizeAssumption DEF IInv, Sequences
  <2>3. Pipeline' = got' \o Cat(taken', Cat(queue', held'))
        /\ Cat(taken', Cat(queue', held')) \in Seq(Chunks) /\ got' \in Seq(Chunks)
    <3>1. Pipeline' = Cat(got', Cat(taken', Cat(queue', held')))
          /\ Cat(taken', Cat(queue', held')) \in Seq(Chunks) /\ got' \in Seq(Chunks)
      BY <1>2, PipelineLineNext, GivenFirst, SMTT(60) DEF IInv, Sequences
    <3> QED
      BY <3>1 DEF Cat
  <2>4. Len(got') \in 0 .. n /\ got' = UpTo(Len(got'))
    BY <2>1, <2>2, <2>3, UpToPrefix
  <2> QED
    BY <1>1, <2>2, <2>4
<1>5. Len(got) <= Len(got')
  <2>1. got \in Seq(Chunks) /\ taken \in Seq(Chunks) /\ Len(got) \in Nat /\ Len(taken) \in Nat
    BY DEF IInv, Sequences
  <2>2. CASE Join
    BY <2>1, <2>2 DEF Join
  <2>3. CASE JoinFails
    BY <2>1, <2>3 DEF JoinFails
  <2> QED
    BY <2>2, <2>3
<1>6. UNCHANGED <<absReader, absOutcome>> /\ absReader = "reading"
  BY <1>1 DEF absReader, absOutcome
<1>7. PICK m \in 0 .. arrived, n \in 0 .. arrived : m <= n /\ got = UpTo(m) /\ got' = UpTo(n)
  BY <1>3, <1>4, <1>5
<1>8. n \in m .. arrived
  BY <1>7, SizeAssumption DEF IInv, Sequences
<1>9. got = Abstract!UpTo(m) /\ got' = Abstract!UpTo(n)
  BY <1>7 DEF Abstract!UpTo, UpTo
<1> QED
  BY <1>1, <1>6, <1>8, <1>9 DEF Abstract!Deliver, absReader, absOutcome

\* Giving up and closing.
LEMMA LeaveImplements ==
  ASSUME IInv, Finish \/ Drop \/ Joined
  PROVE  Abstract!Leave \/ Abstract!Close \/ Stutter
<1>1. CASE Finish \/ Drop
  <2>1. main = "reading" /\ main' = "finishing" /\ UNCHANGED <<arrived, got, sawDone, code>>
    BY <1>1 DEF Finish, Drop, transfer, reader
  <2>2. CASE sawDone
    BY <2>1, <2>2 DEF Stutter, absReader, absOutcome
  <2>3. CASE ~sawDone
    BY <2>1, <2>3 DEF Abstract!Leave, absReader, absOutcome
  <2> QED
    BY <2>2, <2>3 DEF IInv, ReaderShape
<1>2. CASE Joined
  BY <1>2 DEF Joined, transfer, reader, Abstract!Close, absReader, absOutcome
<1> QED
  BY <1>1, <1>2

LEMMA StepImplements ==
  IInv /\ [Next]_vars => [Abstract!Next]_(Abstract!vars)
<1> SUFFICES ASSUME IInv, [Next]_vars PROVE Abstract!Next \/ Stutter
  BY DEF Stutter, Abstract!vars, absReader, absOutcome
<1>1. CASE Helper
  BY <1>1, HelperImplements DEF Abstract!Next
<1>2. ASSUME NEW timeout \in Timeouts, Poll(timeout) PROVE Abstract!Next \/ Stutter
  <2>1. main = "reading" /\ ~sawDone /\ UNCHANGED <<transfer, got>>
    BY <1>2 DEF Poll
  <2>2. CASE Detach
    BY <2>1, <2>2, DetachImplements DEF Abstract!Next
  <2>3. CASE ~Detach
    BY <1>2, <2>1, <2>3 DEF Poll, transfer, Stutter, absReader, absOutcome
  <2> QED
    BY <2>2, <2>3
<1>3. CASE Resume
  <2>1. main = "woken" /\ ~sawDone /\ Detach /\ UNCHANGED <<transfer, got>>
    BY <1>3 DEF Resume, IInv, ReaderShape, transfer
  <2> QED
    BY <2>1, DetachImplements DEF Abstract!Next
<1>4. CASE Join \/ JoinFails
  BY <1>4, JoinImplements DEF Abstract!Next
<1>5. CASE Finish \/ Drop \/ Joined
  BY <1>5, LeaveImplements DEF Abstract!Next
<1>6. CASE TimeOut \/ Abort \/ UNCHANGED vars
  BY <1>6 DEF TimeOut, Abort, vars, transfer, reader, Stutter, absReader, absOutcome
<1> QED
  BY <1>1, <1>2, <1>3, <1>4, <1>5, <1>6 DEF Next, Main

\* A reader who was told that the stream ended and gets a good verdict has every
\* chunk, and never one out of order.
THEOREM Implements == Spec => ImplementsByteStream
<1>1. Init => Abstract!Init
  BY DEF Init, Abstract!Init, absReader, absOutcome
<1> QED
  BY <1>1, InitialState, NextStep, StepImplements, PTL DEF Spec, ImplementsByteStream, Abstract!Spec

-----------------------------------------------------------------------------
(* The accounts: what the queue holds against what h->queue_bytes says.    *)

IsSum(f, s) == f = [i \in 0 .. Len(s) |-> IF i = 0 THEN 0 ELSE f[i - 1] + Size[s[i]]]

LEMMA ChunkSize ==
  ASSUME NEW s \in Seq(Chunks), NEW i \in 1 .. Len(s)
  PROVE  s[i] \in Chunks /\ Size[s[i]] \in Nat
BY SizeAssumption, SMTT(60) DEF Chunks

\* The running sum exists: it iterates a step function on naturals.
LEMMA SumExists ==
  ASSUME NEW s \in Seq(Chunks)
  PROVE  \E f : IsSum(f, s) /\ \A i \in 0 .. Len(s) : f[i] \in Nat
<1> DEFINE N == Len(s)
           step == [p \in (1 .. N) \X Nat |-> p[2] + Size[s[p[1]]]]
<1>1. N \in Nat
  OBVIOUS
<1>2. PICK f : Recursion!IteratesOn(f, N, 0, step)
  <2> HIDE DEF step, N
  <2> QED
    BY <1>1, Recursion!IterationExists
<1>3. /\ f[0] = 0 /\ DOMAIN f = 0 .. N
      /\ \A i \in 1 .. N : f[i] = step[<<i, f[i - 1]>>]
  <2> HIDE DEF step, N
  <2> QED
    BY <1>1, <1>2 DEF Recursion!IteratesOn
<1>4. \A i \in 1 .. N : f[i - 1] \in Nat => f[i] = f[i - 1] + Size[s[i]] /\ f[i] \in Nat
  <2> TAKE i \in 1 .. N
  <2> HAVE f[i - 1] \in Nat
  <2>1. step[<<i, f[i - 1]>>] = f[i - 1] + Size[s[i]] /\ f[i] = step[<<i, f[i - 1]>>]
    BY <1>3
  <2>2. Size[s[i]] \in Nat
    BY ChunkSize
  <2> HIDE DEF step, N
  <2> QED
    BY <2>1, <2>2
<1> HIDE DEF step, N
<1>5. \A i \in 0 .. N : f[i] \in Nat
  <2> DEFINE X == [i \in 0 .. N |-> Nat]
  <2>1. f[0] \in X[0] /\ \A i \in 1 .. N : f[i - 1] \in X[i - 1] => f[i] \in X[i]
    BY <1>1, <1>3, <1>4
  <2>2. \A i \in 0 .. N : f[i] \in X[i]
    <3> HIDE DEF X
    <3> QED  BY <1>1, <2>1, Recursion!Induct
  <2> QED
    BY <2>2
<1>6. \A i \in 0 .. N : f[i] = IF i = 0 THEN 0 ELSE f[i - 1] + Size[s[i]]
  BY <1>1, <1>3, <1>4, <1>5
<1>7. f = [i \in 0 .. N |-> f[i]]
  BY <1>2, <1>3 DEF Recursion!IteratesOn
<1>8. IsSum(f, s)
  BY <1>6, <1>7 DEF IsSum, N
<1> QED
  BY <1>5, <1>8 DEF N

\* The sums of a beginning are those of the whole.
LEMMA SumsAgree ==
  ASSUME NEW s \in Seq(Chunks), NEW t \in Seq(Chunks), Len(s) <= Len(t),
         \A i \in 1 .. Len(s) : s[i] = t[i],
         NEW f, NEW g, IsSum(f, s), IsSum(g, t)
  PROVE  \A i \in 0 .. Len(s) : g[i] = f[i]
<1> DEFINE N == Len(s)
           X == [i \in 0 .. N |-> {f[i]}]
<1>1. N \in Nat /\ Len(t) \in Nat
  OBVIOUS
<1>2. \A i \in 0 .. N : f[i] = IF i = 0 THEN 0 ELSE f[i - 1] + Size[s[i]]
  BY DEF IsSum
<1>3. \A i \in 0 .. N : g[i] = IF i = 0 THEN 0 ELSE g[i - 1] + Size[t[i]]
  <2>1. \A i \in 0 .. Len(t) : g[i] = IF i = 0 THEN 0 ELSE g[i - 1] + Size[t[i]]
    BY DEF IsSum
  <2>2. \A i \in 0 .. N : i \in 0 .. Len(t)
    BY <1>1
  <2> QED
    BY <2>1, <2>2
<1>4. g[0] \in X[0]
  BY <1>1, <1>2, <1>3
<1>5. \A i \in 1 .. N : g[i - 1] \in X[i - 1] => g[i] \in X[i]
  <2> TAKE i \in 1 .. N
  <2> HAVE g[i - 1] \in X[i - 1]
  <2>1. i \in 0 .. N /\ i - 1 \in 0 .. N /\ i # 0
    BY <1>1
  <2>2. g[i - 1] = f[i - 1] /\ s[i] = t[i]
    BY <2>1
  <2>3. g[i] = f[i]
    BY <1>2, <1>3, <2>1, <2>2, SMTT(60)
  <2> QED
    BY <2>1, <2>3
<1>6. \A i \in 0 .. N : g[i] \in X[i]
  <2> HIDE DEF N, X
  <2> QED
    BY <1>1, <1>4, <1>5, Recursion!Induct
<1> QED
  BY <1>6

\* What Bytes computes is the last of the sums.
LEMMA BytesIsSum ==
  ASSUME NEW s \in Seq(Chunks), NEW f, IsSum(f, s)
  PROVE  Bytes(s) = f[Len(s)]
<1> DEFINE g == CHOOSE h : IsSum(h, s)
<1>1. IsSum(g, s)
  OBVIOUS
<1>2. Bytes(s) = g[Len(s)]
  BY DEF Bytes, IsSum
<1> HIDE DEF g
<1>3. \A i \in 0 .. Len(s) : g[i] = f[i]
  BY <1>1, SumsAgree
<1> QED
  BY <1>2, <1>3

LEMMA BytesType ==
  ASSUME NEW s \in Seq(Chunks)
  PROVE  Bytes(s) \in Nat
BY SumExists, BytesIsSum

LEMMA BytesEmpty == Bytes(<< >>) = 0
<1>1. << >> \in Seq(Chunks) /\ Len(<< >>) = 0
  OBVIOUS
<1>2. PICK f : IsSum(f, << >>)
  BY <1>1, SumExists
<1>3. f[0] = 0
  BY <1>1, <1>2 DEF IsSum
<1> QED
  BY <1>1, <1>2, <1>3, BytesIsSum

\* Linking a chunk adds its size.
LEMMA BytesNext ==
  ASSUME NEW s \in Seq(Chunks), NEW c \in Chunks
  PROVE  Bytes(s \o <<c>>) = Bytes(s) + Size[c]
<1> DEFINE t == s \o <<c>>
<1>1. t \in Seq(Chunks) /\ Len(t) = Len(s) + 1 /\ Len(s) \in Nat
      /\ \A i \in 1 .. Len(t) : t[i] = IF i <= Len(s) THEN s[i] ELSE c
  OBVIOUS
<1> HIDE DEF t
<1>2. PICK f : IsSum(f, s)
  BY SumExists
<1>3. PICK g : IsSum(g, t)
  BY <1>1, SumExists
<1>4. g[Len(s)] = f[Len(s)]
  <2>1. Len(s) <= Len(t) /\ \A i \in 1 .. Len(s) : s[i] = t[i]
    BY <1>1
  <2> QED
    BY <1>1, <1>2, <1>3, <2>1, SumsAgree
<1>5. g[Len(s) + 1] = g[Len(s)] + Size[c]
  BY <1>1, <1>3, SMTT(60) DEF IsSum
<1>6. Bytes(t) = g[Len(t)] /\ Bytes(s) = f[Len(s)]
  BY <1>1, <1>2, <1>3, BytesIsSum
<1> QED
  BY <1>1, <1>4, <1>5, <1>6 DEF t

LEMMA BytesOne ==
  ASSUME NEW c \in Chunks
  PROVE  Bytes(<<c>>) = Size[c]
<1>1. << >> \in Seq(Chunks) /\ << >> \o <<c>> = <<c>>
  OBVIOUS
<1>2. Bytes(<< >> \o <<c>>) = Bytes(<< >>) + Size[c]
  BY <1>1, BytesNext
<1>3. Size[c] \in Nat
  BY SizeAssumption DEF Chunks
<1> QED
  BY <1>1, <1>2, <1>3, BytesEmpty

Largest == Max({0} \cup {Size[n] : n \in 1 .. MaxChunks})

\* There is a largest chunk: by induction on the chunks considered.
LEMMA LargestBounds ==
  Largest \in Nat /\ \A n \in Chunks : Size[n] <= Largest
<1> DEFINE Sizes(m) == {0} \cup {Size[n] : n \in 1 .. m}
           HasMax(m) == \E x \in Sizes(m) : \A y \in Sizes(m) : x >= y
           Bad == {m \in 0 .. MaxChunks : ~HasMax(m)}
<1>1. \A m \in 0 .. MaxChunks : Sizes(m) \subseteq Nat
  BY SizeAssumption
<1>2. Bad = {}
  <2> SUFFICES ASSUME Bad # {} PROVE FALSE
    OBVIOUS
  <2>1. PICK m \in Bad : \A n \in Bad : m <= n
    <3> HIDE DEF HasMax
    <3>1. Bad \subseteq Nat
      BY SizeAssumption
    <3> HIDE DEF Bad
    <3> QED
      BY <3>1, Recursion!LeastNatural
  <2>2. CASE m = 0
    <3>1. Sizes(0) = {0}
      OBVIOUS
    <3> HIDE DEF Sizes
    <3> QED
      BY <2>1, <2>2, <3>1
  <2>3. CASE m # 0
    <3>1. m - 1 \in 0 .. MaxChunks /\ m - 1 \notin Bad /\ m \in 1 .. MaxChunks
      <4> HIDE DEF HasMax
      <4> QED
        BY <2>1, <2>3, SizeAssumption
    <3>2. PICK x \in Sizes(m - 1) : \A y \in Sizes(m - 1) : x >= y
      BY <3>1
    <3>3. Sizes(m) = Sizes(m - 1) \cup {Size[m]} /\ Size[m] \in Nat
      <4>1. 1 .. m = (1 .. m - 1) \cup {m}
        BY <3>1, SizeAssumption, SMTT(60)
      <4> QED
        BY <3>1, <4>1, SizeAssumption, SMTT(60)
    <3>4. x \in Nat /\ Sizes(m - 1) \subseteq Nat
      BY <1>1, <3>1, <3>2
    <3>5. HasMax(m)
      <4> HIDE DEF Sizes
      <4>1. CASE x >= Size[m]
        BY <3>2, <3>3, <3>4, <4>1
      <4>2. CASE ~ (x >= Size[m])
        BY <3>2, <3>3, <3>4, <4>2
      <4> QED
        BY <4>1, <4>2
    <3> QED
      BY <2>1, <3>5
  <2> QED
    BY <2>2, <2>3
<1>3. HasMax(MaxChunks)
  <2> HIDE DEF HasMax
  <2> QED
    BY <1>2, SizeAssumption
<1>4. Largest \in Sizes(MaxChunks) /\ \A y \in Sizes(MaxChunks) : Largest >= y
  <2>1. Largest = CHOOSE x \in Sizes(MaxChunks) : \A y \in Sizes(MaxChunks) : x >= y
    BY DEF Largest, Max
  <2> HIDE DEF Sizes
  <2> QED
    BY <1>3, <2>1
<1>5. Sizes(MaxChunks) \subseteq Nat /\ \A n \in Chunks : Size[n] \in Sizes(MaxChunks)
  BY <1>1, SizeAssumption DEF Chunks
<1> HIDE DEF Sizes
<1> QED
  BY <1>4, <1>5

\* Every byte that is queued or being copied is in the account, but for one
\* chunk, whose room a poll gave back under the copy.
Accounts ==
  /\ queueBytes \in Nat /\ totalBytes \in 0 .. TotalMax
  /\ timed \in BOOLEAN /\ abort \in BOOLEAN /\ requeued \in BOOLEAN
  /\ ~requeued => /\ Bytes(queue) + Bytes(held) <= queueBytes + Largest
                  /\ queueBytes <= QueueMax

\* Steps that leave the accounts and what they count alone.
LEMMA AccountsKept ==
  ASSUME Accounts, timed' \in BOOLEAN, abort' \in BOOLEAN,
         UNCHANGED <<queue, held, queueBytes, totalBytes, requeued>>
  PROVE  Accounts'
BY DEF Accounts

LEMMA AccountsReserve == ASSUME IInv, Accounts, Reserve PROVE Accounts'
<1>1. /\ held = << >> /\ arrived + 1 \in Chunks /\ Size[arrived + 1] \in Nat
      /\ UNCHANGED <<queue, timed, abort, requeued>>
  BY SizeAssumption DEF Reserve, IInv, HelperShape, Sequences, Chunks, reader
<1>2. CASE UNCHANGED <<held, queueBytes, totalBytes>>
  BY <1>1, <1>2, AccountsKept DEF Accounts
<1>3. CASE ~Exceeds(Size[arrived + 1]) /\ ~UNCHANGED <<held, queueBytes, totalBytes>>
  <2>1. /\ held' = <<arrived + 1>>
        /\ queueBytes' = queueBytes + Size[arrived + 1]
        /\ totalBytes' = totalBytes + Size[arrived + 1]
    BY <1>3 DEF Reserve
  <2>2. Bytes(held') = Size[arrived + 1] /\ Bytes(held) = 0
    <3>1. Bytes(<<arrived + 1>>) = Size[arrived + 1]
      BY <1>1, BytesOne
    <3> QED
      BY <1>1, <2>1, <3>1, BytesEmpty
  <2>3. Bytes(queue) \in Nat /\ Largest \in Nat
    BY BytesType, LargestBounds DEF IInv, Sequences
  <2>4. /\ queueBytes + Size[arrived + 1] <= QueueMax
        /\ totalBytes + Size[arrived + 1] <= TotalMax
    BY <1>1, <1>3, LimitsAssumption DEF Exceeds, Accounts
  <2>5. queueBytes' \in Nat /\ totalBytes' \in 0 .. TotalMax
    BY <1>1, <2>1, <2>4, LimitsAssumption, SMTT(60) DEF Accounts
  <2>6. ~requeued => Bytes(queue') + Bytes(held') <= queueBytes' + Largest
    BY <1>1, <2>1, <2>2, <2>3, SMTT(60) DEF Accounts
  <2> QED
    BY <1>1, <2>1, <2>4, <2>5, <2>6 DEF Accounts
<1> QED
  BY <1>2, <1>3 DEF Reserve

LEMMA AccountsLink == ASSUME IInv, Accounts, Link PROVE Accounts'
<1>1. /\ held = <<arrived>> /\ arrived \in Chunks /\ queue \in Seq(Chunks)
      /\ queue' = queue \o held /\ held' = << >>
      /\ UNCHANGED <<queueBytes, totalBytes, timed, abort, requeued>>
  BY SizeAssumption DEF Link, IInv, HelperShape, Sequences, Chunks, reader
<1>2. Bytes(held) = Size[arrived] /\ Bytes(held') = 0
  <2>1. Bytes(<<arrived>>) = Size[arrived]
    BY <1>1, BytesOne
  <2> QED
    BY <1>1, <2>1, BytesEmpty
<1>3. Bytes(queue') = Bytes(queue) + Size[arrived]
  BY <1>1, BytesNext
<1>4. Bytes(queue) \in Nat /\ Size[arrived] \in Nat
  BY <1>1, BytesType, SizeAssumption DEF Chunks
<1>5. Bytes(queue') + Bytes(held') = Bytes(queue) + Bytes(held)
  BY <1>2, <1>3, <1>4
<1> QED
  BY <1>1, <1>5 DEF Accounts

\* What empties the queue, or the helper's hand, and starts a new account.
LEMMA AccountsEmptied ==
  ASSUME IInv, Accounts,
         \/ queue' = << >> /\ queueBytes' = 0 /\ held' = held
         \/ queue' = queue /\ queueBytes' = queueBytes /\ held' = << >>,
         UNCHANGED <<totalBytes, timed, abort, requeued>>
  PROVE  Accounts'
<1>1. Bytes(<< >>) = 0 /\ Bytes(queue) \in Nat /\ Bytes(held) \in Nat /\ Largest \in Nat
  BY BytesType, BytesEmpty, LargestBounds DEF IInv, Sequences
<1>2. Bytes(held) <= Largest
  <2>1. CASE helper = "copying"
    <3>1. held = <<arrived>> /\ arrived \in Chunks
      BY <2>1, SizeAssumption DEF IInv, HelperShape, Sequences, Chunks
    <3>2. Bytes(held) = Size[arrived]
      BY <3>1, BytesOne
    <3>3. Size[arrived] \in Nat /\ Size[arrived] <= Largest
      BY <3>1, LargestBounds, SizeAssumption DEF Chunks
    <3> QED
      BY <1>1, <3>2, <3>3
  <2>2. CASE helper # "copying"
    BY <1>1, <2>2 DEF IInv, HelperShape
  <2> QED
    BY <2>1, <2>2
<1>3. CASE queue' = << >> /\ queueBytes' = 0 /\ held' = held
  BY <1>1, <1>2, <1>3, LimitsAssumption DEF Accounts
<1>4. CASE queue' = queue /\ queueBytes' = queueBytes /\ held' = << >>
  BY <1>1, <1>4 DEF Accounts
<1> QED
  BY <1>3, <1>4

LEMMA InitialAccounts == Init => Accounts
<1> SUFFICES ASSUME Init PROVE Accounts
  OBVIOUS
<1>1. Bytes(queue) = 0 /\ Bytes(held) = 0 /\ Largest \in Nat
  BY BytesEmpty, LargestBounds DEF Init
<1>2. queueBytes = 0 /\ totalBytes = 0 /\ TotalMax \in Nat /\ QueueMax \in Nat
  BY LimitsAssumption DEF Init
<1>3. timed \in BOOLEAN /\ abort \in BOOLEAN /\ requeued \in BOOLEAN
  BY DEF Init
<1> QED
  BY <1>1, <1>2, <1>3 DEF Accounts

LEMMA NextAccounts == IInv /\ Accounts /\ [Next]_vars => Accounts'
<1> SUFFICES ASSUME IInv, Accounts, [Next]_vars PROVE Accounts'
  OBVIOUS
<1>1. CASE Reserve
  BY <1>1, AccountsReserve
<1>2. CASE Link
  BY <1>2, AccountsLink
<1>3. CASE PushFail
  BY <1>3, AccountsEmptied DEF PushFail, reader
<1>4. CASE Perform \/ Exit
  BY <1>4, AccountsKept DEF Perform, Exit, reader, Accounts
<1>5. ASSUME NEW timeout \in Timeouts, Poll(timeout) PROVE Accounts'
  <2>1. CASE Detach /\ UNCHANGED timed
    BY <1>5, <2>1, AccountsEmptied DEF Poll, Detach, transfer
  <2>2. CASE ~(Detach /\ UNCHANGED timed)
    BY <1>5, <2>2, AccountsKept DEF Poll, transfer, Accounts
  <2> QED
    BY <2>1, <2>2
<1>6. CASE Resume
  BY <1>6, AccountsEmptied DEF Resume, Detach, transfer
<1>7. CASE TimeOut \/ Join \/ Finish \/ Drop
  BY <1>7, AccountsKept DEF TimeOut, Join, Finish, Drop, transfer, reader, Accounts
<1>8. CASE JoinFails
  <2>1. /\ taken # << >> /\ taken \in Seq(Chunks)
        /\ queueBytes' = queueBytes + Bytes(Tail(taken)) /\ requeued' = TRUE
        /\ UNCHANGED <<totalBytes, timed, abort>>
    BY <1>8 DEF JoinFails, transfer, IInv, Sequences
  <2>2. Bytes(Tail(taken)) \in Nat
    BY <2>1, HeadFirst, BytesType
  <2> QED
    BY <2>1, <2>2 DEF Accounts
<1>9. CASE Joined
  BY <1>9, AccountsEmptied DEF Joined, transfer, reader
<1>10. CASE Abort \/ UNCHANGED vars
  BY <1>10, AccountsKept DEF Abort, vars, reader, Accounts
<1> QED
  BY <1>1, <1>2, <1>3, <1>4, <1>5, <1>6, <1>7, <1>8, <1>9, <1>10 DEF Next, Helper, Main

\* The queue keeps what it is given, in order, and holds at most its limit and
\* one chunk, although a poll may reset the account under a chunk that is being
\* copied; chunks put back for want of memory are the exception.
THEOREM Sound == Spec => []QueueIsSound
<1>1. IInv /\ Accounts => QueueIsSound
  <2> SUFFICES ASSUME IInv, Accounts PROVE QueueIsSound
    OBVIOUS
  <2>1. TypeOK
    BY DEF TypeOK, IInv, Accounts, Sequences, HelperShape, ReaderShape, Chunks
  <2>2. QueueBounded
    <3>1. Bytes(queue) \in Nat /\ Bytes(held) \in Nat /\ Largest \in Nat
      BY BytesType, LargestBounds DEF IInv, Sequences
    <3> QED
      BY <3>1, LimitsAssumption DEF Accounts, QueueBounded, Largest
  <2> QED
    BY <2>1, <2>2 DEF QueueIsSound, IInv
<1> QED
  BY <1>1, InitialState, NextStep, InitialAccounts, NextAccounts, PTL DEF Spec
=============================================================================
