------------------------------ MODULE OpenApiProofs ------------------------------
(***************************************************************************)
(* The conversion of any document into tools, and the calls of them, for   *)
(* any number of components, operations and names.  Running says how far   *)
(* the conversion is; Hoisting, that a name has its finished definition or *)
(* is a placeholder of a call in progress; Schemas and Bindings, what each *)
(* tool took along.  The one hypothesis, on what a name is, comes first.   *)
(***************************************************************************)
EXTENDS OpenApi, FiniteSetTheorems, SequenceTheorems, TLAPS

--------------------------------------------------------------------------------
(* Names *)

\* Names are sequences, so that suffixing them means something.
NamesAreSequences == \E S : Name \subseteq Seq(S)

--------------------------------------------------------------------------------
(* Sequences of anything *)

Sequence(s) == \E S : s \in Seq(S)

LEMMA EmptySequence == Sequence(<<>>) /\ Len(<<>>) = 0
BY EmptySeq DEF Sequence

LEMMA OneElement ==
    ASSUME NEW e
    PROVE  Sequence(<<e>>) /\ Len(<<e>>) = 1 /\ <<e>>[1] = e
<1>1. <<e>> \in Seq({e})
  OBVIOUS
<1> QED
  BY <1>1 DEF Sequence

LEMMA Appended ==
    ASSUME NEW s, Sequence(s), NEW e
    PROVE  /\ Sequence(Append(s, e)) /\ Len(s) \in Nat /\ Len(Append(s, e)) = Len(s) + 1
           /\ \A i \in 1 .. Len(s) : Append(s, e)[i] = s[i]
           /\ Append(s, e)[Len(s) + 1] = e
<1>1. PICK S : s \in Seq(S)
  BY DEF Sequence
<1>2. s \in Seq(S \cup {e})
  BY <1>1, SeqMonotonic
<1> QED
  BY <1>2, AppendProperties, LenProperties DEF Sequence

LEMMA Shortened ==
    ASSUME NEW s, Sequence(s), Len(s) > 0
    PROVE  LET t == SubSeq(s, 1, Len(s) - 1)
           IN  /\ Sequence(t) /\ Len(t) = Len(s) - 1
               /\ \A i \in 1 .. Len(t) : t[i] = s[i]
<1>1. PICK S : s \in Seq(S)
  BY DEF Sequence
<1>2. PICK n \in Int : n = Len(s) - 1 /\ n >= 0
  BY <1>1, LenProperties
<1>3. \A i \in 1 .. n : s[i] \in S
  BY <1>1, <1>2, LenProperties, ElementOfSeq
<1> DEFINE t == SubSeq(s, 1, n)
<1>4. /\ t \in Seq(S)
      /\ Len(t) = IF 1 <= n THEN n - 1 + 1 ELSE 0
      /\ \A i \in 1 .. n - 1 + 1 : t[i] = s[1 + i - 1]
  BY <1>2, <1>3, SubSeqProperties
<1> HIDE DEF t
<1>5. Len(t) = n
  BY <1>2, <1>4
<1>6. \A i \in 1 .. n : t[i] = s[i]
  BY <1>2, <1>4
<1> QED
  BY <1>2, <1>4, <1>5, <1>6 DEF Sequence, t

LEMMA FiniteRange ==
    ASSUME NEW s, Sequence(s)
    PROVE  IsFiniteSet({s[i] : i \in 1 .. Len(s)})
<1> DEFINE T == {s[i] : i \in 1 .. Len(s)}
<1>1. PICK S : s \in Seq(S)
  BY DEF Sequence
<1>2. Len(s) \in Nat /\ s \in [1 .. Len(s) -> S]
  BY <1>1, LenProperties
<1>3. s \in Surjection(1 .. Len(s), T)
  BY <1>2 DEF Surjection
<1>4. IsFiniteSet(1 .. Len(s))
  BY <1>2, FS_Interval
<1> QED
  BY <1>3, <1>4, FS_Surjection

--------------------------------------------------------------------------------
(* Names that are free *)

\* The naturals are well ordered.
LEMMA Least ==
    ASSUME NEW T \in SUBSET Nat, T # {}
    PROVE  \E k \in T : \A j \in T : k <= j
<1>1. PICK k \in T : \A j \in T : ~(<<j, k>> \in OpToRel(<, Nat))
  BY NatLessThanWellFounded, WFMin
<1>2. \A j \in T : j \in Nat /\ k \in Nat /\ ~(j < k)
  BY <1>1 DEF OpToRel
<1> QED
  BY <1>2

\* Suffixes tell names apart.
LEMMA SuffixInjective ==
    ASSUME NEW S, NEW s \in Seq(S), NEW t \in Seq(S), NEW x, NEW y,
           Append(s, x) = Append(t, y)
    PROVE  s = t /\ x = y
<1> DEFINE U == S \cup {x, y}
<1>1. s \in Seq(U) /\ t \in Seq(U)
  BY SeqMonotonic
<1> QED
  BY <1>1, AppendInjective

\* generateToolNames and createSchemaNormalizer end at a name that is free.
LEMMA FreeNameIsFree ==
    ASSUME NamesAreSequences, NEW base \in Name, NEW taken, IsFiniteSet(taken)
    PROVE  FreeName(base, taken) \notin taken
<1>1. PICK S : base \in Seq(S)
  BY DEF NamesAreSequences
<1> DEFINE c == Cardinality(taken)
           ks == 2 .. c + 2
           free == {k \in ks : Suffixed(base, k) \notin taken}
<1>2. c \in Nat
  BY FS_CardinalityType
<1>3. IsFiniteSet(ks) /\ Cardinality(ks) = c + 1
  <2>1. 2 \in Int /\ c + 2 \in Int /\ ~(2 > c + 2) /\ (c + 2) - 2 + 1 = c + 1
    BY <1>2
  <2> QED
    BY <2>1, FS_Interval
<1>4. free # {}
  <2> SUFFICES ASSUME free = {} PROVE FALSE
    OBVIOUS
  <2> DEFINE f == [k \in ks |-> Suffixed(base, k)]
  <2>1. f \in [ks -> taken]
    OBVIOUS
  <2>2. c < Cardinality(ks)
    BY <1>2, <1>3
  <2>3. \A k \in ks : f[k] = Append(base, k)
    BY DEF Suffixed
  <2> HIDE DEF f, ks
  <2>4. \E k, l \in ks : k # l /\ f[k] = f[l]
    BY <1>3, <2>1, <2>2, FS_PigeonHole
  <2> QED
    BY <1>1, <2>3, <2>4, SuffixInjective
<1>5. PICK k \in free : \A j \in free : k <= j
  <2>1. free \in SUBSET Nat
    BY <1>2
  <2> QED
    BY <1>4, <2>1, Least
<1> HIDE DEF free
<1>6. (CHOOSE m \in free : \A j \in free : m <= j) \in free
  BY <1>5
<1> QED
  BY <1>6 DEF FreeName, free

--------------------------------------------------------------------------------
(* Closures: what collectDefinitions and flattenObject walk over *)

LEMMA ClosureWithin ==
    ASSUME NEW from, NEW refs
    PROVE  Closure(from, refs) \subseteq DOMAIN refs
BY DEF Closure

LEMMA ClosureStarts ==
    ASSUME NEW from, NEW refs
    PROVE  from \cap DOMAIN refs \subseteq Closure(from, refs)
BY DEF Closure

LEMMA ClosureCloses ==
    ASSUME NEW from, NEW refs, NEW n \in Closure(from, refs)
    PROVE  refs[n] \cap DOMAIN refs \subseteq Closure(from, refs)
BY DEF Closure

LEMMA ClosureLeast ==
    ASSUME NEW from, NEW refs, NEW S \in SUBSET DOMAIN refs,
           from \cap DOMAIN refs \subseteq S,
           \A n \in S : refs[n] \cap DOMAIN refs \subseteq S
    PROVE  Closure(from, refs) \subseteq S
BY DEF Closure

--------------------------------------------------------------------------------
(* What the types of a document give *)

LEMMA ParametersAreTyped ==
    ASSUME NEW op \in Operation
    PROVE  Merged(op) \subseteq Parameter
BY DEF Operation, Merged

LEMMA BodyIsTyped ==
    ASSUME NEW op \in Operation, BodyOf(op) # None
    PROVE  BodyOf(op) \in Body
BY DEF Operation, BodyOf

LEMMA InputRefsAreTyped ==
    ASSUME NEW op \in Operation
    PROVE  InputRefs(op) \subseteq Pointer \cup {Dangling}
<1>1. \A p \in Merged(op) : p.refs \subseteq Pointer \cup {Dangling}
  BY ParametersAreTyped DEF Parameter
<1>2. CASE BodyOf(op) = None
  BY <1>1, <1>2 DEF InputRefs
<1>3. CASE BodyOf(op) # None
  <2>1. BodyOf(op).schema \in Schema \cup {None}
    BY <1>3, BodyIsTyped DEF Body
  <2>2. BodyOf(op).schema # None => BodyOf(op).schema.refs \subseteq Pointer \cup {Dangling}
    BY <2>1 DEF Schema
  <2> QED
    BY <1>1, <1>3, <2>2 DEF InputRefs
<1> QED
  BY <1>2, <1>3

LEMMA DocumentIsTyped ==
    ASSUME NEW d \in Document
    PROVE  /\ d.component \in [Pointer -> Schema]
           /\ d.word \in [Pointer -> Name]
           /\ d.operations \in Seq(Operation)
           /\ \A i \in 1 .. Len(d.operations) : WellFormed(d.operations[i])
BY OpenApiAssumption

\* selectRoutes picks operations of the document.
LEMMA OrderingsSelect ==
    ASSUME NEW d, NEW ops \in Seq(Operation), d.operations = ops, NEW s \in Orderings(d)
    PROVE  /\ s \in Seq(Operation)
           /\ \A i \in 1 .. Len(s) : \E j \in 1 .. Len(ops) : s[i] = ops[j]
<1> DEFINE kept == {i \in 1 .. Len(ops) : Keeps(d, ops[i])}
           n == Cardinality(kept)
<1>1. n \in Nat
  <2>1. IsFiniteSet(1 .. Len(ops))
    BY LenProperties, FS_Interval
  <2> QED
    BY <2>1, FS_Subset, FS_CardinalityType
<1>2. PICK f \in [1 .. n -> kept] : s = [k \in 1 .. n |-> ops[f[k]]]
  BY DEF Orderings
<1>3. \A k \in 1 .. n : f[k] \in 1 .. Len(ops) /\ ops[f[k]] \in Operation
  BY <1>2, ElementOfSeq
<1> HIDE DEF kept, n
<1>4. s \in Seq(Operation) /\ Len(s) = n
  <2>1. s \in [1 .. n -> Operation]
    BY <1>2, <1>3
  <2> QED
    BY <1>1, <2>1, LenProperties
<1> QED
  BY <1>2, <1>3, <1>4

--------------------------------------------------------------------------------
(* The stack of the normalizer *)

FrameType == [of: Pointer \cup {None}, todo: SUBSET (Pointer \cup {Dangling})]

LEMMA LengthIsNatural ==
    ASSUME NEW s, Sequence(s)
    PROVE  Len(s) \in Nat
BY Appended

LEMMA TypedAppend ==
    ASSUME NEW S, NEW s \in Seq(S), NEW e \in S
    PROVE  /\ Append(s, e) \in Seq(S) /\ Len(s) \in Nat
           /\ Len(Append(s, e)) = Len(s) + 1
           /\ \A i \in 1 .. Len(s) : Append(s, e)[i] = s[i]
           /\ Append(s, e)[Len(s) + 1] = e
BY AppendProperties, LenProperties

LEMMA TypedOne ==
    ASSUME NEW S, NEW e \in S
    PROVE  <<e>> \in Seq(S) /\ Len(<<e>>) = 1 /\ <<e>>[1] = e /\ <<e>> # <<>>
OBVIOUS

LEMMA TopIsTyped ==
    ASSUME stack \in Seq(FrameType), stack # <<>>
    PROVE  /\ Len(stack) \in Nat /\ Len(stack) >= 1 /\ Len(stack) \in 1 .. Len(stack)
           /\ Top \in FrameType
<1>1. Len(stack) \in Nat /\ Len(stack) # 0
  BY LenProperties, EmptySeq
<1>2. Len(stack) >= 1 /\ Len(stack) \in 1 .. Len(stack)
  BY <1>1
<1> QED
  BY <1>1, <1>2, ElementOfSeq DEF Top

LEMMA ResolvedStack ==
    ASSUME stack \in Seq(FrameType), stack # <<>>, NEW r
    PROVE  /\ Resolved(r) \in Seq(FrameType) /\ Resolved(r) # <<>>
           /\ Len(Resolved(r)) = Len(stack)
           /\ \A i \in 1 .. Len(stack) :
                /\ Resolved(r)[i].of = stack[i].of
                /\ Resolved(r)[i].todo = IF i = Len(stack) THEN stack[i].todo \ {r}
                                         ELSE stack[i].todo
<1>1. PICK n \in Nat : n = Len(stack) /\ n >= 1 /\ n \in 1 .. n
  BY TopIsTyped
<1>2. stack \in [1 .. n -> FrameType]
  BY <1>1, LenProperties
<1>3. PICK top \in FrameType : top = stack[n]
  BY <1>1, <1>2
<1>4. PICK frame : frame = [top EXCEPT !.todo = @ \ {r}]
  OBVIOUS
<1>5. frame \in FrameType /\ frame.of = top.of /\ frame.todo = top.todo \ {r}
  BY <1>4 DEF FrameType
<1>6. Resolved(r) = [stack EXCEPT ![n] = frame]
  BY <1>1, <1>3, <1>4 DEF Resolved
<1>7. Resolved(r) \in [1 .. n -> FrameType]
  BY <1>2, <1>5, <1>6
<1>8. \A i \in 1 .. n : Resolved(r)[i] = IF i = n THEN frame ELSE stack[i]
  BY <1>1, <1>2, <1>6
<1>9. Resolved(r) \in Seq(FrameType) /\ Len(Resolved(r)) = n
  BY <1>1, <1>7, LenProperties
<1>10. Resolved(r) # <<>>
  BY <1>1, <1>9, EmptySeq
<1> QED
  BY <1>1, <1>3, <1>5, <1>8, <1>9, <1>10

LEMMA PoppedStack ==
    ASSUME stack \in Seq(FrameType), stack # <<>>
    PROVE  /\ Popped \in Seq(FrameType) /\ Len(Popped) = Len(stack) - 1
           /\ \A i \in 1 .. Len(Popped) : Popped[i] = stack[i]
<1>1. PICK n \in Int : n = Len(stack) - 1 /\ n >= 0
  BY TopIsTyped
<1>2. \A i \in 1 .. n : stack[i] \in FrameType
  BY <1>1, TopIsTyped, ElementOfSeq
<1> DEFINE t == SubSeq(stack, 1, n)
<1>3. /\ t \in Seq(FrameType)
      /\ Len(t) = IF 1 <= n THEN n - 1 + 1 ELSE 0
      /\ \A i \in 1 .. n - 1 + 1 : t[i] = stack[1 + i - 1]
  BY <1>1, <1>2, SubSeqProperties
<1>4. t = Popped
  BY <1>1 DEF Popped
<1> HIDE DEF t
<1>5. Len(t) = n
  BY <1>1, <1>3
<1>6. \A i \in 1 .. n : t[i] = stack[i]
  BY <1>1, <1>3
<1> QED
  BY <1>1, <1>3, <1>4, <1>5, <1>6

--------------------------------------------------------------------------------
(* How far the conversion is *)

Shape ==
    /\ doc \in Document /\ phase \in Phase
    /\ selected \in Seq(Operation)
    /\ \A i \in 1 .. Len(selected) :
        \E j \in 1 .. Len(doc.operations) : selected[i] = doc.operations[j]
    /\ Sequence(names) /\ Sequence(tools)

\* Routes are named one after the other and bound one after the other.
Progress ==
    /\ Len(names) <= Len(selected) /\ Len(tools) <= Len(names)
    /\ phase = "select" => Len(names) = 0
    /\ phase \in {"select", "name"} => Len(tools) = 0
    /\ phase \in {"bind", "input", "output", "serve"} => Len(names) = Len(selected)
    /\ phase \in {"input", "output"} => Len(tools) < Len(selected)
    /\ phase = "output" => Route.response # None

\* The stack is there while a schema is normalized, its root at the bottom.
Stacked ==
    /\ stack \in Seq(FrameType)
    /\ stack # <<>> <=> phase \in {"input", "output"}
    /\ \A i \in 1 .. Len(stack) : stack[i].of = None <=> i = 1

Defined ==
    /\ DOMAIN named \subseteq Pointer
    /\ {named[p] : p \in DOMAIN named} = DOMAIN definitions

Answered == outcome # None => outcome.result \in R!CallToolResult

Running == Shape /\ Progress /\ Stacked /\ Defined /\ Answered

LEMMA RouteIsSelected ==
    ASSUME Running,
           \/ phase \in {"input", "output"}
           \/ phase = "bind" /\ Len(tools) < Len(selected)
    PROVE  /\ Len(tools) + 1 \in 1 .. Len(selected)
           /\ Route \in Operation /\ WellFormed(Route)
           /\ \E j \in 1 .. Len(doc.operations) : Route = doc.operations[j]
<1>1. Len(tools) \in Nat /\ Len(selected) \in Nat /\ Len(tools) < Len(selected)
  BY LengthIsNatural, LenProperties DEF Running, Shape, Progress
<1>2. Len(tools) + 1 \in 1 .. Len(selected)
  BY <1>1
<1>3. PICK j \in 1 .. Len(doc.operations) : Route = doc.operations[j]
  BY <1>2 DEF Running, Shape, Route
<1> QED
  BY <1>2, <1>3, DocumentIsTyped, ElementOfSeq DEF Running, Shape, Route

LEMMA RouteIsTyped ==
    ASSUME Running, phase \in {"input", "output"}
    PROVE  /\ Route \in Operation /\ WellFormed(Route)
           /\ \E j \in 1 .. Len(doc.operations) : Route = doc.operations[j]
BY RouteIsSelected

LEMMA RunningInit == Init => Running
<1> SUFFICES ASSUME Init PROVE Running
  OBVIOUS
<1>1. Shape
  BY EmptySequence, EmptySeq DEF Init, Shape, Phase
<1>2. Progress
  BY EmptySequence DEF Init, Progress
<1>3. Stacked
  BY EmptySeq DEF Init, Stacked
<1>4. Defined /\ Answered
  BY DEF Init, Defined, Answered
<1> QED
  BY <1>1, <1>2, <1>3, <1>4 DEF Running

\* The top frame points into the document.
LEMMA TopPoints ==
    ASSUME Running, Normalizing
    PROVE  /\ Top \in FrameType /\ Len(stack) \in Nat /\ Len(stack) >= 1
           /\ doc.component \in [Pointer -> Schema] /\ doc.word \in [Pointer -> Name]
           /\ \A p \in Pointer : Frame(p) \in FrameType /\ Frame(p).of = p
<1>1. Top \in FrameType /\ Len(stack) \in Nat /\ Len(stack) >= 1
  BY TopIsTyped DEF Running, Stacked, Normalizing
<1>2. doc.component \in [Pointer -> Schema] /\ doc.word \in [Pointer -> Name]
  BY DocumentIsTyped DEF Running, Shape
<1>3. \A p \in Pointer : doc.component[p].refs \subseteq Pointer \cup {Dangling}
  BY <1>2 DEF Schema
<1> QED
  BY <1>1, <1>2, <1>3 DEF Frame, FrameType

\* A route is converted between two frames of the root.
LEMMA RootIsTyped ==
    ASSUME NEW refs \in SUBSET (Pointer \cup {Dangling})
    PROVE  /\ <<RootFrame(refs)>> \in Seq(FrameType) /\ <<RootFrame(refs)>> # <<>>
           /\ Len(<<RootFrame(refs)>>) = 1
           /\ <<RootFrame(refs)>>[1].of = None /\ <<RootFrame(refs)>>[1].todo = refs
<1>1. RootFrame(refs) \in FrameType /\ RootFrame(refs).of = None /\ RootFrame(refs).todo = refs
  BY DEF RootFrame, FrameType
<1> QED
  BY <1>1, TypedOne

LEMMA RunningRoutes == Running /\ (Select \/ NameRoute \/ BeginRoute) => Running'
<1> SUFFICES ASSUME Running, Select \/ NameRoute \/ BeginRoute PROVE Running'
  OBVIOUS
<1>0. Len(names) \in Nat /\ Len(tools) \in Nat /\ Len(selected) \in Nat
  BY LengthIsNatural, LenProperties DEF Running, Shape
<1>1. CASE Select
  <2>1. /\ selected' \in Seq(Operation) /\ Len(selected') \in Nat
        /\ \A i \in 1 .. Len(selected') :
            \E j \in 1 .. Len(doc.operations) : selected'[i] = doc.operations[j]
    <3>1. PICK ops \in Seq(Operation) : doc.operations = ops
      BY DocumentIsTyped DEF Running, Shape
    <3>2. selected' \in Orderings(doc)
      BY <1>1 DEF Select
    <3>3. /\ selected' \in Seq(Operation)
          /\ \A i \in 1 .. Len(selected') : \E j \in 1 .. Len(ops) : selected'[i] = ops[j]
      BY <3>1, <3>2, OrderingsSelect
    <3> QED
      BY <3>1, <3>3, LenProperties
  <2>2. Shape' /\ Progress'
    BY <1>0, <1>1, <2>1 DEF Select, Running, Shape, Progress, Phase
  <2> QED
    BY <1>1, <2>2 DEF Select, Running, Stacked, Defined, Answered, normalizer
<1>2. CASE NameRoute
  <2>1. Shape' /\ Progress'
    <3>1. CASE Len(names) < Len(selected)
      <4>0. PICK e : names' = Append(names, e)
        BY <1>2, <3>1 DEF NameRoute
      <4>1. Sequence(names') /\ Len(names') = Len(names) + 1
        BY <4>0, Appended DEF Running, Shape
      <4>2. UNCHANGED <<doc, phase, selected, tools>> /\ phase = "name"
        BY <1>2, <3>1 DEF NameRoute
      <4> QED
        BY <1>0, <3>1, <4>1, <4>2 DEF Running, Shape, Progress
    <3>2. CASE ~(Len(names) < Len(selected))
      BY <1>0, <1>2, <3>2 DEF NameRoute, Running, Shape, Progress, Phase
    <3> QED
      BY <3>1, <3>2
  <2> QED
    BY <1>2, <2>1 DEF NameRoute, Running, Stacked, Defined, Answered, normalizer
<1>3. CASE BeginRoute
  <2>1. CASE Len(tools) < Len(selected)
    <3>1. Route \in Operation
      BY <1>3, <2>1, RouteIsSelected DEF BeginRoute
    <3>2. /\ stack' \in Seq(FrameType) /\ stack' # <<>> /\ Len(stack') = 1
          /\ stack'[1].of = None
      BY <1>3, <2>1, <3>1, InputRefsAreTyped, RootIsTyped DEF BeginRoute
    <3> QED
      BY <1>3, <2>1, <3>2
      DEF BeginRoute, Running, Shape, Progress, Stacked, Defined, Answered, normalizer, Phase
  <2>2. CASE ~(Len(tools) < Len(selected))
    BY <1>3, <2>2
    DEF BeginRoute, Running, Shape, Progress, Stacked, Defined, Answered, normalizer, Phase
  <2> QED
    BY <2>1, <2>2
<1> QED
  BY <1>1, <1>2, <1>3

LEMMA RunningNormalizer ==
    Running /\ ((\E r \in Pointer \cup {Dangling} : SkipRef(r))
                \/ (\E p \in Pointer : Hoist(p)) \/ Hoisted) => Running'
<1>1. ASSUME Running, NEW r, SkipRef(r) PROVE Running'
  <2>1. stack \in Seq(FrameType) /\ stack # <<>> /\ stack' = Resolved(r)
    BY <1>1 DEF SkipRef, Normalizing, Running, Stacked
  <2>2. /\ stack' \in Seq(FrameType) /\ stack' # <<>> /\ Len(stack') = Len(stack)
        /\ \A i \in 1 .. Len(stack) : stack'[i].of = stack[i].of
    BY <2>1, ResolvedStack
  <2> QED
    BY <1>1, <2>1, <2>2
    DEF SkipRef, Running, Shape, Progress, Stacked, Defined, Answered, normalizer, Route
<1>2. ASSUME Running, NEW p \in Pointer, Hoist(p) PROVE Running'
  <2>1. /\ Normalizing /\ stack' = Append(stack, Frame(p))
        /\ UNCHANGED <<doc, phase, selected, names, binding, tools, request, outcome>>
    BY <1>2 DEF Hoist
  <2>2. Frame(p) \in FrameType /\ Frame(p).of = p /\ stack \in Seq(FrameType)
    BY <1>2, <2>1, TopPoints DEF Running, Stacked
  <2>3. Stacked'
    <3>1. /\ stack' \in Seq(FrameType) /\ Len(stack) \in Nat
          /\ Len(stack') = Len(stack) + 1 /\ Len(stack) >= 1
          /\ \A i \in 1 .. Len(stack) : stack'[i] = stack[i]
          /\ stack'[Len(stack) + 1] = Frame(p)
      BY <1>2, <2>1, <2>2, TypedAppend, TopPoints
    <3>2. stack' # <<>> /\ phase' \in {"input", "output"}
      BY <2>1, <3>1, EmptySeq DEF Normalizing
    <3>3. p # None
      BY OpenApiAssumption
    <3> QED
      BY <1>2, <2>2, <3>1, <3>2, <3>3 DEF Running, Stacked
  <2>4. Defined'
    <3>1. PICK name : /\ named' = Reserved(p, name)
                      /\ DOMAIN definitions' = DOMAIN definitions \cup {name}
      BY <1>2 DEF Hoist
    <3>2. /\ DOMAIN named' = DOMAIN named \cup {p}
          /\ named'[p] = name
          /\ \A q \in DOMAIN named : named'[q] = IF q = p THEN name ELSE named[q]
      BY <3>1 DEF Reserved
    <3>3. p \notin DOMAIN named
      BY <1>2 DEF Hoist, Known
    <3> QED
      BY <1>2, <3>1, <3>2, <3>3 DEF Running, Defined
  <2> QED
    BY <1>2, <2>1, <2>3, <2>4 DEF Running, Shape, Progress, Answered, Route
<1>3. ASSUME Running, Hoisted PROVE Running'
  <2>1. /\ Normalizing /\ stack' = Popped /\ Top.of # None
        /\ stack \in Seq(FrameType) /\ stack # <<>>
        /\ UNCHANGED <<doc, phase, selected, names, named, binding, tools, request, outcome>>
        /\ DOMAIN definitions' = DOMAIN definitions
    BY <1>3 DEF Hoisted, Running, Stacked, Normalizing
  <2>2. Stacked'
    <3>1. /\ stack' \in Seq(FrameType) /\ Len(stack') = Len(stack) - 1
          /\ \A i \in 1 .. Len(stack') : stack'[i] = stack[i]
          /\ Len(stack) \in Nat /\ Len(stack) \in 1 .. Len(stack)
      BY <2>1, PoppedStack, TopIsTyped
    <3>2. Len(stack) # 1
      BY <1>3, <2>1, <3>1 DEF Running, Stacked, Top
    <3>3. stack' # <<>>
      BY <3>1, <3>2, EmptySeq
    <3> QED
      BY <1>3, <2>1, <3>1, <3>3 DEF Running, Stacked, Normalizing
  <2> QED
    BY <1>3, <2>1, <2>2 DEF Running, Shape, Progress, Defined, Answered, Route
<1> QED
  BY <1>1, <1>2, <1>3

\* A binding ends in one more tool, or in a look at the output schema.
LEMMA RunningBinding == Running /\ (BindInput \/ BindOutput) => Running'
<1> SUFFICES ASSUME Running, BindInput \/ BindOutput PROVE Running'
  OBVIOUS
<1>1. /\ Len(names) \in Nat /\ Len(tools) \in Nat /\ Len(selected) \in Nat
      /\ phase \in {"input", "output"} /\ Len(tools) < Len(selected)
      /\ UNCHANGED <<doc, selected, names, normalizer, request, outcome>>
  BY LengthIsNatural, LenProperties DEF Running, Shape, Progress, BindInput, BindOutput
<1>2. ASSUME NEW e, tools' = Append(tools, e), phase' = "bind", stack' = <<>> PROVE Running'
  <2>1. Sequence(tools') /\ Len(tools') = Len(tools) + 1
    BY <1>2, Appended DEF Running, Shape
  <2>2. Shape'
    BY <1>1, <1>2, <2>1 DEF Running, Shape, Phase
  <2>3. Progress'
    BY <1>1, <1>2, <2>1 DEF Running, Progress
  <2>4. Stacked'
    BY <1>2, EmptySeq DEF Stacked
  <2> QED
    BY <1>1, <2>2, <2>3, <2>4 DEF Running, Defined, Answered, normalizer
<1>3. ASSUME Route.response # None, phase' = "output",
             stack' = <<RootFrame(Route.response.refs)>>, UNCHANGED tools
      PROVE  Running'
  <2>1. Route.response \in Schema
    BY <1>1, <1>3, RouteIsSelected DEF Operation
  <2>2. /\ stack' \in Seq(FrameType) /\ stack' # <<>> /\ Len(stack') = 1
        /\ stack'[1].of = None
    BY <1>3, <2>1, RootIsTyped DEF Schema
  <2>3. Stacked'
    BY <1>3, <2>2 DEF Stacked
  <2>4. Shape' /\ Progress'
    BY <1>1, <1>3 DEF Running, Shape, Progress, Phase, Route
  <2> QED
    BY <1>1, <2>3, <2>4 DEF Running, Defined, Answered, normalizer
<1>4. CASE BindInput
  BY <1>2, <1>3, <1>4 DEF BindInput, AddTool
<1>5. CASE BindOutput
  BY <1>2, <1>5 DEF BindOutput, AddTool
<1> QED
  BY <1>4, <1>5

\* Whatever the API answers, normalizeToolResult makes a tool result of it.
LEMMA AnswersAreTyped ==
    ASSUME NEW reply \in Response, NEW declared \in BOOLEAN
    PROVE  /\ R!Failed \in R!CallToolResult
           /\ R!NormalizeToolResult(ReadResponse(reply, declared), declared) \in R!CallToolResult
<1>1. R!Failed \in R!CallToolResult
  BY DEF R!Failed, R!CallToolResult
<1>2. Parsed(reply) \in R!Foreign \cup {None}
  BY DEF Response, Parsed
<1>3. CASE Parsed(reply) # None
  <2>1. ReadResponse(reply, declared) = R!Wrapper(Parsed(reply))
    BY <1>3 DEF ReadResponse, Structured
  <2> QED
    BY <1>1, <1>2, <1>3, <2>1 DEF R!NormalizeToolResult, R!Wrapper, R!CallToolResult
<1>4. CASE Parsed(reply) = None
  <2>1. ReadResponse(reply, declared) \in {R!Block, R!Text}
    BY <1>4 DEF ReadResponse
  <2> QED
    BY <1>1, <2>1
    DEF R!NormalizeToolResult, R!Block, R!Text, R!CallToolResult, R!Foreign
<1> QED
  BY <1>1, <1>3, <1>4

LEMMA RunningServing ==
    Running /\ (\/ \E tool, keys, chosen : Call(tool, keys, chosen)
                \/ \E tool : CallFails(tool)
                \/ \E tool : \E reply \in Response : Respond(tool, reply)) => Running'
<1>1. ASSUME Running, NEW tool, NEW keys, NEW chosen, Call(tool, keys, chosen) PROVE Running'
  BY <1>1 DEF Call, building, normalizer, Running, Shape, Progress, Stacked, Defined,
              Answered, Route
<1>2. ASSUME Running, NEW tool, NEW reply \in Response, Respond(tool, reply) PROVE Running'
  <2>1. Answered'
    BY <1>2, AnswersAreTyped DEF Respond, Answered
  <2> QED
    BY <1>2, <2>1 DEF Respond, building, normalizer, Running, Shape, Progress, Stacked,
                      Defined, Route
<1>3. ASSUME Running, NEW tool, CallFails(tool) PROVE Running'
  <2>1. Answered'
    BY <1>3 DEF CallFails, Answered, R!Failed, R!CallToolResult
  <2> QED
    BY <1>3, <2>1 DEF CallFails, building, normalizer, Running, Shape, Progress, Stacked,
                      Defined, Route
<1> QED
  BY <1>1, <1>2, <1>3

LEMMA RunningNext == Running /\ [Next]_vars => Running'
<1> SUFFICES ASSUME Running, [Next]_vars PROVE Running'
  OBVIOUS
<1>1. CASE Build
  BY <1>1, RunningRoutes, RunningNormalizer, RunningBinding DEF Build
<1>2. ASSUME NEW i \in 1 .. Len(tools), NEW chosen \in Name \cup {None},
             NEW keys \in SUBSET DOMAIN tools[i].args, Call(tools[i], keys, chosen)
      PROVE  Running'
  BY <1>2, RunningServing
<1>3. ASSUME NEW i \in 1 .. Len(tools),
             CallFails(tools[i]) \/ \E reply \in Response : Respond(tools[i], reply)
      PROVE  Running'
  BY <1>3, RunningServing
<1>4. CASE UNCHANGED vars
  BY <1>4 DEF vars, building, normalizer, Running, Shape, Progress, Stacked, Defined,
              Answered, Route
<1> QED
  BY <1>1, <1>2, <1>3, <1>4 DEF Next

LEMMA RunningHolds == Spec => []Running
BY RunningInit, RunningNext, PTL DEF Spec

\* Selection, naming, normalization and binding keep to their types and stay in
\* step: never more names than routes or tools than names, one definition per
\* name, and only the root of a recursion stands for no component.
THEOREM TypeOKHolds == Spec => []TypeOK
<1>1. Running => TypeOK
  <2> SUFFICES ASSUME Running PROVE TypeOK
    OBVIOUS
  <2>1. \A i \in 1 .. Len(selected) : selected[i] \in Operation
    BY ElementOfSeq DEF Running, Shape
  <2>2. \A i \in 1 .. Len(stack) : stack[i] \in FrameType
    BY ElementOfSeq DEF Running, Stacked
  <2> QED
    BY <2>1, <2>2
    DEF Running, Shape, Progress, Stacked, Defined, Answered, FrameType, TypeOK
<1> QED
  BY <1>1, RunningHolds, PTL

--------------------------------------------------------------------------------
(* The names of tools *)

Named ==
    /\ \A i, j \in 1 .. Len(names) : names[i] = names[j] => i = j
    /\ \A i \in 1 .. Len(tools) : tools[i].name = names[i]

LEMMA NamedNext ==
    ASSUME NamesAreSequences
    PROVE  Running /\ Named /\ [Next]_vars => Named'
<1> SUFFICES ASSUME Running, Named, [Next]_vars PROVE Named'
  OBVIOUS
<1>0. /\ Len(names) \in Nat /\ Len(tools) \in Nat /\ Len(selected) \in Nat
      /\ Sequence(names) /\ Sequence(tools)
  BY LengthIsNatural, LenProperties DEF Running, Shape
<1>1. CASE UNCHANGED <<names, tools>>
  BY <1>1 DEF Named
<1>2. CASE NameRoute /\ Len(names) < Len(selected)
  <2> DEFINE taken == {names[i] : i \in 1 .. Len(names)}
             base == selected[Len(names) + 1].base
             name == FreeName(base, taken)
  <2>1. base \in Name
    <3>1. Len(names) + 1 \in 1 .. Len(selected)
      BY <1>0, <1>2
    <3>2. selected[Len(names) + 1] \in Operation
      BY <3>1, ElementOfSeq DEF Running, Shape
    <3> QED
      BY <3>2 DEF Operation
  <2>2. IsFiniteSet(taken)
    BY <1>0, FiniteRange
  <2>3. name \notin taken
    BY <2>1, <2>2, FreeNameIsFree
  <2>4. names' = Append(names, name) /\ UNCHANGED tools
    BY <1>2 DEF NameRoute
  <2>5. \A i \in 1 .. Len(names) : names[i] # name
    BY <2>3
  <2> HIDE DEF name
  <2>6. /\ Len(names') = Len(names) + 1 /\ names'[Len(names) + 1] = name
        /\ \A i \in 1 .. Len(names) : names'[i] = names[i]
    BY <1>0, <2>4, Appended
  <2>7. Len(tools) <= Len(names)
    BY DEF Running, Progress
  <2> QED
    BY <1>0, <2>4, <2>5, <2>6, <2>7 DEF Named
<1>3. ASSUME NEW b, NEW o, AddTool(b, o), UNCHANGED names PROVE Named'
  <2>1. PICK e : tools' = Append(tools, e) /\ e.name = names[Len(tools) + 1]
    BY <1>3 DEF AddTool
  <2>2. /\ Len(tools') = Len(tools) + 1 /\ tools'[Len(tools) + 1] = e
        /\ \A i \in 1 .. Len(tools) : tools'[i] = tools[i]
    BY <1>0, <2>1, Appended
  <2> QED
    BY <1>0, <1>3, <2>1, <2>2 DEF Named
<1>4. CASE Build
  <2>1. CASE Select \/ BeginRoute \/ Hoisted \/ (\E r \in Pointer \cup {Dangling} : SkipRef(r))
             \/ (\E p \in Pointer : Hoist(p))
    BY <1>1, <2>1 DEF Select, BeginRoute, Hoisted, SkipRef, Hoist
  <2>2. CASE NameRoute
    BY <1>1, <1>2, <2>2 DEF NameRoute
  <2>3. CASE BindInput
    BY <1>1, <1>3, <2>3 DEF BindInput
  <2>4. CASE BindOutput
    BY <1>3, <2>4 DEF BindOutput
  <2> QED
    BY <1>4, <2>1, <2>2, <2>3, <2>4 DEF Build
<1> QED
  BY <1>1, <1>4 DEF Next, Call, CallFails, Respond, building, vars

LEMMA NamedHolds == ASSUME NamesAreSequences PROVE Spec => []Named
<1>1. Init => Named
  BY EmptySequence DEF Init, Named
<1> QED
  BY <1>1, RunningHolds, NamedNext, PTL DEF Spec

\* No two tools have the same name, however the operationIds of the document
\* collide or look suffixed (generateToolNames).
THEOREM ToolNamesUniqueHolds == ASSUME NamesAreSequences PROVE Spec => []ToolNamesUnique
<1>1. Running /\ Named => ToolNamesUnique
  <2> SUFFICES ASSUME Running, Named PROVE ToolNamesUnique
    OBVIOUS
  <2>1. Len(names) \in Nat /\ Len(tools) \in Nat /\ Len(tools) <= Len(names)
    BY LengthIsNatural DEF Running, Shape, Progress
  <2> QED
    BY <2>1 DEF Named, ToolNamesUnique
<1> QED
  BY <1>1, RunningHolds, NamedHolds, PTL

--------------------------------------------------------------------------------
(* Responses *)

\* An answer is read whole, or becomes an error.
LEMMA AnswerIsWhole ==
    ASSUME NEW tool, NEW reply \in Response, Respond(tool, reply)
    PROVE  PayloadArrivesWhole'
<1> DEFINE declared == tool.output # None
           read == R!NormalizeToolResult(ReadResponse(reply, declared), declared)
           sent == IF reply.ok THEN Parsed(reply) ELSE None
           result == IF Unreadable(reply, declared) THEN R!Failed ELSE read
<1>1. outcome' = [declared |-> declared, sent |-> sent, result |-> result]
  BY DEF Respond
<1>2. Parsed(reply) # None => reply.type = "json"
  BY DEF Parsed
<1>3. Parsed(reply) # None =>
        read.error = FALSE /\ read.structured = Parsed(reply)
  BY DEF ReadResponse, Structured, R!NormalizeToolResult, R!Wrapper
<1>4. sent # None => ~result.error /\ result.structured = sent
  BY <1>2, <1>3 DEF Unreadable
<1>5. declared => result.error \/ result.structured # None
  BY <1>3 DEF Unreadable, R!Failed
<1> HIDE DEF declared, sent, result
<1> QED
  BY <1>1, <1>4, <1>5 DEF PayloadArrivesWhole

LEMMA PayloadArrivesWholeNext == PayloadArrivesWhole /\ [Next]_vars => PayloadArrivesWhole'
<1>1. CASE UNCHANGED outcome
  BY <1>1 DEF PayloadArrivesWhole
<1>2. CASE Build
  BY <1>1, <1>2 DEF Build, Select, NameRoute, BeginRoute, SkipRef, Hoist, Hoisted,
                    BindInput, BindOutput
<1>3. ASSUME NEW tool, NEW keys, NEW chosen, Call(tool, keys, chosen)
      PROVE  PayloadArrivesWhole'
  BY <1>3 DEF Call, PayloadArrivesWhole
<1>4. ASSUME NEW tool, CallFails(tool) PROVE PayloadArrivesWhole'
  BY <1>4 DEF CallFails, PayloadArrivesWhole, R!Failed
<1> QED
  BY <1>1, <1>2, <1>3, <1>4, AnswerIsWhole DEF Next, vars

\* The object in an answer is the structured content of the result, whichever
\* of a tool's own shapes its keys suggest, and a tool that declared an output
\* schema never answers without structured content (readResponse).
THEOREM PayloadArrivesWholeHolds == Spec => []PayloadArrivesWhole
<1>1. Init => PayloadArrivesWhole
  BY DEF Init, PayloadArrivesWhole
<1> QED
  BY <1>1, PayloadArrivesWholeNext, PTL DEF Spec

--------------------------------------------------------------------------------
(* The normalizer *)

\* The $refs that have a name already, or will never have one.
Resolvable == DOMAIN named \cup {Dangling}

\* The definition of p is finished.
Settled(p) ==
    /\ definitions[named[p]] = Normalized(doc.component[p])
    /\ doc.component[p].refs \subseteq Resolvable

OnStack(p) == \E i \in 2 .. Len(stack) : stack[i].of = p

\* Two components never share a name.
Distinct ==
    /\ IsFiniteSet(DOMAIN definitions)
    /\ \A p, q \in DOMAIN named : named[p] = named[q] => p = q

\* A component is hoisted once, and what its frame has done is resolved.
Frames ==
    /\ \A i \in 2 .. Len(stack) :
        /\ stack[i].of \in DOMAIN named
        /\ doc.component[stack[i].of].refs \subseteq stack[i].todo \cup Resolvable
    /\ \A i, j \in 2 .. Len(stack) : stack[i].of = stack[j].of => i = j

Root ==
    /\ phase = "input" => InputRefs(Route) \subseteq stack[1].todo \cup Resolvable
    /\ phase = "output" => Route.response.refs \subseteq stack[1].todo \cup Resolvable

\* A name has its definition, or is a placeholder of a call in progress.
Hoisting == Distinct /\ Frames /\ Root /\ \A p \in DOMAIN named : Settled(p) \/ OnStack(p)

\* A finished schema is not disturbed by further names.
LEMMA SettledStays ==
    ASSUME Running, UNCHANGED doc, NEW p \in DOMAIN named, Settled(p),
           DOMAIN named \subseteq DOMAIN named',
           \A q \in DOMAIN named : named'[q] = named[q],
           definitions'[named[p]] = definitions[named[p]]
    PROVE  Settled(p)'
<1>1. PICK s : s = doc.component[p] /\ s = doc'.component[p]
  OBVIOUS
<1>2. s.refs \subseteq DOMAIN named \cup {Dangling}
  BY <1>1 DEF Settled, Resolvable
<1>3. {IF r = Dangling THEN Dangling ELSE named[r] : r \in s.refs}
        = {IF r = Dangling THEN Dangling ELSE named'[r] : r \in s.refs}
  BY <1>2
<1>4. [s EXCEPT !.refs = {IF r = Dangling THEN Dangling ELSE named[r] : r \in @}]
        = [s EXCEPT !.refs = {IF r = Dangling THEN Dangling ELSE named'[r] : r \in @}]
  BY <1>3
<1>5. definitions'[named'[p]] = [s EXCEPT !.refs = {IF r = Dangling THEN Dangling ELSE named'[r]
                                                    : r \in @}]
  BY <1>1, <1>4 DEF Settled, Normalized
<1> QED
  BY <1>1, <1>2, <1>5 DEF Settled, Normalized, Resolvable

\* All of a route is normalized when its root has nothing left to do.
LEMMA AllSettled ==
    ASSUME Running, Hoisting, Len(stack) < 2, NEW p \in DOMAIN named
    PROVE  Settled(p)
<1>1. Len(stack) \in Nat
  BY LenProperties DEF Running, Stacked
<1> QED
  BY <1>1 DEF Hoisting, OnStack

LEMMA RootIsLast ==
    ASSUME Running, stack # <<>>
    PROVE  Len(stack) \in Nat /\ (Top.of = None <=> Len(stack) = 1)
BY TopIsTyped DEF Running, Stacked, Top

LEMMA SkipKeepsHoisting ==
    ASSUME Running, Hoisting, NEW r, SkipRef(r)
    PROVE  Hoisting'
<1>1. /\ stack \in Seq(FrameType) /\ stack # <<>> /\ stack' = Resolved(r)
      /\ r \in Resolvable
      /\ UNCHANGED <<doc, phase, selected, tools, named, definitions>>
  BY DEF SkipRef, Running, Stacked, Normalizing, Known, Resolvable, normalizer
<1>2. /\ Len(stack') = Len(stack) /\ Len(stack) \in Nat /\ Len(stack) >= 1
      /\ \A i \in 1 .. Len(stack) :
           stack'[i].of = stack[i].of /\ stack[i].todo \subseteq stack'[i].todo \cup {r}
  BY <1>1, ResolvedStack, TopIsTyped
<1>3. Distinct'
  BY <1>1 DEF Hoisting, Distinct
<1>4. Frames'
  BY <1>1, <1>2 DEF Hoisting, Frames, Resolvable
<1>5. Root'
  <2>1. 1 \in 1 .. Len(stack) /\ Resolvable' = Resolvable /\ Route' = Route
    BY <1>1, <1>2 DEF Resolvable, Route
  <2> QED
    BY <1>1, <1>2, <2>1 DEF Hoisting, Root
<1>6. ASSUME NEW p \in DOMAIN named PROVE Settled(p)' \/ OnStack(p)'
  BY <1>1, <1>2, SettledStays DEF Hoisting, OnStack
<1> QED
  BY <1>1, <1>3, <1>4, <1>5, <1>6 DEF Hoisting

LEMMA HoistKeepsHoisting ==
    ASSUME NamesAreSequences, Running, Hoisting, NEW p \in Pointer, Hoist(p)
    PROVE  Hoisting'
<1> DEFINE n == Len(stack)
<1>1. PICK name : /\ name = FreeName(doc.word[p], DOMAIN definitions)
                  /\ named' = Reserved(p, name)
                  /\ definitions' = [d \in DOMAIN definitions \cup {name} |->
                                        IF d = name THEN Placeholder ELSE definitions[d]]
  BY DEF Hoist
<1>2. /\ p \notin DOMAIN named /\ Normalizing /\ stack' = Append(stack, Frame(p))
      /\ UNCHANGED <<doc, phase, selected, tools>>
  BY DEF Hoist, Known
<1>3. name \notin DOMAIN definitions
  BY <1>1, <1>2, TopPoints, FreeNameIsFree DEF Hoisting, Distinct
<1>4. /\ DOMAIN named' = DOMAIN named \cup {p} /\ named'[p] = name
      /\ \A q \in DOMAIN named : named'[q] = named[q]
      /\ \A q \in DOMAIN named : named[q] \in DOMAIN definitions
      /\ \A q \in DOMAIN named : definitions'[named[q]] = definitions[named[q]]
  <2>1. \A q \in DOMAIN named : named[q] \in DOMAIN definitions
    BY DEF Running, Defined
  <2> QED
    BY <1>1, <1>2, <1>3, <2>1 DEF Reserved
<1>5. /\ n \in Nat /\ n >= 1 /\ Len(stack') = n + 1
      /\ \A i \in 1 .. n : stack'[i] = stack[i]
      /\ stack'[n + 1] = Frame(p)
  <2>1. Frame(p) \in FrameType /\ stack \in Seq(FrameType) /\ n >= 1
    BY <1>2, TopPoints DEF Running, Stacked
  <2> QED
    BY <1>2, <2>1, TypedAppend
<1> HIDE DEF n
<1>6. Resolvable \subseteq Resolvable'
  BY <1>4 DEF Resolvable
<1>7. Distinct'
  <2>1. DOMAIN definitions' = DOMAIN definitions \cup {name}
    BY <1>1
  <2>2. IsFiniteSet(DOMAIN definitions')
    BY <2>1, FS_AddElement DEF Hoisting, Distinct
  <2> QED
    BY <1>3, <1>4, <2>2 DEF Hoisting, Distinct
<1>8. Frames'
  <2>1. \A i \in 2 .. n + 1 : i \in 2 .. n \/ i = n + 1
    BY <1>5
  <2>2. \A i \in 2 .. n : stack'[i] = stack[i] /\ stack[i].of \in DOMAIN named
    BY <1>5 DEF Hoisting, Frames, n
  <2>3. stack'[n + 1].of = p /\ stack'[n + 1].todo = doc.component[p].refs
    BY <1>5 DEF Frame
  <2>4. \A i \in 2 .. n + 1 :
            /\ stack'[i].of \in DOMAIN named'
            /\ doc'.component[stack'[i].of].refs \subseteq stack'[i].todo \cup Resolvable'
    BY <1>2, <1>4, <1>6, <2>1, <2>2, <2>3 DEF Hoisting, Frames, n
  <2>5. \A i, j \in 2 .. n + 1 : stack'[i].of = stack'[j].of => i = j
    BY <1>2, <2>1, <2>2, <2>3 DEF Hoisting, Frames, n
  <2> QED
    BY <1>5, <2>4, <2>5 DEF Frames
<1>9. Root'
  <2>1. stack'[1] = stack[1] /\ Route' = Route
    BY <1>2, <1>5 DEF Route
  <2> QED
    BY <1>2, <1>6, <2>1 DEF Hoisting, Root
<1>10. ASSUME NEW q \in DOMAIN named PROVE Settled(q)' \/ OnStack(q)'
  <2>1. CASE Settled(q)
    BY <1>2, <1>4, <2>1, SettledStays
  <2>2. CASE OnStack(q)
    BY <1>5, <2>2 DEF OnStack, n
  <2> QED
    BY <2>1, <2>2 DEF Hoisting
<1>11. OnStack(p)'
  <2>1. n + 1 \in 2 .. Len(stack') /\ stack'[n + 1].of = p
    BY <1>5 DEF Frame
  <2> QED
    BY <2>1 DEF OnStack
<1> QED
  BY <1>4, <1>7, <1>8, <1>9, <1>10, <1>11 DEF Hoisting

LEMMA HoistedKeepsHoisting ==
    ASSUME Running, Hoisting, Hoisted
    PROVE  Hoisting'
<1> DEFINE n == Len(stack)
<1>1. PICK p : p = stack[n].of
  OBVIOUS
<1>2. /\ stack \in Seq(FrameType) /\ stack # <<>> /\ stack' = Popped
      /\ stack[n].todo = {} /\ p # None
      /\ definitions' = [definitions EXCEPT ![named[p]] = Normalized(doc.component[p])]
      /\ UNCHANGED <<doc, phase, selected, tools, named>>
  BY <1>1 DEF Hoisted, Running, Stacked, Normalizing, Top
<1>3. /\ n \in 2 .. n /\ n \in Nat /\ Len(stack') = n - 1
      /\ \A i \in 1 .. n - 1 : stack'[i] = stack[i]
  BY <1>1, <1>2, RootIsLast, PoppedStack DEF Top
<1>4. p \in DOMAIN named /\ doc.component[p].refs \subseteq Resolvable
  BY <1>1, <1>2, <1>3 DEF Hoisting, Frames
<1> HIDE DEF n
<1>5. /\ DOMAIN definitions' = DOMAIN definitions /\ named[p] \in DOMAIN definitions
      /\ \A q \in DOMAIN named : q # p => definitions'[named[q]] = definitions[named[q]]
      /\ definitions'[named[p]] = Normalized(doc.component[p])
  BY <1>2, <1>4 DEF Running, Defined, Hoisting, Distinct
<1>6. Distinct' /\ Resolvable' = Resolvable
  BY <1>2, <1>5 DEF Hoisting, Distinct, Resolvable
<1>7. Frames' /\ Root'
  <2>1. \A i \in 2 .. n - 1 : i \in 2 .. n /\ stack'[i] = stack[i]
    BY <1>3
  <2>2. Frames'
    BY <1>2, <1>3, <1>6, <2>1 DEF Hoisting, Frames, n
  <2>3. stack'[1] = stack[1] /\ Route' = Route
    BY <1>2, <1>3 DEF Route
  <2> QED
    BY <1>2, <1>6, <2>2, <2>3 DEF Hoisting, Root
<1>8. Settled(p)'
  BY <1>2, <1>4, <1>5, <1>6 DEF Settled, Normalized
<1>9. ASSUME NEW q \in DOMAIN named, q # p PROVE Settled(q)' \/ OnStack(q)'
  <2>1. CASE Settled(q)
    BY <1>2, <1>5, <1>9, <2>1, SettledStays
  <2>2. CASE OnStack(q)
    <3>1. PICK i \in 2 .. n : stack[i].of = q
      BY <2>2 DEF OnStack, n
    <3>2. i # n
      BY <1>1, <1>9, <3>1
    <3>3. i \in 2 .. Len(stack') /\ stack'[i].of = q
      BY <1>3, <3>1, <3>2
    <3> QED
      BY <3>3 DEF OnStack
  <2> QED
    BY <2>1, <2>2 DEF Hoisting
<1> QED
  BY <1>2, <1>6, <1>7, <1>8, <1>9 DEF Hoisting

\* Between two frames of the root nothing is left unfinished.
LEMMA RootKeepsHoisting ==
    ASSUME Running, Hoisting, Len(stack) < 2, Sequence(stack'), Len(stack') < 2, Root',
           UNCHANGED <<doc, named, definitions>>
    PROVE  Hoisting'
<1>1. Len(stack') \in Nat
  BY LengthIsNatural DEF Sequence
<1>2. Distinct'
  BY DEF Hoisting, Distinct
<1>3. Frames'
  BY <1>1 DEF Frames
<1>4. \A p \in DOMAIN named : Settled(p)'
  BY AllSettled, SettledStays
<1> QED
  BY <1>2, <1>3, <1>4 DEF Hoisting

LEMMA RoutesKeepHoisting ==
    ASSUME Running, Hoisting, BeginRoute \/ BindInput \/ BindOutput
    PROVE  Hoisting'
<1>1. UNCHANGED <<doc, selected, named, definitions>>
  BY DEF BeginRoute, BindInput, BindOutput, normalizer
<1>2. Len(stack) < 2
  <2>1. CASE BeginRoute
    <3>1. stack = <<>>
      BY <2>1 DEF BeginRoute, Running, Stacked
    <3> QED
      BY <3>1, EmptySequence
  <2>2. CASE BindInput \/ BindOutput
    <3>1. stack # <<>> /\ Top.of = None
      BY <2>2 DEF BindInput, BindOutput
    <3>2. Len(stack) = 1
      BY <3>1, RootIsLast
    <3> QED
      BY <3>2
  <2> QED
    BY <2>1, <2>2
<1>3. ASSUME stack' = <<>>, phase' = "bind" PROVE Hoisting'
  BY <1>1, <1>2, <1>3, RootKeepsHoisting, EmptySequence DEF Root
<1>4. ASSUME NEW refs, stack' = <<RootFrame(refs)>>, Root' PROVE Hoisting'
  BY <1>1, <1>2, <1>4, RootKeepsHoisting, OneElement
<1>5. CASE BeginRoute
  <2>1. CASE Len(tools) < Len(selected)
    <3>1. /\ stack' = <<RootFrame(InputRefs(Route))>> /\ phase' = "input"
          /\ Route' = Route
      BY <1>5, <2>1 DEF BeginRoute, Route
    <3>2. stack'[1].todo = InputRefs(Route)
      BY <3>1, OneElement DEF RootFrame
    <3>3. Root'
      BY <3>1, <3>2 DEF Root
    <3> QED
      BY <1>4, <3>1, <3>3
  <2>2. CASE ~(Len(tools) < Len(selected))
    <3>1. stack' = stack /\ phase' = "serve" /\ Sequence(stack)
      BY <1>5, <2>2 DEF BeginRoute, Running, Stacked, Sequence
    <3> QED
      BY <1>1, <1>2, <3>1, RootKeepsHoisting DEF Root
  <2> QED
    BY <2>1, <2>2
<1>6. CASE BindInput
  <2>1. CASE OutputSchema /\ Route.response # None
    <3>1. /\ stack' = <<RootFrame(Route.response.refs)>> /\ phase' = "output"
          /\ Route' = Route
      BY <1>6, <2>1 DEF BindInput, Route
    <3>2. stack'[1].todo = Route.response.refs
      BY <3>1, OneElement DEF RootFrame
    <3>3. Root'
      BY <3>1, <3>2 DEF Root
    <3> QED
      BY <1>4, <3>1, <3>3
  <2>2. CASE ~(OutputSchema /\ Route.response # None)
    BY <1>3, <1>6, <2>2 DEF BindInput
  <2> QED
    BY <2>1, <2>2
<1>7. CASE BindOutput
  BY <1>3, <1>7 DEF BindOutput
<1> QED
  BY <1>5, <1>6, <1>7

LEMMA HoistingNext ==
    ASSUME NamesAreSequences
    PROVE  Running /\ Hoisting /\ [Next]_vars => Hoisting'
<1> SUFFICES ASSUME Running, Hoisting, [Next]_vars PROVE Hoisting'
  OBVIOUS
<1>1. ASSUME UNCHANGED <<doc, stack, named, definitions>>,
             Root' PROVE Hoisting'
  <2>1. ASSUME NEW p \in DOMAIN named PROVE Settled(p)' \/ OnStack(p)'
    BY <1>1, SettledStays DEF Hoisting, OnStack
  <2> QED
    BY <1>1, <2>1 DEF Hoisting, Distinct, Frames, Resolvable
<1>2. CASE UNCHANGED <<doc, phase, selected, tools, stack, named, definitions>>
  <2>1. Root'
    BY <1>2 DEF Hoisting, Root, Route, Resolvable
  <2> QED
    BY <1>1, <1>2, <2>1
<1>3. CASE Select \/ NameRoute
  <2>1. UNCHANGED <<doc, stack, named, definitions>> /\ phase' \notin {"input", "output"}
    BY <1>3 DEF Select, NameRoute, normalizer
  <2> QED
    BY <1>1, <2>1 DEF Root
<1>4. CASE Build
  BY <1>3, <1>4, RoutesKeepHoisting, SkipKeepsHoisting, HoistKeepsHoisting,
     HoistedKeepsHoisting DEF Build
<1> QED
  BY <1>2, <1>4 DEF Next, Call, CallFails, Respond, building, normalizer, vars

LEMMA HoistingHolds == ASSUME NamesAreSequences PROVE Spec => []Hoisting
<1>1. Init => Hoisting
  <2> SUFFICES ASSUME Init PROVE Hoisting
    OBVIOUS
  <2>1. Len(stack) = 0 /\ DOMAIN named = {} /\ DOMAIN definitions = {}
    BY EmptySequence DEF Init
  <2> QED
    BY <2>1, FS_EmptySet DEF Init, Hoisting, Distinct, Frames, Root
<1> QED
  BY <1>1, RunningHolds, HoistingNext, PTL DEF Spec

--------------------------------------------------------------------------------
(* Schemas that are detached from the document *)

\* Standalone, and what keeps it so while further schemas are hoisted.
Kept(refs, defs) ==
    /\ refs \subseteq DOMAIN defs
    /\ \A n \in DOMAIN defs :
        /\ defs[n].refs \subseteq DOMAIN defs \cup {Dangling}
        /\ \E p \in DOMAIN named :
            /\ named[p] = n /\ defs[n] = Normalized(doc.component[p])
            /\ doc.component[p].refs \subseteq Resolvable

LEMMA KeptStandsAlone ==
    ASSUME Distinct, NEW refs, NEW defs, Kept(refs, defs)
    PROVE  Standalone(refs, defs)
BY DEF Distinct, Kept, Standalone

LEMMA KeptStays ==
    ASSUME UNCHANGED doc, NEW refs, NEW defs, Kept(refs, defs),
           DOMAIN named \subseteq DOMAIN named',
           \A q \in DOMAIN named : named'[q] = named[q]
    PROVE  Kept(refs, defs)'
<1> SUFFICES ASSUME NEW n \in DOMAIN defs
             PROVE  \E p \in DOMAIN named' :
                        /\ named'[p] = n /\ defs[n] = Normalized(doc.component[p])'
                        /\ doc'.component[p].refs \subseteq Resolvable'
  BY DEF Kept
<1>1. PICK p \in DOMAIN named : /\ named[p] = n /\ defs[n] = Normalized(doc.component[p])
                                /\ doc.component[p].refs \subseteq Resolvable
  BY DEF Kept
<1>2. PICK s : s = doc.component[p] /\ s = doc'.component[p]
  OBVIOUS
<1>3. {IF r = Dangling THEN Dangling ELSE named[r] : r \in s.refs}
        = {IF r = Dangling THEN Dangling ELSE named'[r] : r \in s.refs}
  BY <1>1, <1>2 DEF Resolvable
<1>4. [s EXCEPT !.refs = {IF r = Dangling THEN Dangling ELSE named[r] : r \in @}]
        = [s EXCEPT !.refs = {IF r = Dangling THEN Dangling ELSE named'[r] : r \in @}]
  BY <1>3
<1>5. defs[n] = [s EXCEPT !.refs = {IF r = Dangling THEN Dangling ELSE named'[r] : r \in @}]
  BY <1>1, <1>2, <1>4 DEF Normalized
<1>6. defs[n] = Normalized(doc.component[p])'
  BY <1>2, <1>5 DEF Normalized
<1>7. doc'.component[p].refs \subseteq Resolvable'
  BY <1>1, <1>2 DEF Resolvable
<1> QED
  BY <1>1, <1>6, <1>7

\* normalize() rewrites the $refs and leaves the rest of a schema alone.
LEMMA NormalizedSchema ==
    ASSUME NEW s \in Schema
    PROVE  /\ Normalized(s).shape = s.shape /\ Normalized(s).props = s.props
           /\ Normalized(s).refs = {IF r = Dangling THEN Dangling ELSE named[r] : r \in s.refs}
BY DEF Schema, Normalized

Resolves(refs) == refs \subseteq DOMAIN definitions \cup {Dangling}

LEMMA RefsResolve ==
    ASSUME Running, NEW refs, refs \subseteq Resolvable
    PROVE  Resolves({IF r = Dangling THEN Dangling ELSE named[r] : r \in refs})
BY DEF Running, Defined, Resolvable, Resolves

\* A finished definition is a component with its $refs rewritten.
LEMMA DefinitionsAreComponents ==
    ASSUME Running, Hoisting, Len(stack) < 2, NEW n \in DOMAIN definitions
    PROVE  \E p \in DOMAIN named :
              /\ named[p] = n /\ p \in Pointer /\ doc.component[p] \in Schema
              /\ doc.component[p].refs \subseteq Resolvable
              /\ definitions[n] = Normalized(doc.component[p])
              /\ Resolves(definitions[n].refs) /\ definitions[n].props \subseteq Name
<1>1. PICK p \in DOMAIN named : named[p] = n
  BY DEF Running, Defined
<1>2. Settled(p) /\ p \in Pointer
  BY <1>1, AllSettled DEF Running, Defined
<1>3. doc.component[p] \in Schema
  BY <1>2, DocumentIsTyped DEF Running, Shape
<1>4. definitions[n] = Normalized(doc.component[p]) /\ doc.component[p].refs \subseteq Resolvable
  BY <1>1, <1>2 DEF Settled
<1>5. Resolves(definitions[n].refs) /\ definitions[n].props \subseteq Name
  <2>1. doc.component[p].props \subseteq Name
    BY <1>3 DEF Schema
  <2> QED
    BY <1>3, <1>4, <2>1, NormalizedSchema, RefsResolve
<1> QED
  BY <1>1, <1>2, <1>3, <1>4, <1>5

\* collectDefinitions takes along all that its schemas refer to.
LEMMA CollectedIsKept ==
    ASSUME Running, Hoisting, Len(stack) < 2, NEW refs, Resolves(refs)
    PROVE  Kept(refs \ {Dangling}, CollectDefinitions(refs))
<1> DEFINE reached == Reached(refs)
           defs == CollectDefinitions(refs)
           links == [n \in DOMAIN definitions |-> definitions[n].refs]
<1>1. /\ reached = Closure(refs, links) /\ DOMAIN links = DOMAIN definitions
      /\ DOMAIN defs = reached /\ \A n \in reached : defs[n] = definitions[n]
  BY DEF Reached, CollectDefinitions
<1> HIDE DEF reached, defs
<1>2. reached \subseteq DOMAIN definitions /\ refs \cap DOMAIN definitions \subseteq reached
  BY <1>1, ClosureWithin, ClosureStarts
<1>3. refs \ {Dangling} \subseteq DOMAIN defs
  BY <1>1, <1>2 DEF Resolves
<1>4. ASSUME NEW n \in DOMAIN defs
      PROVE  /\ defs[n].refs \subseteq DOMAIN defs \cup {Dangling}
             /\ \E p \in DOMAIN named :
                    /\ named[p] = n /\ defs[n] = Normalized(doc.component[p])
                    /\ doc.component[p].refs \subseteq Resolvable
  <2>1. n \in DOMAIN definitions /\ defs[n] = definitions[n] /\ n \in Closure(refs, links)
    BY <1>1, <1>2, <1>4
  <2>2. links[n] \cap DOMAIN links \subseteq reached
    BY <1>1, <2>1, ClosureCloses
  <2>3. definitions[n].refs \cap DOMAIN definitions \subseteq reached
    BY <1>1, <2>1, <2>2
  <2> QED
    BY <1>1, <2>1, <2>3, DefinitionsAreComponents DEF Resolves
<1> QED
  BY <1>3, <1>4 DEF Kept, defs

--------------------------------------------------------------------------------
(* What describeBody says of a body *)

\* The schema of the body when there is one to describe.
Described(op) ==
    /\ BodyOf(op) # None /\ BodyOf(op).kind # "unsupported" /\ BodyOf(op).schema # None

LEMMA DescribedIsTyped ==
    ASSUME NEW op \in Operation, Described(op), InputRefs(op) \subseteq Resolvable
    PROVE  BodyOf(op).schema \in Schema /\ BodyOf(op).schema.refs \subseteq Resolvable
<1>1. BodyOf(op).schema \in Schema
  BY BodyIsTyped DEF Described, Body
<1>2. BodyOf(op).schema.refs \subseteq InputRefs(op)
  BY DEF Described, InputRefs
<1> QED
  BY <1>1, <1>2

LEMMA PartsAreTyped ==
    ASSUME Running, Hoisting, Len(stack) < 2, NEW s \in Schema, s.refs \subseteq Resolvable,
           NEW part \in Parts(Normalized(s), Flattening)
    PROVE  Resolves(part.refs) /\ part.props \subseteq Name
<1>1. CASE part = Normalized(s)
  BY <1>1, NormalizedSchema, RefsResolve DEF Schema
<1>2. CASE part # Normalized(s)
  <2>1. PICK n : n \in DOMAIN definitions /\ part = definitions[n]
    <3> DEFINE links == [n \in DOMAIN definitions |-> Branches(definitions[n], Flattening)]
               from == Branches(Normalized(s), Flattening)
    <3>1. PICK n \in Closure(from, links) : part = definitions[n]
      BY <1>2 DEF Parts
    <3>2. n \in DOMAIN links /\ DOMAIN links = DOMAIN definitions
      BY ClosureWithin
    <3> QED
      BY <3>1, <3>2
  <2> QED
    BY <2>1, DefinitionsAreComponents
<1> QED
  BY <1>1, <1>2

\* The parts that flattenObject takes properties from.
Objects(N) == {part \in Parts(N, Flattening) : HasProperties(part)}

LEMMA FlatIsTyped ==
    ASSUME Running, Hoisting, Len(stack) < 2, NEW s \in Schema, s.refs \subseteq Resolvable,
           FlattenObject(Normalized(s)) # None
    PROVE  LET flat == FlattenObject(Normalized(s)) IN
           /\ Walkable(Normalized(s), Flattening)
           /\ flat.props = UNION {part.props : part \in Objects(Normalized(s))}
           /\ Resolves(flat.refs) /\ flat.props \subseteq Name
<1> DEFINE N == Normalized(s)
           objects == Objects(N)
           plain == {o \in objects : o.shape = "object"}
           flat == FlattenObject(N)
<1>1. /\ Walkable(N, Flattening)
      /\ flat = [props    |-> UNION {part.props : part \in objects},
                 required |-> UNION {part.required : part \in objects},
                 refs     |-> UNION {part.refs : part \in plain}]
  BY DEF FlattenObject, Objects
<1>2. \A part \in objects : Resolves(part.refs) /\ part.props \subseteq Name
  BY PartsAreTyped DEF Objects
<1>3. plain \subseteq objects
  OBVIOUS
<1> HIDE DEF objects, plain, flat, N
<1>4. /\ flat.props = UNION {part.props : part \in objects}
      /\ flat.refs = UNION {part.refs : part \in plain}
  BY <1>1
<1>5. Resolves(flat.refs)
  BY <1>2, <1>3, <1>4 DEF Resolves
<1> QED
  BY <1>1, <1>2, <1>4, <1>5 DEF objects, flat, N

\* The body is one argument, the properties of an object, or nothing.
LEMMA BodyIsDescribed ==
    ASSUME Running, Hoisting, Len(stack) < 2, NEW op \in Operation,
           InputRefs(op) \subseteq Resolvable
    PROVE  LET body == DescribeBody(op) IN
           /\ Resolves(body.refs)
           /\ body.props \subseteq Name \cup {<<"body">>}
           /\ body.whole => body.props = {<<"body">>}
           /\ ~Described(op) /\ ~body.whole => body.props = {}
           /\ Described(op) /\ ~body.whole =>
                LET N == Normalized(BodyOf(op).schema) IN
                /\ Walkable(N, Flattening)
                /\ body.props = UNION {s.props : s \in Objects(N)}
<1> DEFINE b == BodyOf(op)
           N == Normalized(b.schema)
           flat == FlattenObject(N)
           body == DescribeBody(op)
<1>1. CASE ~Described(op)
  <2>1. /\ body.refs = {} /\ body.props \subseteq {<<"body">>}
        /\ body.whole => body.props = {<<"body">>}
        /\ ~body.whole => body.props = {}
    BY <1>1 DEF Described, DescribeBody, NoBody
  <2> QED
    BY <1>1, <2>1 DEF Resolves
<1>2. CASE Described(op) /\ (b.kind = "text" \/ flat = None)
  <2>1. body.refs = N.refs /\ body.props = {<<"body">>} /\ body.whole
    BY <1>2 DEF Described, DescribeBody, NoBody
  <2>2. Resolves(N.refs)
    BY <1>2, DescribedIsTyped, NormalizedSchema, RefsResolve
  <2> QED
    BY <2>1, <2>2
<1>3. CASE Described(op) /\ ~(b.kind = "text" \/ flat = None)
  <2>1. body.refs = flat.refs /\ body.props = flat.props /\ ~body.whole
    BY <1>3 DEF Described, DescribeBody
  <2>2. /\ Walkable(N, Flattening) /\ Resolves(flat.refs) /\ flat.props \subseteq Name
        /\ flat.props = UNION {s.props : s \in Objects(N)}
    BY <1>3, DescribedIsTyped, FlatIsTyped
  <2> HIDE DEF flat, body
  <2> QED
    BY <1>3, <2>1, <2>2 DEF flat, body
<1> QED
  BY <1>1, <1>2, <1>3

--------------------------------------------------------------------------------
(* The schemas of tools *)

LEMMA InputIsKept ==
    ASSUME Running, Hoisting, Len(stack) < 2, NEW op \in Operation,
           InputRefs(op) \subseteq Resolvable, NEW owner \in Owners(op, DescribeBody(op))
    PROVE  LET b == InputBinding(op, DescribeBody(op), owner) IN Kept(b.refs, b.defs)
<1> DEFINE body == DescribeBody(op)
           kept == {owner[k] : k \in DOMAIN owner \ body.props}
           refs == body.refs \cup UNION {Normalized(p).refs : p \in kept}
<1>1. Resolves(body.refs)
  BY BodyIsDescribed
<1>2. ASSUME NEW p \in kept PROVE Resolves(Normalized(p).refs)
  <2>1. p \in Merged(op)
    BY <1>2 DEF Owners
  <2>2. p \in Parameter /\ p.refs \subseteq Resolvable
    BY <2>1, ParametersAreTyped DEF InputRefs
  <2>3. Normalized(p).refs = {IF r = Dangling THEN Dangling ELSE named[r] : r \in p.refs}
    BY <2>2 DEF Parameter, Normalized
  <2> QED
    BY <2>2, <2>3, RefsResolve
<1>3. Resolves(refs)
  BY <1>1, <1>2 DEF Resolves
<1>4. /\ InputBinding(op, body, owner).refs = refs \ {Dangling}
      /\ InputBinding(op, body, owner).defs = CollectDefinitions(refs)
  BY DEF InputBinding
<1> HIDE DEF refs, body
<1>5. Kept(refs \ {Dangling}, CollectDefinitions(refs))
  BY <1>3, CollectedIsKept
<1> QED
  BY <1>4, <1>5 DEF body

LEMMA OutputIsKept ==
    ASSUME Running, Hoisting, Len(stack) < 2, NEW op, op.response \in Schema,
           op.response.refs \subseteq Resolvable, OutputOf(op) # None
    PROVE  Kept(OutputOf(op).refs, OutputOf(op).defs)
<1> DEFINE refs == Normalized(op.response).refs
<1>1. Resolves(refs)
  BY NormalizedSchema, RefsResolve
<1>2. /\ OutputOf(op).refs = refs \ {Dangling}
      /\ OutputOf(op).defs = CollectDefinitions(refs)
  BY DEF OutputOf
<1> QED
  BY <1>1, <1>2, CollectedIsKept

\* The normalizer only ever adds names.
LEMMA NamesGrow ==
    ASSUME [Next]_vars
    PROVE  /\ UNCHANGED doc /\ DOMAIN named \subseteq DOMAIN named'
           /\ \A q \in DOMAIN named : named'[q] = named[q]
<1>1. CASE UNCHANGED <<doc, named>>
  BY <1>1
<1>2. ASSUME NEW p \in Pointer, Hoist(p)
      PROVE  /\ UNCHANGED doc /\ DOMAIN named \subseteq DOMAIN named'
             /\ \A q \in DOMAIN named : named'[q] = named[q]
  <2>1. PICK name : named' = Reserved(p, name) /\ p \notin DOMAIN named /\ UNCHANGED doc
    BY <1>2 DEF Hoist, Known
  <2> QED
    BY <2>1 DEF Reserved
<1>3. CASE Build
  BY <1>1, <1>2, <1>3 DEF Build, Select, NameRoute, BeginRoute, SkipRef, Hoisted,
                          BindInput, BindOutput, normalizer
<1> QED
  BY <1>1, <1>3 DEF Next, Call, CallFails, Respond, building, normalizer, vars

KeptTool(tool) ==
    /\ Kept(tool.refs, tool.defs)
    /\ tool.output # None => Kept(tool.output.refs, tool.output.defs)

Schemas ==
    /\ phase = "output" => Kept(binding.refs, binding.defs)
    /\ \A i \in 1 .. Len(tools) : KeptTool(tools[i])

LEMMA KeptToolStays ==
    ASSUME [Next]_vars, NEW tool, KeptTool(tool)
    PROVE  KeptTool(tool)'
<1>1. Kept(tool.refs, tool.defs)'
  BY NamesGrow, KeptStays DEF KeptTool
<1>2. tool.output # None => Kept(tool.output.refs, tool.output.defs)'
  BY NamesGrow, KeptStays DEF KeptTool
<1> QED
  BY <1>1, <1>2 DEF KeptTool

\* When the root of a route has nothing left to do, all it refers to is there.
LEMMA RouteIsResolved ==
    ASSUME Running, Hoisting, stack # <<>>, Top.of = None, Top.todo = {}
    PROVE  /\ Len(stack) < 2
           /\ phase = "input" => InputRefs(Route) \subseteq Resolvable
           /\ phase = "output" => Route.response.refs \subseteq Resolvable
<1>1. Len(stack) = 1
  BY RootIsLast
<1>2. stack[1].todo = {}
  BY <1>1 DEF Top
<1> QED
  BY <1>1, <1>2 DEF Hoisting, Root

\* The tool that ends a route.
LEMMA ToolIsAdded ==
    ASSUME Running, NEW b, NEW output, AddTool(b, output)
    PROVE  \E tool :
              /\ tool.refs = b.refs /\ tool.defs = b.defs /\ tool.output = output
              /\ tool.args = b.args /\ tool.required = b.required /\ tool.whole = b.whole
              /\ Len(tools) \in Nat /\ Len(tools') = Len(tools) + 1
              /\ \A i \in 1 .. Len(tools) : tools'[i] = tools[i]
              /\ tools'[Len(tools) + 1] = tool
<1>1. PICK tool : /\ tools' = Append(tools, tool)
                  /\ tool.refs = b.refs /\ tool.defs = b.defs /\ tool.output = output
                  /\ tool.args = b.args /\ tool.required = b.required
                  /\ tool.whole = b.whole
  BY DEF AddTool
<1> QED
  BY <1>1, Appended DEF Running, Shape

LEMMA SchemasKeptByBinding ==
    ASSUME Running, Hoisting, Schemas, [Next]_vars, NEW b, NEW output, AddTool(b, output),
           Kept(b.refs, b.defs), output # None => Kept(output.refs, output.defs),
           phase' = "bind"
    PROVE  Schemas'
<1>1. PICK tool :
          /\ tool.refs = b.refs /\ tool.defs = b.defs /\ tool.output = output
          /\ Len(tools) \in Nat /\ Len(tools') = Len(tools) + 1
          /\ \A i \in 1 .. Len(tools) : tools'[i] = tools[i]
          /\ tools'[Len(tools) + 1] = tool
  BY ToolIsAdded
<1>2. KeptTool(tool)'
  BY <1>1, KeptToolStays DEF KeptTool
<1>3. ASSUME NEW i \in 1 .. Len(tools) PROVE KeptTool(tools[i])'
  <2>1. PICK t : t = tools[i] /\ t = tools'[i]
    BY <1>1
  <2>2. KeptTool(t)'
    BY <2>1, KeptToolStays DEF Schemas
  <2> QED
    BY <2>1, <2>2 DEF KeptTool
<1>4. ASSUME NEW i \in 1 .. Len(tools') PROVE KeptTool(tools[i])'
  <2>1. i \in 1 .. Len(tools) \/ i = Len(tools) + 1
    BY <1>1
  <2>2. CASE i = Len(tools) + 1
    <3>1. tools'[i] = tool
      BY <1>1, <2>2
    <3> QED
      BY <1>2, <3>1 DEF KeptTool
  <2> QED
    BY <1>3, <2>1, <2>2
<1> QED
  BY <1>4 DEF Schemas

LEMMA SchemasNext == Running /\ Hoisting /\ Schemas /\ [Next]_vars => Schemas'
<1> SUFFICES ASSUME Running, Hoisting, Schemas, [Next]_vars PROVE Schemas'
  OBVIOUS
<1>1. ASSUME UNCHANGED tools, phase' = "output" => Kept(binding.refs, binding.defs)'
      PROVE  Schemas'
  <2>1. ASSUME NEW i \in 1 .. Len(tools) PROVE KeptTool(tools[i])'
    <3>1. PICK t : t = tools[i] /\ t = tools'[i]
      BY <1>1
    <3>2. KeptTool(t)'
      BY <3>1, KeptToolStays DEF Schemas
    <3> QED
      BY <3>1, <3>2 DEF KeptTool
  <2> QED
    BY <1>1, <2>1 DEF Schemas
<1>2. CASE UNCHANGED <<tools, phase, binding>>
  <2>1. ASSUME phase = "output" PROVE Kept(binding.refs, binding.defs)'
    <3>1. PICK b : b = binding /\ b = binding'
      BY <1>2
    <3>2. Kept(b.refs, b.defs)'
      BY <2>1, <3>1, NamesGrow, KeptStays DEF Schemas
    <3> QED
      BY <3>1, <3>2 DEF Kept
  <2> QED
    BY <1>1, <1>2, <2>1
<1>3. CASE Select \/ NameRoute \/ BeginRoute
  BY <1>1, <1>3 DEF Select, NameRoute, BeginRoute
<1>4. CASE BindInput
  <2>1. /\ stack # <<>> /\ Top.of = None /\ Top.todo = {} /\ phase = "input"
    BY <1>4 DEF BindInput
  <2>2. Len(stack) < 2 /\ InputRefs(Route) \subseteq Resolvable /\ Route \in Operation
    <3>1. Len(stack) < 2 /\ InputRefs(Route) \subseteq Resolvable
      BY <2>1, RouteIsResolved
    <3>2. Route \in Operation
      BY <2>1, RouteIsTyped
    <3> QED
      BY <3>1, <3>2
  <2>3. PICK b : /\ Kept(b.refs, b.defs)
                 /\ \/ binding' = b /\ UNCHANGED tools
                    \/ AddTool(b, None) /\ phase' = "bind"
    <3>1. PICK owner \in Owners(Route, DescribeBody(Route)) :
            LET b == InputBinding(Route, DescribeBody(Route), owner) IN
            \/ binding' = b /\ UNCHANGED tools
            \/ AddTool(b, None) /\ phase' = "bind"
      BY <1>4 DEF BindInput
    <3>2. PICK b : b = InputBinding(Route, DescribeBody(Route), owner)
      OBVIOUS
    <3>3. Kept(b.refs, b.defs)
      BY <2>2, <3>2, InputIsKept
    <3> QED
      BY <3>1, <3>2, <3>3
  <2>5. ASSUME binding' = b, UNCHANGED tools PROVE Schemas'
    <3>1. Kept(b.refs, b.defs)'
      BY <2>3, NamesGrow, KeptStays
    <3>2. Kept(binding.refs, binding.defs)'
      BY <2>5, <3>1 DEF Kept
    <3> QED
      BY <1>1, <2>5, <3>2
  <2> QED
    BY <2>3, <2>5, SchemasKeptByBinding
<1>5. CASE BindOutput
  <2>1. /\ stack # <<>> /\ Top.of = None /\ Top.todo = {} /\ phase = "output"
        /\ AddTool(binding, OutputOf(Route)) /\ phase' = "bind"
    BY <1>5 DEF BindOutput
  <2>2. /\ Len(stack) < 2 /\ Route.response.refs \subseteq Resolvable
        /\ Route.response # None /\ Route \in Operation
    BY <2>1, RouteIsResolved, RouteIsSelected DEF Running, Progress
  <2>3. OutputOf(Route) # None => Kept(OutputOf(Route).refs, OutputOf(Route).defs)
    <3>1. Route.response \in Schema
      BY <2>2 DEF Operation
    <3> QED
      BY <2>2, <3>1, OutputIsKept
  <2>4. PICK b, output : /\ b = binding /\ output = OutputOf(Route)
    OBVIOUS
  <2> QED
    BY <2>1, <2>3, <2>4, SchemasKeptByBinding DEF Schemas
<1>6. CASE Build
  BY <1>2, <1>3, <1>4, <1>5, <1>6 DEF Build, SkipRef, Hoist, Hoisted
<1> QED
  BY <1>2, <1>6 DEF Next, Call, CallFails, Respond, building, vars

LEMMA SchemasHolds == ASSUME NamesAreSequences PROVE Spec => []Schemas
<1>1. Init => Schemas
  BY EmptySequence DEF Init, Schemas
<1> QED
  BY <1>1, RunningHolds, HoistingHolds, SchemasNext, PTL DEF Spec

\* A tool's schemas stand alone: each $ref resolves among the definitions that
\* were taken along, to the finished definition of exactly one component,
\* however the components refer to each other and collide in their names
\* (createSchemaNormalizer, collectDefinitions).
THEOREM SchemasStandAloneHolds == ASSUME NamesAreSequences PROVE Spec => []SchemasStandAlone
<1>1. Hoisting /\ Schemas => SchemasStandAlone
  BY KeptStandsAlone DEF Hoisting, Schemas, KeptTool, SchemasStandAlone
<1> QED
  BY <1>1, HoistingHolds, SchemasHolds, PTL

--------------------------------------------------------------------------------
(* The arguments of a tool *)

LEMMA SuffixedIsNotBody ==
    ASSUME NamesAreSequences, NEW n \in Name, NEW place \in Place
    PROVE  Append(n, place) # <<"body">>
<1>1. PICK S : n \in Seq(S)
  BY DEF NamesAreSequences
<1>2. <<"body">> \in Seq({"body"}) /\ Len(<<"body">>) = 1 /\ <<"body">>[1] = "body"
  OBVIOUS
<1>3. n \in Seq(S \cup {place})
  BY <1>1, SeqMonotonic
<1>4. /\ Len(n) \in Nat /\ Len(Append(n, place)) = Len(n) + 1
      /\ Append(n, place)[Len(n) + 1] = place
  BY <1>3, AppendProperties, LenProperties
<1>5. place # "body"
  BY DEF Place
<1> QED
  BY <1>2, <1>4, <1>5

\* Two parameters have one key, or a parameter and a property of the body, only
\* if the one looks like the other with its suffix.
LEMMA KeysOfOneClash ==
    ASSUME NamesAreSequences, NEW op \in Operation, WellFormed(op),
           NEW props, NEW p \in Merged(op)
    PROVE  LET k == Key(p, Merged(op), props) IN
           /\ k \in props => k = Append(p.name, p.in)
           /\ \A q \in Merged(op) : Key(q, Merged(op), props) = k /\ q # p
                => Clash(<<p.in, p.name>>, <<q.in, q.name>>)
<1> DEFINE all == Merged(op)
           long(q) == Append(q.name, q.in)
<1>1. \A q \in all : q.name \in Name /\ q.in \in Place
  BY ParametersAreTyped DEF Parameter
<1>2. \A q \in all : \/ Key(q, all, props) = long(q)
                     \/ /\ Key(q, all, props) = q.name /\ q.name \notin props
                        /\ \A o \in all : o # q => o.name # q.name
  BY DEF Key
<1>0. p \in all
  OBVIOUS
<1> HIDE DEF all
<1>3. Key(p, all, props) \in props => Key(p, all, props) = long(p)
  BY <1>0, <1>2
<1>4. ASSUME NEW q \in all, Key(q, all, props) = Key(p, all, props), q # p
      PROVE  p.name = long(q) \/ q.name = long(p)
  <2>1. ASSUME Key(p, all, props) = long(p), Key(q, all, props) = long(q) PROVE FALSE
    <3>1. PICK S : Name \subseteq Seq(S)
      BY DEF NamesAreSequences
    <3>2. p.name \in Seq(S) /\ q.name \in Seq(S)
      BY <1>0, <1>1, <3>1
    <3>3. Append(p.name, p.in) = Append(q.name, q.in)
      BY <1>4, <2>1
    <3>4. p.name = q.name /\ p.in = q.in
      BY <3>2, <3>3, SuffixInjective
    <3> QED
      BY <1>0, <1>4, <3>4 DEF WellFormed, all
  <2>2. ASSUME Key(p, all, props) = p.name, Key(q, all, props) = q.name,
               \A o \in all : o # q => o.name # q.name
        PROVE  FALSE
    BY <1>0, <1>4, <2>2
  <2> QED
    BY <1>0, <1>2, <1>4, <2>1, <2>2
<1>5. ASSUME NEW q \in all, Key(q, all, props) = Key(p, all, props), q # p
      PROVE  Clash(<<p.in, p.name>>, <<q.in, q.name>>)
  BY <1>4, <1>5 DEF Clash
<1> QED
  BY <1>3, <1>5 DEF all

\* Parameters and properties of the body both have their argument, unless the
\* key of a parameter is that of something else.
LEMMA ArgumentsAreOwn ==
    ASSUME NEW op \in Operation, NEW body, NEW owner \in Owners(op, body)
    PROVE  LET b == InputBinding(op, body, owner)
               all == Merged(op)
           IN  /\ \A p \in all :
                    LET k == Key(p, all, body.props) IN
                    /\ k \in DOMAIN b.args
                    /\ MustBeGiven(p) => k \in b.required
                    /\ \/ k \in body.props
                       \/ \E q \in all : q # p /\ Key(q, all, body.props) = k
                       \/ b.args[k].in = p.in /\ b.args[k].name = p.name
               /\ \A n \in body.props :
                    n \in DOMAIN b.args /\ b.args[n].in = "body" /\ b.args[n].name = n
               /\ b.whole = body.whole
<1> DEFINE b == InputBinding(op, body, owner)
           all == Merged(op)
           keyOf(p) == Key(p, all, body.props)
           keys == DOMAIN owner \cup body.props
           arg(k) == IF k \in body.props THEN [in |-> "body", name |-> k, open |-> FALSE]
                     ELSE [in |-> owner[k].in, name |-> owner[k].name, open |-> owner[k].open]
<1>1. /\ b.args = [k \in keys |-> arg(k)]
      /\ b.required = {keyOf(p) : p \in {q \in all : MustBeGiven(q)}} \cup body.required
      /\ b.whole = body.whole
  BY DEF InputBinding
<1>2. /\ \A p \in all : keyOf(p) \in DOMAIN owner
      /\ \A k \in DOMAIN owner : owner[k] \in all /\ keyOf(owner[k]) = k
  BY DEF Owners
<1>3. ASSUME NEW p \in all
      PROVE  /\ keyOf(p) \in DOMAIN b.args
             /\ MustBeGiven(p) => keyOf(p) \in b.required
             /\ \/ keyOf(p) \in body.props
                \/ \E q \in all : q # p /\ keyOf(q) = keyOf(p)
                \/ b.args[keyOf(p)].in = p.in /\ b.args[keyOf(p)].name = p.name
  <2>1. keyOf(p) \in keys /\ owner[keyOf(p)] \in all /\ keyOf(owner[keyOf(p)]) = keyOf(p)
    BY <1>2
  <2>2. owner[keyOf(p)] = p /\ keyOf(p) \notin body.props =>
            arg(keyOf(p)) = [in |-> p.in, name |-> p.name, open |-> p.open]
    OBVIOUS
  <2> HIDE DEF keyOf, arg, keys, b
  <2>3. keyOf(p) \in DOMAIN b.args /\ b.args[keyOf(p)] = arg(keyOf(p))
    BY <1>1, <2>1
  <2>4. MustBeGiven(p) => keyOf(p) \in b.required
    BY <1>1
  <2>5. owner[keyOf(p)] = p /\ keyOf(p) \notin body.props =>
            b.args[keyOf(p)].in = p.in /\ b.args[keyOf(p)].name = p.name
    BY <2>2, <2>3
  <2> QED
    BY <2>1, <2>3, <2>4, <2>5
<1>4. ASSUME NEW n \in body.props
      PROVE  n \in DOMAIN b.args /\ b.args[n].in = "body" /\ b.args[n].name = n
  <2>1. n \in keys /\ arg(n) = [in |-> "body", name |-> n, open |-> FALSE]
    OBVIOUS
  <2> HIDE DEF keyOf, arg, keys, b
  <2>2. b.args[n] = [in |-> "body", name |-> n, open |-> FALSE]
    BY <1>1, <2>1
  <2> QED
    BY <1>1, <2>1, <2>2
<1> QED
  BY <1>1, <1>3, <1>4

--------------------------------------------------------------------------------
(* The body: what composes a schema of the document, and what its normalized *)
(* form is walked over for, are the same.                                    *)

Origins == [q \in Pointer |-> Branches(doc.component[q], Flattening)]

\* The $refs of a schema, in the document and as names of definitions.
LEMMA BranchesCorrespond ==
    ASSUME Running, NEW o \in Schema, o.refs \subseteq Resolvable
    PROVE  /\ \A r \in Branches(o, Flattening) \cap Pointer :
                /\ r \in DOMAIN named /\ named[r] \in DOMAIN definitions
                /\ named[r] \in Branches(Normalized(o), Flattening)
           /\ \A n \in Branches(Normalized(o), Flattening) :
                n # Dangling => \E r \in Branches(o, Flattening) \cap Pointer :
                                    r \in DOMAIN named /\ named[r] = n
<1>1. ASSUME NEW r \in Branches(o, Flattening) \cap Pointer
      PROVE  /\ r \in DOMAIN named /\ named[r] \in DOMAIN definitions
             /\ named[r] \in Branches(Normalized(o), Flattening)
  <2>1. r \in o.refs /\ r # Dangling /\ r \in DOMAIN named /\ o.shape \in Flattening
    BY OpenApiAssumption DEF Branches, Resolvable
  <2>2. named[r] \in Normalized(o).refs /\ named[r] \in DOMAIN definitions
    BY <2>1, NormalizedSchema DEF Running, Defined
  <2> QED
    BY <2>1, <2>2, NormalizedSchema DEF Branches
<1>2. ASSUME NEW n \in Branches(Normalized(o), Flattening), n # Dangling
      PROVE  \E r \in Branches(o, Flattening) \cap Pointer : r \in DOMAIN named /\ named[r] = n
  <2>1. o.shape \in Flattening /\ n \in Normalized(o).refs
    BY NormalizedSchema DEF Branches
  <2>2. PICK r \in o.refs : n = IF r = Dangling THEN Dangling ELSE named[r]
    BY <2>1, NormalizedSchema
  <2>3. r \in DOMAIN named /\ r \in Pointer /\ n = named[r]
    BY <1>2, <2>2 DEF Resolvable, Running, Defined
  <2> QED
    BY <2>1, <2>3 DEF Branches
<1> QED
  BY <1>1, <1>2

\* The names that the walk over a normalized schema meets.
Walked(N) ==
    Closure(Branches(N, Flattening),
            [n \in DOMAIN definitions |-> Branches(definitions[n], Flattening)])

LEMMA WalkedIsClosed ==
    ASSUME NEW N
    PROVE  /\ Walked(N) \subseteq DOMAIN definitions
           /\ Branches(N, Flattening) \cap DOMAIN definitions \subseteq Walked(N)
           /\ \A n \in Walked(N) :
                Branches(definitions[n], Flattening) \cap DOMAIN definitions \subseteq Walked(N)
<1> DEFINE links == [n \in DOMAIN definitions |-> Branches(definitions[n], Flattening)]
           from == Branches(N, Flattening)
           walked == Closure(from, links)
<1>1. walked \subseteq DOMAIN links /\ from \cap DOMAIN links \subseteq walked
  BY ClosureWithin, ClosureStarts
<1>2. \A n \in walked : links[n] \cap DOMAIN links \subseteq walked
  BY ClosureCloses
<1>3. DOMAIN links = DOMAIN definitions /\ walked = Walked(N)
  BY DEF Walked
<1>4. \A n \in DOMAIN definitions : links[n] = Branches(definitions[n], Flattening)
  OBVIOUS
<1> HIDE DEF walked, links
<1> QED
  BY <1>1, <1>2, <1>3, <1>4

\* The parts of a normalized schema stand for all that composes the original.
LEMMA CompositionIsWalked ==
    ASSUME Running, Hoisting, Len(stack) < 2, NEW s \in Schema, s.refs \subseteq Resolvable,
           NEW part \in Composed(s)
    PROVE  part \in Schema /\ Normalized(part) \in Parts(Normalized(s), Flattening)
<1> DEFINE N == Normalized(s)
           T == {p \in DOMAIN named : named[p] \in Walked(N)}
<1>1. /\ Branches(N, Flattening) \cap DOMAIN definitions \subseteq Walked(N)
      /\ \A n \in Walked(N) :
            Branches(definitions[n], Flattening) \cap DOMAIN definitions \subseteq Walked(N)
  BY WalkedIsClosed
<1>2. Branches(s, Flattening) \cap DOMAIN Origins \subseteq T
  BY <1>1, BranchesCorrespond DEF Origins
<1>3. \A p \in T : Origins[p] \cap DOMAIN Origins \subseteq T
  <2> SUFFICES ASSUME NEW p \in T
               PROVE  Branches(doc.component[p], Flattening) \cap Pointer \subseteq T
    BY DEF Running, Defined, Origins
  <2>1. Settled(p) /\ p \in Pointer /\ doc.component[p] \in Schema
    BY AllSettled, DocumentIsTyped DEF Running, Defined, Shape
  <2>2. /\ doc.component[p].refs \subseteq Resolvable
        /\ definitions[named[p]] = Normalized(doc.component[p])
    BY <2>1 DEF Settled
  <2>3. Branches(Normalized(doc.component[p]), Flattening) \cap DOMAIN definitions
          \subseteq Walked(N)
    BY <1>1, <2>2
  <2> HIDE DEF N
  <2> QED
    BY <2>1, <2>2, <2>3, BranchesCorrespond
<1>4. T \subseteq DOMAIN Origins
  BY DEF Running, Defined, Origins
<1> HIDE DEF T
<1>5. Closure(Branches(s, Flattening), Origins) \subseteq T
  BY <1>2, <1>3, <1>4, ClosureLeast
<1>6. CASE part = s
  BY <1>6 DEF Parts
<1>7. CASE part # s
  <2>1. PICK p \in T : part = doc.component[p]
    BY <1>5, <1>7 DEF Composed, Origins
  <2>2. Settled(p) /\ p \in Pointer /\ doc.component[p] \in Schema
    BY <1>4, AllSettled, DocumentIsTyped DEF Running, Defined, Shape, T
  <2>3. definitions[named[p]] = Normalized(part) /\ named[p] \in Walked(N)
    BY <2>1, <2>2 DEF Settled, T
  <2>4. definitions[named[p]] \in Parts(N, Flattening)
    BY <2>3 DEF Parts, Walked
  <2> QED
    BY <2>1, <2>2, <2>3, <2>4
<1> QED
  BY <1>6, <1>7

\* And nothing else is walked over.
LEMMA PartsAreComposed ==
    ASSUME Running, Hoisting, Len(stack) < 2, NEW s \in Schema, s.refs \subseteq Resolvable,
           Walkable(Normalized(s), Flattening), NEW part \in Parts(Normalized(s), Flattening)
    PROVE  \E o \in Composed(s) : o \in Schema /\ part = Normalized(o)
<1> DEFINE N == Normalized(s)
           composed == Closure(Branches(s, Flattening), Origins)
           T == {n \in Walked(N) : \E p \in composed : p \in DOMAIN named /\ named[p] = n}
<1>1. /\ Walked(N) \subseteq DOMAIN definitions
      /\ Branches(N, Flattening) \cap DOMAIN definitions \subseteq Walked(N)
      /\ \A n \in Walked(N) :
            Branches(definitions[n], Flattening) \cap DOMAIN definitions \subseteq Walked(N)
  BY WalkedIsClosed
<1>2. /\ composed \subseteq Pointer
      /\ Branches(s, Flattening) \cap Pointer \subseteq composed
      /\ \A p \in composed : Branches(doc.component[p], Flattening) \cap Pointer \subseteq composed
  <2>1. DOMAIN Origins = Pointer
    BY DEF Origins
  <2>2. composed \subseteq DOMAIN Origins /\ Branches(s, Flattening) \cap DOMAIN Origins \subseteq composed
    BY ClosureWithin, ClosureStarts
  <2>3. \A p \in composed : Origins[p] \cap DOMAIN Origins \subseteq composed
    BY ClosureCloses
  <2>4. \A p \in Pointer : Origins[p] = Branches(doc.component[p], Flattening)
    BY DEF Origins
  <2> HIDE DEF composed
  <2> QED
    BY <2>1, <2>2, <2>3, <2>4
<1>3. /\ Dangling \notin Branches(N, Flattening)
      /\ \A n \in Walked(N) : Dangling \notin Branches(definitions[n], Flattening)
  BY DEF Walkable, Parts, Walked
<1> HIDE DEF composed, N
<1>4. Branches(N, Flattening) \cap DOMAIN definitions \subseteq T
  <2> SUFFICES ASSUME NEW n \in Branches(N, Flattening) \cap DOMAIN definitions PROVE n \in T
    OBVIOUS
  <2>1. PICK r \in Branches(s, Flattening) \cap Pointer : r \in DOMAIN named /\ named[r] = n
    BY <1>3, BranchesCorrespond DEF N
  <2> QED
    BY <1>1, <1>2, <2>1
<1>5. ASSUME NEW n \in T PROVE Branches(definitions[n], Flattening) \cap DOMAIN definitions \subseteq T
  <2> SUFFICES ASSUME NEW m \in Branches(definitions[n], Flattening) \cap DOMAIN definitions
               PROVE  m \in T
    OBVIOUS
  <2>1. PICK p \in composed : p \in DOMAIN named /\ named[p] = n
    OBVIOUS
  <2>2. Settled(p) /\ doc.component[p] \in Schema
    BY <1>2, <2>1, AllSettled, DocumentIsTyped DEF Running, Shape
  <2>3. /\ doc.component[p].refs \subseteq Resolvable
        /\ definitions[n] = Normalized(doc.component[p])
    BY <2>1, <2>2 DEF Settled
  <2>4. m # Dangling /\ m \in Walked(N)
    BY <1>1, <1>3
  <2>5. m \in Branches(Normalized(doc.component[p]), Flattening)
    BY <2>3
  <2>6. PICK r \in Branches(doc.component[p], Flattening) \cap Pointer :
            r \in DOMAIN named /\ named[r] = m
    BY <2>2, <2>3, <2>4, <2>5, BranchesCorrespond
  <2> QED
    BY <1>2, <2>4, <2>6
<1>6. T \subseteq DOMAIN definitions
  BY <1>1
<1> HIDE DEF T
<1>7. Walked(N) \subseteq T
  <2> DEFINE links == [n \in DOMAIN definitions |-> Branches(definitions[n], Flattening)]
  <2>1. DOMAIN links = DOMAIN definitions /\ Walked(N) = Closure(Branches(N, Flattening), links)
    BY DEF Walked
  <2>2. \A n \in T : links[n] \cap DOMAIN links \subseteq T
    BY <1>5, <1>6
  <2> HIDE DEF links
  <2>3. Closure(Branches(N, Flattening), links) \subseteq T
    BY <1>4, <1>6, <2>1, <2>2, ClosureLeast
  <2> QED
    BY <2>1, <2>3
<1>8. CASE part = N
  BY <1>8 DEF Composed, N
<1>9. CASE part # N
  <2>1. PICK n \in Walked(N) : part = definitions[n]
    BY <1>9 DEF Parts, Walked, N
  <2>2. PICK p \in composed : p \in DOMAIN named /\ named[p] = n
    BY <1>7, <2>1 DEF T
  <2>3. Settled(p) /\ doc.component[p] \in Schema
    BY <1>2, <2>2, AllSettled, DocumentIsTyped DEF Running, Shape
  <2>4. part = Normalized(doc.component[p])
    BY <2>1, <2>2, <2>3 DEF Settled
  <2>5. doc.component[p] \in Composed(s)
    BY DEF Composed, composed, Origins
  <2> QED
    BY <2>3, <2>4, <2>5
<1> QED
  BY <1>8, <1>9

\* What flattenObject finds in a body is what the document gives it.
LEMMA BodyIsFlat ==
    ASSUME Running, Hoisting, Len(stack) < 2, NEW op \in Operation,
           InputRefs(op) \subseteq Resolvable, ~DescribeBody(op).whole
    PROVE  BodyInputs(op, {"anyOf", "object"}) = {<<"body", n>> : n \in DescribeBody(op).props}
<1> DEFINE schema == BodyOf(op).schema
           N == Normalized(schema)
           stated == {t \in Composed(schema) : t.shape \in {"anyOf", "object"}}
<1>1. CASE ~Described(op)
  <2>1. BodyInputs(op, {"anyOf", "object"}) = {}
    BY <1>1 DEF BodyInputs, Described
  <2>2. DescribeBody(op).props = {}
    BY <1>1, BodyIsDescribed
  <2> QED
    BY <2>1, <2>2
<1>2. CASE Described(op)
  <2>1. schema \in Schema /\ schema.refs \subseteq Resolvable
    BY <1>2, DescribedIsTyped
  <2>2. /\ Walkable(N, Flattening)
        /\ DescribeBody(op).props = UNION {q.props : q \in Objects(N)}
    BY <1>2, BodyIsDescribed
  <2>3. BodyInputs(op, {"anyOf", "object"}) = {<<"body", n>> : n \in UNION {t.props : t \in stated}}
    BY <1>2 DEF BodyInputs, Described
  <2>4. ASSUME NEW t \in stated, NEW n \in t.props
        PROVE  \E q \in Objects(N) : n \in q.props
    <3>1. t \in Schema /\ Normalized(t) \in Parts(N, Flattening)
      BY <2>1, CompositionIsWalked
    <3>2. Normalized(t).shape = t.shape /\ Normalized(t).props = t.props
      BY <3>1, NormalizedSchema
    <3> QED
      BY <2>4, <3>1, <3>2 DEF Objects, HasProperties
  <2>5. ASSUME NEW q \in Objects(N), NEW n \in q.props
        PROVE  \E t \in stated : n \in t.props
    <3>1. q \in Parts(N, Flattening) /\ HasProperties(q)
      BY DEF Objects
    <3>2. PICK t \in Composed(schema) : t \in Schema /\ q = Normalized(t)
      BY <2>1, <2>2, <3>1, PartsAreComposed
    <3>3. q.shape = t.shape /\ q.props = t.props
      BY <3>2, NormalizedSchema
    <3> QED
      BY <2>5, <3>1, <3>2, <3>3 DEF HasProperties
  <2> HIDE DEF stated, N
  <2>6. UNION {t.props : t \in stated} = UNION {q.props : q \in Objects(N)}
    BY <2>4, <2>5
  <2> QED
    BY <2>2, <2>3, <2>6
<1> QED
  BY <1>1, <1>2

--------------------------------------------------------------------------------
(* What a binding has arguments for *)

\* Every input of the operation has an argument in this binding.
Covered(b, op) ==
    /\ b.whole \/ BodyInputs(op, {"anyOf", "object"}) \subseteq Bound(b)
    /\ \A input \in ParameterInputs(op) : input \in Bound(b) \/ Clashes(op, input)

\* Every placeholder of the path has a required argument in this binding.
Given(b, op) ==
    \A n \in op.template :
        \/ Clashes(op, <<"path", n>>)
        \/ \E k \in b.required :
            k \in DOMAIN b.args /\ b.args[k].in = "path" /\ b.args[k].name = n

\* A parameter has its argument, or its name clashes with another input's.
LEMMA ParameterIsBound ==
    ASSUME NamesAreSequences, Running, Hoisting, Len(stack) < 2,
           NEW op \in Operation, WellFormed(op), InputRefs(op) \subseteq Resolvable,
           NEW owner \in Owners(op, DescribeBody(op)), NEW p \in Merged(op)
    PROVE  LET b == InputBinding(op, DescribeBody(op), owner)
               k == Key(p, Merged(op), DescribeBody(op).props)
           IN  /\ k \in DOMAIN b.args /\ (MustBeGiven(p) => k \in b.required)
               /\ \/ Clashes(op, <<p.in, p.name>>)
                  \/ b.args[k].in = p.in /\ b.args[k].name = p.name
<1>1. PICK body : body = DescribeBody(op)
  OBVIOUS
<1>2. PICK b : b = InputBinding(op, body, owner)
  OBVIOUS
<1>3. PICK k : k = Key(p, Merged(op), body.props)
  OBVIOUS
<1>4. /\ k \in DOMAIN b.args /\ (MustBeGiven(p) => k \in b.required)
      /\ \/ k \in body.props
         \/ \E q \in Merged(op) : q # p /\ Key(q, Merged(op), body.props) = k
         \/ b.args[k].in = p.in /\ b.args[k].name = p.name
  BY <1>1, <1>2, <1>3, ArgumentsAreOwn
<1>5. ASSUME k \in body.props PROVE Clashes(op, <<p.in, p.name>>)
  <2>1. k = Append(p.name, p.in)
    BY <1>3, <1>5, KeysOfOneClash
  <2>2. p.name \in Name /\ p.in \in Place
    BY ParametersAreTyped DEF Parameter
  <2>3. k # <<"body">>
    BY <2>1, <2>2, SuffixedIsNotBody
  <2>4. ~body.whole
    BY <1>1, <1>5, <2>3, BodyIsDescribed
  <2>5. <<"body", k>> \in BodyInputs(op, {"anyOf", "object"})
    BY <1>1, <1>5, <2>4, BodyIsFlat
  <2>6. Clash(<<p.in, p.name>>, <<"body", k>>)
    BY <2>1 DEF Clash
  <2> QED
    BY <2>5, <2>6 DEF Clashes
<1>6. ASSUME NEW q \in Merged(op), q # p, Key(q, Merged(op), body.props) = k
      PROVE  Clashes(op, <<p.in, p.name>>)
  <2>1. Clash(<<p.in, p.name>>, <<q.in, q.name>>)
    BY <1>3, <1>6, KeysOfOneClash
  <2>2. <<q.in, q.name>> \in ParameterInputs(op)
    BY DEF ParameterInputs
  <2> QED
    BY <2>1, <2>2 DEF Clashes
<1> QED
  BY <1>1, <1>2, <1>3, <1>4, <1>5, <1>6

LEMMA InputIsGiven ==
    ASSUME NamesAreSequences, Running, Hoisting, Len(stack) < 2,
           NEW op \in Operation, WellFormed(op), InputRefs(op) \subseteq Resolvable,
           NEW owner \in Owners(op, DescribeBody(op))
    PROVE  Given(InputBinding(op, DescribeBody(op), owner), op)
<1>1. PICK b : b = InputBinding(op, DescribeBody(op), owner)
  OBVIOUS
<1>2. ASSUME NEW n \in op.template
      PROVE  \/ Clashes(op, <<"path", n>>)
             \/ \E k \in b.required :
                    k \in DOMAIN b.args /\ b.args[k].in = "path" /\ b.args[k].name = n
  <2>1. PICK p \in Merged(op) : p.in = "path" /\ p.name = n
    BY DEF WellFormed
  <2>2. MustBeGiven(p)
    BY <2>1 DEF MustBeGiven
  <2> QED
    BY <1>1, <2>1, <2>2, ParameterIsBound
<1> QED
  BY <1>1, <1>2 DEF Given

LEMMA InputIsCovered ==
    ASSUME NamesAreSequences, Running, Hoisting, Len(stack) < 2,
           NEW op \in Operation, WellFormed(op), InputRefs(op) \subseteq Resolvable,
           NEW owner \in Owners(op, DescribeBody(op))
    PROVE  Covered(InputBinding(op, DescribeBody(op), owner), op)
<1>1. PICK body : body = DescribeBody(op)
  OBVIOUS
<1>2. PICK b : b = InputBinding(op, body, owner)
  OBVIOUS
<1>3. /\ \A n \in body.props : n \in DOMAIN b.args /\ b.args[n].in = "body" /\ b.args[n].name = n
      /\ b.whole = body.whole
  BY <1>1, <1>2, ArgumentsAreOwn
<1>4. \A k \in DOMAIN b.args : <<b.args[k].in, b.args[k].name>> \in Bound(b)
  BY DEF Bound
<1>5. ASSUME ~b.whole PROVE BodyInputs(op, {"anyOf", "object"}) \subseteq Bound(b)
  <2>1. BodyInputs(op, {"anyOf", "object"}) = {<<"body", n>> : n \in body.props}
    BY <1>1, <1>3, <1>5, BodyIsFlat
  <2>2. \A n \in body.props : <<"body", n>> \in Bound(b)
    BY <1>3, <1>4
  <2> QED
    BY <2>1, <2>2
<1>6. ASSUME NEW input \in ParameterInputs(op)
      PROVE  input \in Bound(b) \/ Clashes(op, input)
  <2>1. PICK p \in Merged(op) : input = <<p.in, p.name>>
    BY DEF ParameterInputs
  <2>2. PICK k : /\ k \in DOMAIN b.args
                 /\ \/ Clashes(op, <<p.in, p.name>>)
                    \/ b.args[k].in = p.in /\ b.args[k].name = p.name
    BY <1>1, <1>2, ParameterIsBound
  <2>3. CASE b.args[k].in = p.in /\ b.args[k].name = p.name
    BY <1>4, <2>1, <2>2, <2>3
  <2> QED
    BY <2>1, <2>2, <2>3
<1> QED
  BY <1>1, <1>2, <1>5, <1>6 DEF Covered

Filled(b, op) == Given(b, op) /\ Covered(b, op)

Bindings ==
    /\ phase = "output" => Filled(binding, Route)
    /\ \A i \in 1 .. Len(tools) : Filled(tools[i], selected[i])

LEMMA FilledStays ==
    ASSUME UNCHANGED doc, NEW b, NEW op, Filled(b, op)
    PROVE  Filled(b, op)'
BY DEF Filled, Given, Covered, Bound, ParameterInputs, BodyInputs, Composed, Clashes

LEMMA FilledByParts ==
    ASSUME NEW b, NEW tool, NEW op, Filled(b, op), tool.args = b.args,
           tool.required = b.required, tool.whole = b.whole
    PROVE  Filled(tool, op)
BY DEF Filled, Given, Covered, Bound

LEMMA BindingsKeptByBinding ==
    ASSUME Running, Bindings, UNCHANGED <<doc, selected>>, NEW b, NEW output,
           AddTool(b, output), Filled(b, Route), phase' = "bind"
    PROVE  Bindings'
<1>1. PICK tool :
          /\ tool.args = b.args /\ tool.required = b.required /\ tool.whole = b.whole
          /\ Len(tools) \in Nat /\ Len(tools') = Len(tools) + 1
          /\ \A i \in 1 .. Len(tools) : tools'[i] = tools[i]
          /\ tools'[Len(tools) + 1] = tool
  BY ToolIsAdded
<1>2. ASSUME NEW i \in 1 .. Len(tools') PROVE Filled(tools[i], selected[i])'
  <2>1. PICK t, op : t = tools'[i] /\ op = selected'[i]
    OBVIOUS
  <2>2. i \in 1 .. Len(tools) \/ i = Len(tools) + 1
    BY <1>1
  <2>3. Filled(t, op)
    <3>1. CASE i \in 1 .. Len(tools)
      BY <1>1, <2>1, <3>1 DEF Bindings
    <3>2. CASE i = Len(tools) + 1
      <4>1. op = Route /\ t = tool
        BY <1>1, <2>1, <3>2 DEF Route
      <4> QED
        BY <1>1, <4>1, FilledByParts
    <3> QED
      BY <2>2, <3>1, <3>2
  <2>4. Filled(t, op)'
    BY <2>3, FilledStays
  <2> QED
    BY <2>1, <2>4 DEF Filled, Given, Covered, Bound, ParameterInputs, BodyInputs, Composed, Clashes
<1> QED
  BY <1>2 DEF Bindings

LEMMA BindingsNext ==
    ASSUME NamesAreSequences
    PROVE  Running /\ Hoisting /\ Bindings /\ [Next]_vars => Bindings'
<1> SUFFICES ASSUME Running, Hoisting, Bindings, [Next]_vars PROVE Bindings'
  OBVIOUS
<1>1. ASSUME UNCHANGED <<doc, selected, tools>>,
             phase' = "output" => Filled(binding, Route)'
      PROVE  Bindings'
  <2>1. ASSUME NEW i \in 1 .. Len(tools) PROVE Filled(tools[i], selected[i])'
    <3>1. PICK t, op : t = tools[i] /\ op = selected[i] /\ t = tools'[i] /\ op = selected'[i]
      BY <1>1
    <3>2. Filled(t, op)'
      BY <1>1, <3>1, FilledStays DEF Bindings
    <3> QED
      BY <3>1, <3>2 DEF Filled, Given, Covered, Bound, ParameterInputs, BodyInputs, Composed, Clashes
  <2> QED
    BY <1>1, <2>1 DEF Bindings
<1>2. CASE UNCHANGED <<doc, selected, tools, phase, binding>>
  <2>1. ASSUME phase = "output" PROVE Filled(binding, Route)'
    <3>1. PICK b, op : b = binding /\ op = Route /\ b = binding' /\ op = Route'
      BY <1>2 DEF Route
    <3>2. Filled(b, op)'
      BY <1>2, <2>1, <3>1, FilledStays DEF Bindings
    <3> QED
      BY <3>1, <3>2 DEF Filled, Given, Covered, Bound, ParameterInputs, BodyInputs, Composed, Clashes
  <2> QED
    BY <1>1, <1>2, <2>1
<1>3. CASE Select
  <2>1. Len(tools) = 0 /\ tools' = tools /\ phase' # "output"
    BY <1>3 DEF Select, Running, Progress
  <2> QED
    BY <2>1 DEF Bindings
<1>4. CASE NameRoute \/ BeginRoute
  BY <1>1, <1>4 DEF NameRoute, BeginRoute
<1>5. CASE BindInput
  <2>1. /\ stack # <<>> /\ Top.of = None /\ Top.todo = {} /\ phase = "input"
        /\ UNCHANGED <<doc, selected>>
    BY <1>5 DEF BindInput
  <2>2. /\ Len(stack) < 2 /\ InputRefs(Route) \subseteq Resolvable
        /\ Route \in Operation /\ WellFormed(Route)
    BY <2>1, RouteIsResolved, RouteIsTyped
  <2>4. PICK b : /\ Filled(b, Route)
                 /\ \/ binding' = b /\ UNCHANGED tools
                    \/ AddTool(b, None) /\ phase' = "bind"
    <3>1. PICK owner \in Owners(Route, DescribeBody(Route)) :
            LET b == InputBinding(Route, DescribeBody(Route), owner) IN
            \/ binding' = b /\ UNCHANGED tools
            \/ AddTool(b, None) /\ phase' = "bind"
      BY <1>5 DEF BindInput
    <3>2. PICK b : b = InputBinding(Route, DescribeBody(Route), owner)
      OBVIOUS
    <3>3. Filled(b, Route)
      BY <2>2, <3>2, InputIsGiven, InputIsCovered DEF Filled
    <3> QED
      BY <3>1, <3>2, <3>3
  <2>6. ASSUME binding' = b, UNCHANGED tools PROVE Bindings'
    <3>1. PICK op : op = Route /\ op = Route'
      BY <2>1, <2>6 DEF Route
    <3>2. Filled(b, op)'
      BY <2>1, <2>4, <3>1, FilledStays
    <3>3. Filled(binding, Route)'
      BY <2>6, <3>1, <3>2 DEF Filled, Given, Covered, Bound, ParameterInputs, BodyInputs, Composed, Clashes
    <3> QED
      BY <1>1, <2>1, <2>6, <3>3
  <2> QED
    BY <2>1, <2>4, <2>6, BindingsKeptByBinding
<1>6. CASE BindOutput
  <2>1. /\ AddTool(binding, OutputOf(Route)) /\ phase' = "bind" /\ phase = "output"
        /\ UNCHANGED <<doc, selected>>
    BY <1>6 DEF BindOutput
  <2>2. PICK b, output : b = binding /\ output = OutputOf(Route)
    OBVIOUS
  <2> QED
    BY <2>1, <2>2, BindingsKeptByBinding DEF Bindings
<1>7. CASE Build
  BY <1>2, <1>3, <1>4, <1>5, <1>6, <1>7 DEF Build, SkipRef, Hoist, Hoisted
<1> QED
  BY <1>2, <1>7 DEF Next, Call, CallFails, Respond, building, vars

LEMMA BindingsHolds ==
    ASSUME NamesAreSequences
    PROVE  Spec => []Bindings
<1>1. Init => Bindings
  BY EmptySequence DEF Init, Bindings
<1> QED
  BY <1>1, RunningHolds, HoistingHolds, BindingsNext, PTL DEF Spec

\* Flattening into one object loses nothing but to names that look suffixed: a
\* property of the body always has its argument, and a parameter has one unless
\* its name clashes with another input's, although names collide and bodies are
\* composed of components in cycles (buildToolBinding, flattenObject).
THEOREM InputsLostOnlyByClashHolds ==
    ASSUME NamesAreSequences
    PROVE  Spec => []InputsLostOnlyByClash
<1>1. Bindings => InputsLostOnlyByClash
  BY DEF Bindings, Filled, Covered, InputsLostOnlyByClash
<1> QED
  BY <1>1, BindingsHolds, PTL

\* The request in progress fills the path of the tool it was made for.
Requested ==
    request # None =>
        \E i \in 1 .. Len(tools) :
            /\ request.tool = tools[i].name
            /\ \A n \in selected[i].template :
                n \in request.path \/ Clashes(selected[i], <<"path", n>>)

LEMMA CallFillsThePath ==
    ASSUME Bindings, NEW i \in 1 .. Len(tools), NEW keys \in SUBSET DOMAIN tools[i].args,
           NEW chosen, Call(tools[i], keys, chosen)
    PROVE  Requested'
<1>1. PICK t, op : t = tools[i] /\ op = selected[i]
  OBVIOUS
<1>2. /\ request' = HttpRequest(t, keys, chosen) /\ t.required \subseteq keys
      /\ UNCHANGED <<doc, tools, selected>>
  BY <1>1 DEF Call, building
<1>3. request'.tool = t.name /\ request'.path = InPlace("path", t.args, keys)
  BY <1>2 DEF HttpRequest, BuildPath
<1>4. ASSUME NEW n \in op.template, ~Clashes(op, <<"path", n>>)
      PROVE  n \in InPlace("path", t.args, keys)
  <2>1. PICK k \in t.required : t.args[k].in = "path" /\ t.args[k].name = n
    BY <1>1, <1>4 DEF Bindings, Filled, Given
  <2>2. k \in {j \in keys : t.args[j].in = "path"}
    BY <1>2, <2>1
  <2> QED
    BY <2>1, <2>2 DEF InPlace
<1>5. ASSUME NEW n \in selected'[i].template
      PROVE  n \in request'.path \/ Clashes(selected[i], <<"path", n>>)'
  <2>1. n \in op.template
    BY <1>1, <1>2
  <2>2. Clashes(op, <<"path", n>>) => Clashes(op, <<"path", n>>)'
    BY <1>2 DEF Clashes, ParameterInputs, BodyInputs, Composed
  <2>3. op = selected'[i]
    BY <1>1, <1>2
  <2>4. Clashes(op, <<"path", n>>) => Clashes(selected[i], <<"path", n>>)'
    BY <2>2, <2>3 DEF Clashes, ParameterInputs, BodyInputs, Composed
  <2> QED
    BY <1>3, <1>4, <2>1, <2>4
<1> QED
  BY <1>1, <1>2, <1>3, <1>5 DEF Requested

LEMMA RequestedNext == Running /\ Bindings /\ Requested /\ [Next]_vars => Requested'
<1> SUFFICES ASSUME Running, Bindings, Requested, [Next]_vars PROVE Requested'
  OBVIOUS
<1>1. CASE UNCHANGED <<doc, request, tools, selected>>
  BY <1>1 DEF Requested, Clashes, ParameterInputs, BodyInputs, Composed
<1>2. CASE Select
  <2>1. Len(tools) = 0 /\ UNCHANGED <<request, tools>>
    BY <1>2 DEF Select, Running, Progress
  <2> QED
    BY <2>1 DEF Requested
<1>3. CASE BindInput \/ BindOutput
  <2>1. UNCHANGED <<doc, request, selected>>
    BY <1>3 DEF BindInput, BindOutput
  <2>2. UNCHANGED tools \/ \E b, output : AddTool(b, output)
    BY <1>3 DEF BindInput, BindOutput
  <2>3. ASSUME NEW b, NEW output, AddTool(b, output) PROVE Requested'
    <3>1. /\ Len(tools) \in Nat /\ Len(tools') = Len(tools) + 1
          /\ \A i \in 1 .. Len(tools) : tools'[i] = tools[i]
      BY <2>3, ToolIsAdded
    <3>2. \A i \in 1 .. Len(tools) : i \in 1 .. Len(tools')
      BY <3>1
    <3> QED
      BY <2>1, <3>1, <3>2 DEF Requested, Clashes, ParameterInputs, BodyInputs, Composed
  <2> QED
    BY <1>1, <2>1, <2>2, <2>3
<1>4. CASE Build
  BY <1>1, <1>2, <1>3, <1>4 DEF Build, NameRoute, BeginRoute, SkipRef, Hoist, Hoisted
<1>5. ASSUME NEW tool, CallFails(tool) \/ \E reply : Respond(tool, reply) PROVE Requested'
  BY <1>5 DEF CallFails, Respond, Requested
<1> QED
  BY <1>1, <1>4, <1>5, CallFillsThePath DEF Next, building, vars

\* A call that the input schema accepts fills every placeholder of the path it
\* requests, but that of a parameter whose name clashes with another input's
\* (buildToolBinding, buildPath).
THEOREM UrlCompleteHolds ==
    ASSUME NamesAreSequences
    PROVE  Spec => []UrlComplete
<1>1. Init => Requested
  BY DEF Init, Requested
<1>2. Spec => []Requested
  BY <1>1, RunningHolds, BindingsHolds, RequestedNext, PTL DEF Spec
<1>3. Requested /\ ToolNamesUnique => UrlComplete
  BY DEF Requested, ToolNamesUnique, UrlComplete
<1> QED
  BY <1>2, <1>3, ToolNamesUniqueHolds, PTL

\* The rewriting recursion is never deeper than there are components, since no
\* component is hoisted while it is being hoisted: cycles in a document end
\* (hoist), and MaxDepth is no restriction once it exceeds their number.
RecursionBounded == Len(stack) <= Cardinality(Pointer) + 1

\* Hoisting a component again and again never runs past the bound: a reference
\* met while its component is being hoisted only yields the name (hoist).
THEOREM RecursionIsBounded ==
    ASSUME NamesAreSequences, IsFiniteSet(Pointer)
    PROVE  Spec => []RecursionBounded
<1>1. Running /\ Hoisting => RecursionBounded
  <2> SUFFICES ASSUME Running, Hoisting PROVE RecursionBounded
    OBVIOUS
  <2>1. PICK n \in Nat : n = Len(stack)
    BY LenProperties DEF Running, Stacked
  <2>2. Cardinality(Pointer) \in Nat
    BY FS_CardinalityType
  <2> DEFINE of == [i \in 2 .. n |-> stack[i].of]
  <2>3. of \in Injection(2 .. n, Pointer)
    <3>1. of \in [2 .. n -> Pointer]
      BY <2>1 DEF Hoisting, Frames, Running, Defined
    <3>2. \A i, j \in 2 .. n : of[i] = of[j] => i = j
      BY <2>1 DEF Hoisting, Frames
    <3> QED
      BY <3>1, <3>2 DEF Injection, IsInjective
  <2> HIDE DEF of
  <2>4. Cardinality(2 .. n) <= Cardinality(Pointer)
    BY <2>3, FS_Injection
  <2>5. n >= 2 => Cardinality(2 .. n) = n - 1
    <3>1. n \in Int /\ 2 \in Int
      BY <2>1
    <3> QED
      BY <3>1, FS_Interval
  <2> QED
    BY <2>1, <2>2, <2>4, <2>5 DEF RecursionBounded
<1> QED
  BY <1>1, RunningHolds, HoistingHolds, PTL
================================================================================
