------------------------- MODULE IngestPipelineProofs -------------------------
(* No message of the ingestion pipeline is lost silently, for any deployment,  *)
(* runs, items, errors and restarts.  A handler is a list of effects; that it  *)
(* has them in a legal order, with everything required before the commit, is   *)
(* shown of each by putting it together from its parts.  The invariant says of *)
(* each consumer that what it has left to do is the rest of such a handler,    *)
(* and of each message it has gone past that it is done, or explained.         *)
EXTENDS IngestPipeline, SequenceLemmas

----------------------------------------------------------------------------
(* What a handler may do at each point. *)

(* The messages of each topic. *)
CloneOrders == {Envelope(r, NoItem, NoBlob) : r \in RunIds}
FileOrders  == {Envelope(r, NoItem, FileBlob(r)) : r \in RunIds}
RunOrders   == {Envelope(r, NoItem, CloneBlob(r)) : r \in RunIds}
ItemOrders  == {Envelope(r, i, BodyBlob(i)) : r \in RunIds, i \in Items}
\* Of relations, which may go from any item to any.
RelationOrders ==
    {[run |-> r, item |-> i, to |-> j, blob |-> NoBlob, attempt |-> 0] :
        r \in RunIds, i \in Items, j \in Items}
\* What is published on the topic t.
Orders(t) ==
    CASE t \in {"clone", "expanded"} -> CloneOrders
      [] t = "source" -> FileOrders
      [] t \in {"expand", "parse", "typecheck"} -> RunOrders
      [] t \in {"parsed", "typed", "embed"} -> ItemOrders
      [] OTHER -> RelationOrders

Published1(t, x) == [do |-> "publish", on |-> t, what |-> x, must |-> TRUE]
Put1(b)          == [do |-> "put", on |-> "blobs", what |-> b, must |-> TRUE]
Written1(t, x)   == [do |-> "write", on |-> t, what |-> x, must |-> TRUE]

(* Handed, of the effects in A instead of what is in the topics and tables. *)
ReportedStages == {"clone", "expand", "parse", "typecheck", "extract", "embed", "project_qdrant",
                   "project_pg", "project_neo4j"}
HandsOver(A, r, stage) ==
    /\ stage \in ReportedStages
    /\ stage = "clone" => /\ Published1("source", Envelope(r, NoItem, FileBlob(r))) \in A
                          /\ Published1("expand", Envelope(r, NoItem, CloneBlob(r))) \in A
    /\ stage = "expand" => Published1("parse", Envelope(r, NoItem, CloneBlob(r))) \in A
    /\ stage = "parse" => /\ Published1("typecheck", Envelope(r, NoItem, CloneBlob(r))) \in A
                          /\ \A i \in Items : Published1("parsed", Envelope(r, i, BodyBlob(i))) \in A
    /\ stage = "typecheck" => \A i \in Items : Published1("typed", Envelope(r, i, BodyBlob(i))) \in A
    /\ stage = "extract" => \E i \in Items : Published1("embed", Envelope(r, i, BodyBlob(i))) \in A
    /\ stage \in {"embed", "project_qdrant"} => \E x : Written1("vectors", x) \in A
    /\ stage = "project_pg" => \E t \in {"code_files", "code_symbols", "code_relations"} :
                                  \E x : Written1(t, x) \in A
    /\ stage = "project_neo4j" => \E x : Written1("edges", x) \in A

(* When the effects in A are had, the handler of m, whose required effects  *)
(* are in R, may have the effect e: a blob before a message that refers to  *)
(* it, the work before the report that it is done, the ends before the      *)
(* edge, everything required before the commit.                             *)
May(m, R, A, e) ==
    /\ e.do \in {"publish", "report", "put", "get", "need", "write", "commit"}
    /\ e.do = "publish" =>
         /\ e.on \in Topics /\ e.what \in Orders(e.on)
         /\ e.what.blob = NoBlob \/ e.what.blob = m.blob \/ Put1(e.what.blob) \in A
    /\ e.do = "report" /\ e.what.st = "done" => HandsOver(A, e.what.run, e.what.stage)
    /\ e.do = "write" /\ e.on = "edges" =>
         \E a, b : Written1("nodes", a) \in A /\ Written1("nodes", b) \in A
                   /\ a[2] = e.what[1] /\ b[2] = e.what[2]
    /\ e.do = "write" => e.on \in Tables
    /\ e.do = "commit" => R \subseteq A

\* A sequence, and what it has before its k-th element.
IsList(s) == s \in Seq(Range(s))
Before(s, k) == {s[j] : j \in 1..(k - 1)}
\* Each effect of s is one the handler may have once it had A and those before.
Legal(m, R, A, s) ==
    /\ IsList(s)
    /\ \A k \in 1..Len(s) : May(m, R, A \cup Before(s, k), s[k])

\* What a handler may do, it may do after more.
LEMMA MayGrows ==
    ASSUME NEW m, NEW R, NEW A, NEW B, A \subseteq B, NEW e, May(m, R, A, e)
    PROVE  May(m, R, B, e)
<1>1. \A r, stage : HandsOver(A, r, stage) => HandsOver(B, r, stage)
    BY DEF HandsOver
<1> QED BY <1>1 DEF May

\* Sequences, by what they range over.
LEMMA Lists ==
    /\ \A e : IsList(<<e>>) /\ Range(<<e>>) = {e} /\ Len(<<e>>) = 1
    /\ IsList(<<>>) /\ Range(<<>>) = {}
    /\ \A s : IsList(s) => Len(s) \in Nat /\ DOMAIN s = 1..Len(s)
    /\ \A s, t : IsList(s) /\ IsList(t) =>
         /\ IsList(s \o t)
         /\ Range(s \o t) = Range(s) \cup Range(t)
         /\ Len(s \o t) = Len(s) + Len(t)
         /\ \A k \in 1..Len(s) : (s \o t)[k] = s[k]
         /\ \A k \in 1..Len(t) : (s \o t)[Len(s) + k] = t[k]
    /\ \A s : IsList(s) => s \o <<>> = s
<1>1. ASSUME NEW e PROVE IsList(<<e>>) /\ Range(<<e>>) = {e} /\ Len(<<e>>) = 1
    <2>1. DOMAIN <<e>> = 1..1 /\ <<e>>[1] = e /\ \A k \in 1..1 : k = 1
        OBVIOUS
    <2>2. Range(<<e>>) = {e}
        BY <2>1 DEF Range
    <2> QED BY <2>2 DEF IsList
<1>2. IsList(<<>>) /\ Range(<<>>) = {}
    BY DEF IsList, Range
<1>3. ASSUME NEW s, IsList(s) PROVE Len(s) \in Nat /\ DOMAIN s = 1..Len(s)
    BY <1>3 DEF IsList
<1>4. ASSUME NEW s, NEW t, IsList(s), IsList(t)
      PROVE  /\ IsList(s \o t)
             /\ Range(s \o t) = Range(s) \cup Range(t)
             /\ Len(s \o t) = Len(s) + Len(t)
             /\ \A k \in 1..Len(s) : (s \o t)[k] = s[k]
             /\ \A k \in 1..Len(t) : (s \o t)[Len(s) + k] = t[k]
    <2> DEFINE E == Range(s) \cup Range(t)
               c == s \o t
    <2>1. s \in Seq(E) /\ t \in Seq(E)
        <3>1. DOMAIN s = 1..Len(s) /\ DOMAIN t = 1..Len(t) /\ Len(s) \in Nat /\ Len(t) \in Nat
            BY <1>3, <1>4
        <3>2. \A k \in 1..Len(s) : s[k] \in E
            BY <3>1 DEF Range
        <3>3. \A k \in 1..Len(t) : t[k] \in E
            BY <3>1 DEF Range
        <3>4. s \in Seq(Range(s)) /\ t \in Seq(Range(t))
            BY <1>4 DEF IsList
        <3>5. \A S, T : S \subseteq T => Seq(S) \subseteq Seq(T)
            OBVIOUS
        <3> QED BY <3>4, <3>5
    <2> HIDE DEF E
    <2>2. /\ Len(s) \in Nat /\ Len(t) \in Nat /\ c \in Seq(E) /\ Len(c) = Len(s) + Len(t)
          /\ DOMAIN s = 1..Len(s) /\ DOMAIN t = 1..Len(t) /\ DOMAIN c = 1..(Len(s) + Len(t))
        BY <2>1
    <2>3. /\ \A k \in 1..Len(s) : c[k] = s[k]
          /\ \A k \in 1..Len(t) : c[Len(s) + k] = t[k]
        BY <2>1
    <2> HIDE DEF c
    <2>4. Range(c) = E
        <3>1. ASSUME NEW x \in Range(c) PROVE x \in E
            <4>1. PICK k \in 1..Len(c) : x = c[k]
                BY <2>2 DEF Range
            <4>2. CASE k <= Len(s)
                BY <2>2, <2>3, <4>1, <4>2 DEF Range, E
            <4>3. CASE k > Len(s)
                <5>1. k - Len(s) \in 1..Len(t) /\ Len(s) + (k - Len(s)) = k
                    BY <2>2, <4>3
                <5>2. c[k] = t[k - Len(s)]
                    BY <2>3, <5>1
                <5> QED BY <2>2, <4>1, <5>1, <5>2 DEF Range, E
            <4> QED BY <2>2, <4>2, <4>3
        <3>2. ASSUME NEW x \in Range(s) PROVE x \in Range(c)
            <4>1. PICK k \in 1..Len(s) : x = s[k]
                BY <2>2 DEF Range
            <4>2. k \in DOMAIN c /\ c[k] = x
                BY <2>2, <2>3, <4>1
            <4> QED BY <4>2 DEF Range
        <3>3. ASSUME NEW x \in Range(t) PROVE x \in Range(c)
            <4>1. PICK k \in 1..Len(t) : x = t[k]
                BY <2>2 DEF Range
            <4>2. Len(s) + k \in DOMAIN c /\ c[Len(s) + k] = x
                BY <2>2, <2>3, <4>1
            <4> QED BY <4>2 DEF Range
        <3> QED BY <3>1, <3>2, <3>3 DEF E
    <2>5. IsList(c)
        BY <2>2, <2>4 DEF IsList
    <2> QED BY <2>2, <2>3, <2>4, <2>5 DEF c, E
<1>5. ASSUME NEW s, IsList(s) PROVE s \o <<>> = s
    BY <1>5 DEF IsList
<1> QED
    <2>1. \A e : IsList(<<e>>) /\ Range(<<e>>) = {e} /\ Len(<<e>>) = 1
        BY <1>1
    <2>2. \A s : IsList(s) => Len(s) \in Nat /\ DOMAIN s = 1..Len(s)
        BY <1>3
    <2>3. \A s, t : IsList(s) /\ IsList(t) =>
             /\ IsList(s \o t)
             /\ Range(s \o t) = Range(s) \cup Range(t)
             /\ Len(s \o t) = Len(s) + Len(t)
             /\ \A k \in 1..Len(s) : (s \o t)[k] = s[k]
             /\ \A k \in 1..Len(t) : (s \o t)[Len(s) + k] = t[k]
        BY <1>4
    <2> QED BY <1>2, <1>5, <2>1, <2>2, <2>3

(* Longer and longer beginnings of a handler. *)
LEMMA LegalThen ==
    ASSUME NEW m, NEW R, NEW A, NEW s, NEW t, Legal(m, R, A, s), Legal(m, R, A \cup Range(s), t)
    PROVE  Legal(m, R, A, s \o t) /\ Range(s \o t) = Range(s) \cup Range(t)
<1> DEFINE c == s \o t
<1>1. IsList(s) /\ IsList(t)
    BY DEF Legal
<1>2. /\ IsList(c) /\ Range(c) = Range(s) \cup Range(t) /\ Len(c) = Len(s) + Len(t)
      /\ \A k \in 1..Len(s) : c[k] = s[k]
      /\ \A k \in 1..Len(t) : c[Len(s) + k] = t[k]
      /\ Len(s) \in Nat /\ Len(t) \in Nat /\ DOMAIN s = 1..Len(s)
    BY <1>1, Lists
<1> HIDE DEF c
<1>3. ASSUME NEW k \in 1..Len(c) PROVE May(m, R, A \cup Before(c, k), c[k])
    <2>1. CASE k <= Len(s)
        <3>1. k \in 1..Len(s) /\ c[k] = s[k] /\ \A j \in 1..(k - 1) : c[j] = s[j]
            BY <1>2, <2>1
        <3>2. Before(c, k) = Before(s, k)
            BY <3>1 DEF Before
        <3> QED BY <3>1, <3>2 DEF Legal
    <2>2. CASE k > Len(s)
        <3> DEFINE j == k - Len(s)
        <3>1. j \in 1..Len(t) /\ k = Len(s) + j
            BY <1>2, <2>2
        <3>2. May(m, R, (A \cup Range(s)) \cup Before(t, j), t[j])
            BY <3>1 DEF Legal
        <3>3. Range(s) \subseteq Before(c, k)
            <4>1. ASSUME NEW x \in Range(s) PROVE x \in Before(c, k)
                <5>1. PICK i \in 1..Len(s) : x = s[i]
                    BY <1>2 DEF Range
                <5>2. i \in 1..(k - 1) /\ c[i] = x
                    BY <1>2, <2>2, <5>1
                <5> QED BY <5>2 DEF Before
            <4> QED BY <4>1
        <3>4. Before(t, j) \subseteq Before(c, k)
            <4>1. ASSUME NEW x \in Before(t, j) PROVE x \in Before(c, k)
                <5>1. PICK i \in 1..(j - 1) : x = t[i]
                    BY DEF Before
                <5>2. Len(s) + i \in 1..(k - 1) /\ i \in 1..Len(t)
                    BY <1>2, <3>1
                <5>3. c[Len(s) + i] = x
                    BY <1>2, <5>1, <5>2
                <5> QED BY <5>2, <5>3 DEF Before
            <4> QED BY <4>1
        <3>5. (A \cup Range(s)) \cup Before(t, j) \subseteq A \cup Before(c, k)
            BY <3>3, <3>4
        <3>6. c[k] = t[j]
            BY <1>2, <3>1
        <3> HIDE DEF j
        <3> QED BY <3>2, <3>5, <3>6, MayGrows
    <2> QED BY <1>2, <2>1, <2>2
<1> QED BY <1>2, <1>3 DEF Legal, c

\* A single effect.
LEMMA LegalOne ==
    ASSUME NEW m, NEW R, NEW A, NEW e, May(m, R, A, e)
    PROVE  Legal(m, R, A, <<e>>)
<1>1. IsList(<<e>>) /\ Len(<<e>>) = 1 /\ <<e>>[1] = e /\ \A k \in 1..1 : k = 1
    BY Lists
<1>2. A \subseteq A \cup Before(<<e>>, 1)
    OBVIOUS
<1>3. May(m, R, A \cup Before(<<e>>, 1), e)
    BY <1>2, MayGrows
<1> QED BY <1>1, <1>3 DEF Legal

\* A beginning and one effect more.
LEMMA LegalNext ==
    ASSUME NEW m, NEW R, NEW s, NEW e, Legal(m, R, {}, s), May(m, R, Range(s), e)
    PROVE  Legal(m, R, {}, s \o <<e>>) /\ Range(s \o <<e>>) = Range(s) \cup {e}
<1>1. {} \cup Range(s) = Range(s)
    OBVIOUS
<1>2. Legal(m, R, {} \cup Range(s), <<e>>)
    BY <1>1, LegalOne
<1>3. Legal(m, R, {}, s \o <<e>>) /\ Range(s \o <<e>>) = Range(s) \cup Range(<<e>>)
    BY <1>2, LegalThen
<1> QED BY <1>3, Lists

\* A beginning and a report more, that something is done only when it is handed over.
LEMMA NextReport ==
    ASSUME NEW m, NEW R, NEW s, Legal(m, R, {}, s), NEW stage, NEW st, NEW must,
           st = "done" => HandsOver(Range(s), m.run, stage)
    PROVE  /\ Legal(m, R, {}, s \o ReportStep(m, stage, st, must))
           /\ Range(s \o ReportStep(m, stage, st, must)) = Range(s) \cup
                {[do |-> "report", on |-> "status", what |-> Report(m, stage, st), must |-> must]}
<1> DEFINE e == [do |-> "report", on |-> "status", what |-> Report(m, stage, st), must |-> must]
<1>1. May(m, R, Range(s), e)
    BY DEF May, Report
<1> QED BY <1>1, LegalNext DEF ReportStep

\* A handler begins with a report that nothing is done yet.
LEMMA FirstReport ==
    ASSUME NEW m, NEW R, NEW stage, NEW st, NEW must, st # "done"
    PROVE  /\ Legal(m, R, {}, ReportStep(m, stage, st, must))
           /\ Range(ReportStep(m, stage, st, must)) =
                {[do |-> "report", on |-> "status", what |-> Report(m, stage, st), must |-> must]}
<1> DEFINE e == [do |-> "report", on |-> "status", what |-> Report(m, stage, st), must |-> must]
<1>1. May(m, R, {}, e)
    BY DEF May, Report
<1> QED BY <1>1, LegalOne, Lists DEF ReportStep

\* A beginning and a message more, whose blob is there.
LEMMA NextPublish ==
    ASSUME NEW m, NEW R, NEW s, Legal(m, R, {}, s), NEW t \in Topics, NEW x \in Orders(t),
           x.blob = NoBlob \/ x.blob = m.blob \/ Put1(x.blob) \in Range(s)
    PROVE  /\ Legal(m, R, {}, s \o Publish(t, x))
           /\ Range(s \o Publish(t, x)) = Range(s) \cup {Published1(t, x)}
           /\ Legal(m, R, {}, s \o TryPublish(t, x))
           /\ Range(s \o TryPublish(t, x)) =
                Range(s) \cup {[do |-> "publish", on |-> t, what |-> x, must |-> FALSE]}
<1> DEFINE e == Published1(t, x)
           f == [do |-> "publish", on |-> t, what |-> x, must |-> FALSE]
<1>1. May(m, R, Range(s), e)
    BY DEF May, Published1
<1>2. May(m, R, Range(s), f)
    BY DEF May
<1>3. Publish(t, x) = <<e>> /\ TryPublish(t, x) = <<f>>
    BY DEF Publish, TryPublish, Published1
<1> HIDE DEF e, f
<1>4. /\ Legal(m, R, {}, s \o <<e>>) /\ Range(s \o <<e>>) = Range(s) \cup {e}
      /\ Legal(m, R, {}, s \o <<f>>) /\ Range(s \o <<f>>) = Range(s) \cup {f}
    BY <1>1, <1>2, LegalNext
<1> QED BY <1>3, <1>4 DEF e, f

(* The steps that nothing is asked of. *)
LEMMA NextNeed ==
    ASSUME NEW m, NEW R, NEW s, Legal(m, R, {}, s), NEW w
    PROVE  Legal(m, R, {}, s \o Need(w)) /\ Range(s) \subseteq Range(s \o Need(w))
<1> DEFINE e == [do |-> "need", on |-> w, what |-> w, must |-> TRUE]
<1>1. May(m, R, Range(s), e)
    BY DEF May
<1>2. Need(w) = <<e>>
    BY DEF Need
<1> HIDE DEF e
<1>3. Legal(m, R, {}, s \o <<e>>) /\ Range(s \o <<e>>) = Range(s) \cup {e}
    BY <1>1, LegalNext
<1> QED BY <1>2, <1>3

\* A beginning and a download more.
LEMMA NextGet ==
    ASSUME NEW m, NEW R, NEW s, Legal(m, R, {}, s), NEW b
    PROVE  Legal(m, R, {}, s \o Get(b)) /\ Range(s) \subseteq Range(s \o Get(b))
<1> DEFINE e == [do |-> "get", on |-> "blobs", what |-> b, must |-> TRUE]
<1>1. May(m, R, Range(s), e)
    BY DEF May
<1>2. Get(b) = IF b = NoBlob THEN <<>> ELSE <<e>>
    BY DEF Get
<1>3. s \o <<>> = s
    BY Lists DEF Legal
<1> HIDE DEF e
<1>4. Legal(m, R, {}, s \o <<e>>) /\ Range(s \o <<e>>) = Range(s) \cup {e}
    BY <1>1, LegalNext
<1> QED BY <1>2, <1>3, <1>4

\* A beginning and an upload more; of no blob it is nothing.
LEMMA NextPut ==
    ASSUME NEW m, NEW R, NEW s, Legal(m, R, {}, s), NEW b
    PROVE  /\ Legal(m, R, {}, s \o Put(b)) /\ Range(s) \subseteq Range(s \o Put(b))
           /\ b = NoBlob \/ Put1(b) \in Range(s \o Put(b))
<1> DEFINE e == Put1(b)
<1>1. May(m, R, Range(s), e)
    BY DEF May, Put1
<1>2. Put(b) = IF b = NoBlob THEN <<>> ELSE <<e>>
    BY DEF Put, Put1
<1>3. s \o <<>> = s
    BY Lists DEF Legal
<1> HIDE DEF e
<1>4. Legal(m, R, {}, s \o <<e>>) /\ Range(s \o <<e>>) = Range(s) \cup {e}
    BY <1>1, LegalNext
<1>5. CASE b = NoBlob
    BY <1>2, <1>3, <1>5
<1>6. CASE b # NoBlob
    BY <1>2, <1>4, <1>6 DEF e
<1> QED BY <1>5, <1>6

\* A beginning and a row more, an edge only between nodes.
LEMMA NextWrite ==
    ASSUME NEW m, NEW R, NEW s, Legal(m, R, {}, s), NEW t \in Tables, NEW x,
           t = "edges" => \E a, b : Written1("nodes", a) \in Range(s) /\ Written1("nodes", b) \in Range(s)
                                    /\ a[2] = x[1] /\ b[2] = x[2]
    PROVE  /\ Legal(m, R, {}, s \o Write(t, x))
           /\ Range(s \o Write(t, x)) = Range(s) \cup {Written1(t, x)}
<1> DEFINE e == Written1(t, x)
<1>1. May(m, R, Range(s), e)
    BY DEF May, Written1
<1>2. Write(t, x) = <<e>>
    BY DEF Write, Written1
<1> HIDE DEF e
<1>3. Legal(m, R, {}, s \o <<e>>) /\ Range(s \o <<e>>) = Range(s) \cup {e}
    BY <1>1, LegalNext
<1> QED BY <1>2, <1>3 DEF e

\* A beginning and the commit, when everything required is had.
LEMMA NextCommit ==
    ASSUME NEW m, NEW R, NEW s, Legal(m, R, {}, s), R \subseteq Range(s)
    PROVE  /\ Legal(m, R, {}, s \o CommitOffset(m))
           /\ Range(s \o CommitOffset(m)) = Range(s) \cup
                {[do |-> "commit", on |-> "offsets", what |-> m, must |-> FALSE]}
<1> DEFINE e == [do |-> "commit", on |-> "offsets", what |-> m, must |-> FALSE]
<1>1. May(m, R, Range(s), e)
    BY DEF May
<1>2. CommitOffset(m) = <<e>>
    BY DEF CommitOffset
<1> HIDE DEF e
<1>3. Legal(m, R, {}, s \o <<e>>) /\ Range(s \o <<e>>) = Range(s) \cup {e}
    BY <1>1, LegalNext
<1> QED BY <1>2, <1>3 DEF e

\* Concatenation is associative.
LEMMA ListLaws ==
    ASSUME NEW s, IsList(s)
    PROVE  /\ <<>> \o s = s
           /\ \A t, u : IsList(t) /\ IsList(u) => (s \o t) \o u = s \o (t \o u)
<1>1. <<>> \o s = s
    BY DEF IsList
<1>2. ASSUME NEW t, NEW u, IsList(t), IsList(u) PROVE (s \o t) \o u = s \o (t \o u)
    <2> DEFINE E == Range(s) \cup Range(t) \cup Range(u)
    <2>1. s \in Seq(E) /\ t \in Seq(E) /\ u \in Seq(E)
        <3>1. Range(s) \subseteq E /\ Range(t) \subseteq E /\ Range(u) \subseteq E
            OBVIOUS
        <3>2. \A S, T : S \subseteq T => Seq(S) \subseteq Seq(T)
            OBVIOUS
        <3>3. s \in Seq(Range(s)) /\ t \in Seq(Range(t)) /\ u \in Seq(Range(u))
            BY <1>2 DEF IsList
        <3> HIDE DEF E
        <3> QED BY <3>1, <3>2, <3>3
    <2> HIDE DEF E
    <2> QED BY <2>1, ConcatAssociative
<1> QED BY <1>1, <1>2

\* A handler may begin with an upload.
LEMMA FirstPut ==
    ASSUME NEW m, NEW R, NEW b
    PROVE  Legal(m, R, {}, Put(b)) /\ (b = NoBlob \/ Put1(b) \in Range(Put(b)))
<1>1. Legal(m, R, {}, <<>>)
    BY Lists DEF Legal
<1>2. IsList(Put(b))
    BY Lists DEF Put
<1>3. <<>> \o Put(b) = Put(b)
    BY <1>2, ListLaws
<1> QED BY <1>1, <1>3, NextPut

\* What is legal at the beginning is legal later.
LEMMA LegalAnywhere ==
    ASSUME NEW m, NEW R, NEW A, NEW s, Legal(m, R, {}, s)
    PROVE  Legal(m, R, A, s)
<1>1. ASSUME NEW k \in 1..Len(s) PROVE May(m, R, A \cup Before(s, k), s[k])
    <2>1. May(m, R, {} \cup Before(s, k), s[k])
        BY DEF Legal
    <2>2. {} \cup Before(s, k) \subseteq A \cup Before(s, k)
        OBVIOUS
    <2> QED BY <2>1, <2>2, MayGrows
<1> QED BY <1>1 DEF Legal

(* One after the other, what is legal on its own stays so. *)
LEMMA NextEach ==
    ASSUME NEW m, NEW R, NEW s, Legal(m, R, {}, s),
           NEW n \in Nat, NEW S, NEW ss \in [1..n -> S],
           \A k \in 1..n : Legal(m, R, {}, ss[k])
    PROVE  /\ Legal(m, R, {}, s \o FlattenSeq(ss))
           /\ Range(s \o FlattenSeq(ss)) = Range(s) \cup UNION {Range(ss[k]) : k \in 1..n}
<1> DEFINE E == UNION {Range(ss[k]) : k \in 1..n}
           f == FlattenSeq(ss)
<1>1. \A k \in 1..n : IsList(ss[k]) /\ Range(ss[k]) \subseteq E
    BY DEF Legal
<1>2. \A k \in 1..n : ss[k] \in Seq(E)
    <2>1. \A V, W : V \subseteq W => Seq(V) \subseteq Seq(W)
        OBVIOUS
    <2>2. \A k \in 1..n : ss[k] \in Seq(Range(ss[k]))
        BY <1>1 DEF IsList
    <2> HIDE DEF E
    <2> QED BY <1>1, <2>1, <2>2
<1> HIDE DEF E
<1>3. ss \in Seq(Seq(E)) /\ Len(ss) = n
    <2>1. ss \in [1..n -> Seq(E)]
        BY <1>2
    <2> QED BY <2>1
<1>4. f \in Seq(E) /\ Joins(f, ss, n)
    BY <1>3, FlattenJoins
<1> HIDE DEF f
<1>5. DOMAIN f = 1..Len(f) /\ Len(f) \in Nat
    BY <1>4
<1>6. Range(f) = E
    <2>1. ASSUME NEW x \in Range(f) PROVE x \in E
        BY <1>4, <1>5 DEF Range
    <2>2. ASSUME NEW x \in E PROVE x \in Range(f)
        <3>1. PICK k \in 1..n : x \in Range(ss[k])
            BY DEF E
        <3>2. PICK j \in DOMAIN ss[k] : x = ss[k][j]
            BY <3>1 DEF Range
        <3>3. \E p \in DOMAIN f : f[p] = ss[k][j]
            BY <1>4 DEF Joins
        <3> QED BY <3>2, <3>3 DEF Range
    <2> QED BY <2>1, <2>2
<1>7. IsList(f)
    BY <1>4, <1>6 DEF IsList
<1>8. ASSUME NEW p \in 1..Len(f) PROVE May(m, R, {} \cup Before(f, p), f[p])
    <2>0. p \in DOMAIN f
        BY <1>5
    <2>1. PICK k \in 1..n : \E j \in DOMAIN ss[k] :
            f[p] = ss[k][j] /\ \A i \in 1..(j - 1) : \E q \in 1..(p - 1) : f[q] = ss[k][i]
        BY ONLY <1>4, <2>0 DEF Joins
    <2>2. PICK j \in DOMAIN ss[k] :
            f[p] = ss[k][j] /\ \A i \in 1..(j - 1) : \E q \in 1..(p - 1) : f[q] = ss[k][i]
        BY <2>1
    <2>3. j \in 1..Len(ss[k])
        BY <1>1, Lists
    <2>4. May(m, R, {} \cup Before(ss[k], j), ss[k][j])
        BY <2>3 DEF Legal
    <2>5. {} \cup Before(ss[k], j) \subseteq {} \cup Before(f, p)
        BY <2>2 DEF Before
    <2> QED BY <2>2, <2>4, <2>5, MayGrows
<1>9. Legal(m, R, {}, f)
    BY <1>7, <1>8 DEF Legal
<1>10. Legal(m, R, {} \cup Range(s), f)
    BY <1>9, LegalAnywhere
<1>11. Legal(m, R, {}, s)
    OBVIOUS
<1>12. Legal(m, R, {}, s \o f) /\ Range(s \o f) = Range(s) \cup Range(f)
    BY ONLY <1>10, <1>11, LegalThen
<1> QED BY <1>6, <1>12 DEF E, f

(* A handler that keeps the order, and commits when it has done what it     *)
(* must.                                                                    *)
Proper(m, h) ==
    /\ Range(h) # {}
    /\ \E R : Legal(m, R, {}, h) /\ \A x \in Range(h) : x.must => x \in R

\* A handler that ends with the commit, and perhaps with a last report, is proper.
LEMMA ProperCommit ==
    ASSUME NEW m, NEW p, \A R : Legal(m, R, {}, p)
    PROVE  /\ Proper(m, p \o CommitOffset(m))
           /\ \A stage, st : (st = "done" => HandsOver(Range(p), m.run, stage)) =>
                Proper(m, (p \o CommitOffset(m)) \o ReportStep(m, stage, st, FALSE))
<1> DEFINE R == Range(p)
           c == p \o CommitOffset(m)
           e == [do |-> "commit", on |-> "offsets", what |-> m, must |-> FALSE]
<1>1. Legal(m, R, {}, c) /\ Range(c) = Range(p) \cup {e}
    BY NextCommit
<1>2. \A x \in Range(c) : x.must => x \in R
    BY <1>1
<1>3. Range(c) # {}
    BY <1>1
<1> HIDE DEF R, c
<1>4. ASSUME NEW stage, NEW st, st = "done" => HandsOver(Range(p), m.run, stage)
      PROVE  Proper(m, c \o ReportStep(m, stage, st, FALSE))
    <2> DEFINE d == c \o ReportStep(m, stage, st, FALSE)
               f == [do |-> "report", on |-> "status", what |-> Report(m, stage, st), must |-> FALSE]
    <2>1. st = "done" => HandsOver(Range(c), m.run, stage)
        <3>1. Range(p) \subseteq Range(c)
            BY <1>1
        <3> QED BY <1>4, <3>1 DEF HandsOver
    <2>a. May(m, R, Range(c), f)
        BY <2>1 DEF May, Report
    <2>2. ReportStep(m, stage, st, FALSE) = <<f>>
        BY DEF ReportStep
    <2>c. ~f.must
        OBVIOUS
    <2> HIDE DEF f
    <2>d. Legal(m, R, {}, c \o <<f>>) /\ Range(c \o <<f>>) = Range(c) \cup {f}
        BY <1>1, <2>a, LegalNext
    <2>b. Legal(m, R, {}, d) /\ Range(d) = Range(c) \cup {f}
        BY <2>2, <2>d
    <2> HIDE DEF d
    <2>3. \A x \in Range(d) : x.must => x \in R
        BY <1>2, <2>b, <2>c
    <2>4. Range(d) # {}
        BY <2>b
    <2>5. Proper(m, d)
        BY <2>b, <2>3, <2>4 DEF Proper
    <2> QED BY <2>5 DEF d
<1>5. Proper(m, c)
    BY <1>1, <1>2, <1>3 DEF Proper
<1> QED BY <1>4, <1>5 DEF c

----------------------------------------------------------------------------
(* Every handler is proper. *)

\* What can be published of a run and its items.
LEMMA OrdersOf ==
    /\ Orders("clone") = CloneOrders /\ Orders("source") = FileOrders /\ Orders("expanded") = CloneOrders
    /\ Orders("expand") = RunOrders /\ Orders("parse") = RunOrders /\ Orders("typecheck") = RunOrders
    /\ Orders("parsed") = ItemOrders /\ Orders("typed") = ItemOrders /\ Orders("embed") = ItemOrders
    /\ Orders("relation") = RelationOrders
BY DEF Orders

\* The clone worker.
LEMMA CloneProper ==
    ASSUME NEW m \in CloneOrders
    PROVE  Proper(m, CloneRun(m))
<1>0. PICK r \in RunIds : m = Envelope(r, NoItem, NoBlob)
    BY DEF CloneOrders
<1>1. m.run = r
    BY <1>0 DEF Envelope
<1> SUFFICES ASSUME NEW R PROVE Legal(m, R, {}, ProcessClone(m))
    BY ProperCommit DEF CloneRun
<1> DEFINE s1 == CloneStatus(m, "processing")
           s2 == s1 \o ResolveCloneUrl(m)
           s3 == s2 \o GitClone(m)
           s4 == s3 \o PackageAndStoreBlob(m)
           sf == s4 \o Put(FileBlob(r))
           s5 == s4 \o EmitSourceFiles(m)
           s6 == s5 \o EmitExpandCommand(m)
           s7 == s6 \o CloneStatus(m, "done")
<1>2. Legal(m, R, {}, s1)
    BY FirstReport DEF CloneStatus
<1> HIDE DEF s1
<1>3. Legal(m, R, {}, s2)
    BY <1>2, NextNeed DEF ResolveCloneUrl
<1> HIDE DEF s2
<1>4. Legal(m, R, {}, s3)
    BY <1>3, NextNeed DEF GitClone
<1> HIDE DEF s3
<1>5. Legal(m, R, {}, s4) /\ Put1(CloneBlob(r)) \in Range(s4)
    <2>1. CloneBlob(r) # NoBlob
        BY DEF CloneBlob, NoBlob
    <2> QED BY <1>1, <1>4, <2>1, NextPut DEF PackageAndStoreBlob
<1> HIDE DEF s4
<1>6. /\ Legal(m, R, {}, s5) /\ Put1(CloneBlob(r)) \in Range(s5)
      /\ Published1("source", Envelope(r, NoItem, FileBlob(r))) \in Range(s5)
    <2> DEFINE x == Envelope(r, NoItem, FileBlob(r))
    <2>1. x \in Orders("source") /\ x.blob = FileBlob(r) /\ "source" \in Topics
        BY OrdersOf DEF FileOrders, Topics, Envelope
    <2>2. EmitSourceFiles(m) = Put(FileBlob(r)) \o Publish("source", x)
        BY <1>1 DEF EmitSourceFiles
    <2> HIDE DEF x
    <2>3. /\ Legal(m, R, {}, sf) /\ Range(s4) \subseteq Range(sf)
          /\ x.blob = NoBlob \/ Put1(x.blob) \in Range(sf)
        BY <1>5, <2>1, NextPut
    <2>4. IsList(s4) /\ IsList(Put(FileBlob(r))) /\ IsList(Publish("source", x))
        BY <1>5, Lists DEF Legal, Put, Publish
    <2>5. s5 = sf \o Publish("source", x)
        BY <2>2, <2>4, ListLaws
    <2> HIDE DEF sf, s5
    <2>6. /\ Legal(m, R, {}, sf \o Publish("source", x))
          /\ Range(sf \o Publish("source", x)) = Range(sf) \cup {Published1("source", x)}
        BY <2>1, <2>3, NextPublish
    <2> QED BY <1>5, <2>3, <2>5, <2>6 DEF x
<1> HIDE DEF s5
<1>7. /\ Legal(m, R, {}, s6)
      /\ Range(s6) = Range(s5) \cup {Published1("expand", Envelope(r, NoItem, CloneBlob(r)))}
    <2> DEFINE x == Envelope(r, NoItem, CloneBlob(r))
    <2>1. x \in Orders("expand") /\ x.blob = CloneBlob(r) /\ "expand" \in Topics
        BY OrdersOf DEF RunOrders, Topics, Envelope
    <2>2. EmitExpandCommand(m) = Publish("expand", x)
        BY <1>1 DEF EmitExpandCommand
    <2>3. Put1(x.blob) \in Range(s5)
        BY <1>5, <1>6, <2>1
    <2> HIDE DEF x
    <2>4. /\ Legal(m, R, {}, s5 \o Publish("expand", x))
          /\ Range(s5 \o Publish("expand", x)) = Range(s5) \cup {Published1("expand", x)}
        BY <1>6, <2>1, <2>3, NextPublish
    <2> QED BY <2>2, <2>4 DEF x
<1> HIDE DEF s6
<1>8. Legal(m, R, {}, s7)
    <2>1. HandsOver(Range(s6), m.run, "clone")
        BY <1>1, <1>6, <1>7 DEF HandsOver, ReportedStages
    <2> QED BY <1>7, <2>1, NextReport DEF CloneStatus
<1> QED BY <1>8 DEF ProcessClone, s1, s2, s3, s4, s5, s6

\* The expand worker.
LEMMA ExpandProper ==
    ASSUME NEW m \in RunOrders
    PROVE  Proper(m, ExpandRun(m))
<1>0. PICK r \in RunIds : m = Envelope(r, NoItem, CloneBlob(r))
    BY DEF RunOrders
<1>1. m.run = r /\ m.blob = CloneBlob(r)
    BY <1>0 DEF Envelope
<1> SUFFICES ASSUME NEW R PROVE Legal(m, R, {}, ProcessExpand(m))
    BY ProperCommit DEF ExpandRun
<1> DEFINE s1 == ExpandStatus(m, "processing")
           s2 == s1 \o Get(m.blob)
           s3 == s2 \o ExpandCrate(m)
           s4 == s3 \o EmitParseCommand(m)
           s5 == s4 \o ExpandStatus(m, "done")
<1>2. Legal(m, R, {}, s1)
    BY FirstReport DEF ExpandStatus
<1> HIDE DEF s1
<1>3. Legal(m, R, {}, s2)
    BY <1>2, NextGet
<1> HIDE DEF s2
<1>4. Legal(m, R, {}, s3)
    <2> DEFINE x == Envelope(r, NoItem, NoBlob)
    <2>1. x \in Orders("expanded") /\ x.blob = NoBlob /\ "expanded" \in Topics
        BY OrdersOf DEF CloneOrders, Topics, Envelope
    <2>2. ExpandCrate(m) = TryPublish("expanded", x)
        BY <1>1 DEF ExpandCrate
    <2> HIDE DEF x
    <2>3. Legal(m, R, {}, s2 \o TryPublish("expanded", x))
        BY <1>3, <2>1, NextPublish
    <2> QED BY <2>2, <2>3
<1> HIDE DEF s3
<1>5. /\ Legal(m, R, {}, s4)
      /\ Range(s4) = Range(s3) \cup {Published1("parse", Envelope(r, NoItem, CloneBlob(r)))}
    <2> DEFINE x == Envelope(r, NoItem, CloneBlob(r))
    <2>1. x \in Orders("parse") /\ x.blob = m.blob /\ "parse" \in Topics
        BY <1>1, OrdersOf DEF RunOrders, Topics, Envelope
    <2>2. EmitParseCommand(m) = Publish("parse", x)
        BY <1>1 DEF EmitParseCommand
    <2> HIDE DEF x
    <2>3. /\ Legal(m, R, {}, s3 \o Publish("parse", x))
          /\ Range(s3 \o Publish("parse", x)) = Range(s3) \cup {Published1("parse", x)}
        BY <1>4, <2>1, NextPublish
    <2> QED BY <2>2, <2>3 DEF x
<1> HIDE DEF s4
<1>6. Legal(m, R, {}, s5)
    <2>1. HandsOver(Range(s4), m.run, "expand")
        BY <1>1, <1>5 DEF HandsOver, ReportedStages
    <2> QED BY <1>5, <2>1, NextReport DEF ExpandStatus
<1> QED BY <1>6 DEF ProcessExpand, s1, s2, s3, s4

(* What is put and published of one item. *)
LEMMA ItemLegal ==
    ASSUME NEW m, NEW R, NEW r \in RunIds, m.run = r, NEW i \in Items, NEW t \in {"parsed", "typed"}
    PROVE  /\ Legal(m, R, {}, Put(BodyBlob(i)) \o Publish(t, Envelope(r, i, BodyBlob(i))))
           /\ Published1(t, Envelope(r, i, BodyBlob(i))) \in
                Range(Put(BodyBlob(i)) \o Publish(t, Envelope(r, i, BodyBlob(i))))
<1> DEFINE x == Envelope(r, i, BodyBlob(i))
           s == Put(BodyBlob(i))
<1>1. x \in Orders(t) /\ x.blob = BodyBlob(i) /\ t \in Topics
    BY OrdersOf DEF ItemOrders, Topics, Envelope
<1>2. Legal(m, R, {}, s) /\ (BodyBlob(i) = NoBlob \/ Put1(BodyBlob(i)) \in Range(s))
    BY FirstPut
<1> HIDE DEF x, s
<1>3. x.blob = NoBlob \/ x.blob = m.blob \/ Put1(x.blob) \in Range(s)
    BY <1>1, <1>2
<1>4. /\ Legal(m, R, {}, s \o Publish(t, x))
      /\ Range(s \o Publish(t, x)) = Range(s) \cup {Published1(t, x)}
    BY <1>1, <1>2, <1>3, NextPublish
<1> QED BY <1>4 DEF x, s

\* The parse worker.
LEMMA ParseProper ==
    ASSUME NEW m \in RunOrders, WorkersAssumption
    PROVE  Proper(m, ParseRun(m))
<1>0. PICK r \in RunIds : m = Envelope(r, NoItem, CloneBlob(r))
    BY DEF RunOrders
<1>1. m.run = r /\ m.blob = CloneBlob(r)
    BY <1>0 DEF Envelope
<1> SUFFICES ASSUME NEW R PROVE Legal(m, R, {}, ProcessParse(m))
    BY ProperCommit DEF ParseRun
<1> DEFINE n == Cardinality(Items)
           ss == [k \in 1..n |-> EmitParsedItem(m, SetToSeq(Items)[k])]
           s1 == ParseStatus(m, "processing")
           s2 == s1 \o Get(m.blob)
           s3 == s2 \o FlattenSeq(ss)
           s4 == s3 \o EmitTypecheckCommand(m)
           s5 == s4 \o ParseStatus(m, "done")
<1>2. Legal(m, R, {}, s1)
    BY FirstReport DEF ParseStatus
<1> HIDE DEF s1
<1>3. Legal(m, R, {}, s2)
    BY <1>2, NextGet
<1> HIDE DEF s2
<1>4. /\ n \in Nat
      /\ \A k \in 1..n : SetToSeq(Items)[k] \in Items
      /\ \A i \in Items : \E k \in 1..n : SetToSeq(Items)[k] = i
    BY SetListed DEF WorkersAssumption
<1>5. ASSUME NEW k \in 1..n, NEW i, i = SetToSeq(Items)[k]
      PROVE  Legal(m, R, {}, ss[k]) /\ Published1("parsed", Envelope(r, i, BodyBlob(i))) \in Range(ss[k])
    <2>1. i \in Items
        BY <1>4, <1>5
    <2>2. ss[k] = Put(BodyBlob(i)) \o Publish("parsed", Envelope(r, i, BodyBlob(i)))
        BY <1>1, <1>5 DEF EmitParsedItem
    <2> HIDE DEF ss
    <2> QED BY <1>1, <2>1, <2>2, ItemLegal
<1>6. /\ Legal(m, R, {}, s3)
      /\ \A i \in Items : Published1("parsed", Envelope(r, i, BodyBlob(i))) \in Range(s3)
    <2>1. ss \in [1..n -> Range(ss)]
        BY DEF Range
    <2>2. \A k \in 1..n : Legal(m, R, {}, ss[k])
        BY <1>5
    <2>a. n \in Nat
        BY <1>4
    <2> HIDE DEF ss, n
    <2>b. Legal(m, R, {}, s2 \o FlattenSeq(ss))
        BY <1>3, <2>a, <2>1, <2>2, NextEach
    <2>c. Range(s2 \o FlattenSeq(ss)) = Range(s2) \cup UNION {Range(ss[k]) : k \in 1..n}
        BY <1>3, <2>a, <2>1, <2>2, NextEach
    <2>3. /\ Legal(m, R, {}, s2 \o FlattenSeq(ss))
          /\ Range(s2 \o FlattenSeq(ss)) = Range(s2) \cup UNION {Range(ss[k]) : k \in 1..n}
        BY <2>b, <2>c
    <2>4. ASSUME NEW i \in Items PROVE Published1("parsed", Envelope(r, i, BodyBlob(i))) \in Range(s3)
        <3>1. PICK k \in 1..n : SetToSeq(Items)[k] = i
            BY <1>4
        <3>2. Published1("parsed", Envelope(r, i, BodyBlob(i))) \in Range(ss[k])
            BY <1>5, <3>1
        <3> QED BY <2>3, <3>2
    <2> QED BY <2>3, <2>4
<1>7. ProcessParse(m) = s5
    BY DEF ProcessParse, ForEach, s1, s2
<1> HIDE DEF s3, ss
<1>8. /\ Legal(m, R, {}, s4)
      /\ Range(s4) = Range(s3) \cup {Published1("typecheck", Envelope(r, NoItem, CloneBlob(r)))}
    <2> DEFINE x == Envelope(r, NoItem, CloneBlob(r))
    <2>1. x \in Orders("typecheck") /\ x.blob = m.blob /\ "typecheck" \in Topics
        BY <1>1, OrdersOf DEF RunOrders, Topics, Envelope
    <2>2. EmitTypecheckCommand(m) = Publish("typecheck", x)
        BY <1>1 DEF EmitTypecheckCommand
    <2> HIDE DEF x
    <2>3. /\ Legal(m, R, {}, s3 \o Publish("typecheck", x))
          /\ Range(s3 \o Publish("typecheck", x)) = Range(s3) \cup {Published1("typecheck", x)}
        BY <1>6, <2>1, NextPublish
    <2> QED BY <2>2, <2>3 DEF x
<1> HIDE DEF s4
<1>9. Legal(m, R, {}, s5)
    <2>1. HandsOver(Range(s4), m.run, "parse")
        BY <1>1, <1>6, <1>8 DEF HandsOver, ReportedStages
    <2> QED BY <1>8, <2>1, NextReport DEF ParseStatus
<1> QED BY <1>7, <1>9

\* The typecheck worker.
LEMMA TypecheckProper ==
    ASSUME NEW m \in RunOrders, WorkersAssumption
    PROVE  Proper(m, TypecheckRun(m))
<1>0. PICK r \in RunIds : m = Envelope(r, NoItem, CloneBlob(r))
    BY DEF RunOrders
<1>1. m.run = r /\ m.blob = CloneBlob(r)
    BY <1>0 DEF Envelope
<1> SUFFICES ASSUME NEW R PROVE Legal(m, R, {}, ProcessTypecheck(m))
    BY ProperCommit DEF TypecheckRun
<1> DEFINE n == Cardinality(Items)
           ss == [k \in 1..n |-> EmitTypecheckedItem(m, SetToSeq(Items)[k])]
           s1 == TypecheckStatus(m, "processing")
           s2 == s1 \o Get(m.blob)
           s3 == s2 \o FlattenSeq(ss)
           s4 == s3 \o TypecheckStatus(m, "done")
<1>2. Legal(m, R, {}, s1)
    BY FirstReport DEF TypecheckStatus
<1> HIDE DEF s1
<1>3. Legal(m, R, {}, s2)
    BY <1>2, NextGet
<1> HIDE DEF s2
<1>4. /\ n \in Nat
      /\ \A k \in 1..n : SetToSeq(Items)[k] \in Items
      /\ \A i \in Items : \E k \in 1..n : SetToSeq(Items)[k] = i
    BY SetListed DEF WorkersAssumption
<1>5. ASSUME NEW k \in 1..n, NEW i, i = SetToSeq(Items)[k]
      PROVE  Legal(m, R, {}, ss[k]) /\ Published1("typed", Envelope(r, i, BodyBlob(i))) \in Range(ss[k])
    <2>1. i \in Items
        BY <1>4, <1>5
    <2>2. ss[k] = Put(BodyBlob(i)) \o Publish("typed", Envelope(r, i, BodyBlob(i)))
        BY <1>1, <1>5 DEF EmitTypecheckedItem
    <2> HIDE DEF ss
    <2> QED BY <1>1, <2>1, <2>2, ItemLegal
<1>6. /\ Legal(m, R, {}, s3)
      /\ \A i \in Items : Published1("typed", Envelope(r, i, BodyBlob(i))) \in Range(s3)
    <2>1. ss \in [1..n -> Range(ss)]
        BY DEF Range
    <2>2. \A k \in 1..n : Legal(m, R, {}, ss[k])
        BY <1>5
    <2>a. n \in Nat
        BY <1>4
    <2> HIDE DEF ss, n
    <2>b. Legal(m, R, {}, s2 \o FlattenSeq(ss))
        BY <1>3, <2>a, <2>1, <2>2, NextEach
    <2>c. Range(s2 \o FlattenSeq(ss)) = Range(s2) \cup UNION {Range(ss[k]) : k \in 1..n}
        BY <1>3, <2>a, <2>1, <2>2, NextEach
    <2>3. /\ Legal(m, R, {}, s2 \o FlattenSeq(ss))
          /\ Range(s2 \o FlattenSeq(ss)) = Range(s2) \cup UNION {Range(ss[k]) : k \in 1..n}
        BY <2>b, <2>c
    <2>4. ASSUME NEW i \in Items PROVE Published1("typed", Envelope(r, i, BodyBlob(i))) \in Range(s3)
        <3>1. PICK k \in 1..n : SetToSeq(Items)[k] = i
            BY <1>4
        <3>2. Published1("typed", Envelope(r, i, BodyBlob(i))) \in Range(ss[k])
            BY <1>5, <3>1
        <3> QED BY <2>3, <3>2
    <2> QED BY <2>3, <2>4
<1>7. ProcessTypecheck(m) = s4
    BY DEF ProcessTypecheck, ForEach, s1, s2
<1> HIDE DEF s3, ss
<1>8. Legal(m, R, {}, s4)
    <2>1. HandsOver(Range(s3), m.run, "typecheck")
        BY <1>1, <1>6 DEF HandsOver, ReportedStages
    <2> QED BY <1>6, <2>1, NextReport DEF TypecheckStatus
<1> QED BY <1>7, <1>8

\* The graph worker.
LEMMA ExtractProper ==
    ASSUME NEW m \in ItemOrders, WorkersAssumption
    PROVE  Proper(m, ExtractRun(m))
<1>0. PICK r \in RunIds, i \in Items : m = Envelope(r, i, BodyBlob(i))
    BY DEF ItemOrders
<1>1. m.run = r /\ m.item = i /\ m.blob = BodyBlob(i)
    BY <1>0 DEF Envelope
<1> SUFFICES ASSUME NEW R PROVE Legal(m, R, {}, ExtractItem(m))
    BY ProperCommit DEF ExtractRun
<1> DEFINE U == Uses[i]
           n == Cardinality(U)
           ss == [k \in 1..n |-> EmitRelation(m, SetToSeq(U)[k])]
           s1 == ExtractStatus(m, "processing")
           s2 == s1 \o GraphResolveBody(m)
           s3 == s2 \o FlattenSeq(ss)
           s4 == s3 \o EmitEmbedCommand(m)
           s5 == s4 \o ExtractStatus(m, "done")
<1>2. Legal(m, R, {}, s1)
    BY FirstReport DEF ExtractStatus
<1> HIDE DEF s1
<1>3. Legal(m, R, {}, s2)
    BY <1>2, NextGet DEF GraphResolveBody
<1> HIDE DEF s2
<1>4. /\ n \in Nat
      /\ \A k \in 1..n : SetToSeq(U)[k] \in Items
    <2>1. U \subseteq Items /\ IsFiniteSet(U)
        BY FS_Subset DEF WorkersAssumption
    <2> HIDE DEF U
    <2> QED BY <2>1, SetListed
<1>5. ASSUME NEW k \in 1..n PROVE Legal(m, R, {}, ss[k])
    <2> DEFINE j == SetToSeq(U)[k]
               x == [run |-> r, item |-> i, to |-> j, blob |-> NoBlob, attempt |-> 0]
               e == Published1("relation", x)
    <2>1. j \in Items
        BY <1>4
    <2>2. ss[k] = <<e>>
        BY <1>1 DEF EmitRelation, Publish, Published1
    <2> HIDE DEF ss, j
    <2>3. x \in Orders("relation") /\ x.blob = NoBlob /\ "relation" \in Topics
        BY <2>1, OrdersOf DEF RelationOrders, Topics
    <2>4. May(m, R, {}, e)
        BY <2>3 DEF May, Published1
    <2> HIDE DEF e
    <2> QED BY <2>2, <2>4, LegalOne
<1>6. Legal(m, R, {}, s3)
    <2>1. ss \in [1..n -> Range(ss)]
        BY DEF Range
    <2> HIDE DEF ss, U
    <2> QED BY <1>3, <1>4, <1>5, <2>1, NextEach
<1>7. ExtractItem(m) = s5
    BY <1>1 DEF ExtractItem, ForEach, s1, s2
<1> HIDE DEF s3, ss
<1>8. /\ Legal(m, R, {}, s4)
      /\ Range(s4) = Range(s3) \cup {Published1("embed", Envelope(r, i, BodyBlob(i)))}
    <2> DEFINE x == Envelope(r, i, BodyBlob(i))
    <2>1. x \in Orders("embed") /\ x.blob = m.blob /\ "embed" \in Topics
        BY <1>1, OrdersOf DEF ItemOrders, Topics, Envelope
    <2>2. EmitEmbedCommand(m) = Publish("embed", x)
        BY <1>1 DEF EmitEmbedCommand
    <2> HIDE DEF x
    <2>3. /\ Legal(m, R, {}, s3 \o Publish("embed", x))
          /\ Range(s3 \o Publish("embed", x)) = Range(s3) \cup {Published1("embed", x)}
        BY <1>6, <2>1, NextPublish
    <2> QED BY <2>2, <2>3 DEF x
<1> HIDE DEF s4
<1>9. Legal(m, R, {}, s5)
    <2>1. HandsOver(Range(s4), m.run, "extract")
        BY <1>1, <1>8 DEF HandsOver, ReportedStages
    <2> QED BY <1>8, <2>1, NextReport DEF ExtractStatus
<1> QED BY <1>7, <1>9

\* The embedding worker.
LEMMA EmbedProper ==
    ASSUME NEW m \in ItemOrders
    PROVE  Proper(m, EmbedRun(m))
<1> SUFFICES ASSUME NEW R PROVE Legal(m, R, {}, EmbedItem(m))
    BY ProperCommit DEF EmbedRun
<1> DEFINE s1 == EmbedStatus(m, "processing")
           s2 == s1 \o QdrantStatus(m, "processing")
           s3 == s2 \o EmbedResolveBody(m)
           s4 == s3 \o CallOllama(m)
           s5 == s4 \o UpsertVector(m)
           s6 == s5 \o QdrantStatus(m, "done")
           s7 == s6 \o EmbedStatus(m, "done")
<1>1. Legal(m, R, {}, s1)
    BY FirstReport DEF EmbedStatus
<1> HIDE DEF s1
<1>2. Legal(m, R, {}, s2)
    BY <1>1, NextReport DEF QdrantStatus
<1> HIDE DEF s2
<1>3. Legal(m, R, {}, s3)
    BY <1>2, NextGet DEF EmbedResolveBody
<1> HIDE DEF s3
<1>4. Legal(m, R, {}, s4)
    BY <1>3, NextNeed DEF CallOllama
<1> HIDE DEF s4
<1>5. Legal(m, R, {}, s5) /\ Range(s5) = Range(s4) \cup {Written1("vectors", m.item)}
    <2>1. "vectors" \in Tables /\ "vectors" # "edges"
        BY DEF Tables
    <2> QED BY <1>4, <2>1, NextWrite DEF UpsertVector
<1> HIDE DEF s5
<1>6. HandsOver(Range(s5), m.run, "project_qdrant") /\ HandsOver(Range(s5), m.run, "embed")
    BY <1>5 DEF HandsOver, ReportedStages
<1>7. Legal(m, R, {}, s6) /\ Range(s5) \subseteq Range(s6)
    BY <1>5, <1>6, NextReport DEF QdrantStatus
<1> HIDE DEF s6
<1>8. HandsOver(Range(s6), m.run, "embed")
    BY <1>5, <1>7 DEF HandsOver, ReportedStages
<1>9. Legal(m, R, {}, s7)
    BY <1>7, <1>8, NextReport DEF EmbedStatus
<1> QED BY <1>9 DEF EmbedItem, s1, s2, s3, s4, s5, s6

(* A projection to Postgres: the row, the commit, the report. *)
LEMMA RowProper ==
    ASSUME NEW m, NEW t \in {"code_files", "code_symbols", "code_relations"}, NEW x
    PROVE  Proper(m, PgStatus(m, "processing") \o Write(t, x) \o CommitOffset(m) \o PgStatus(m, "done"))
<1> DEFINE s1 == PgStatus(m, "processing")
           s2 == s1 \o Write(t, x)
<1>1. t \in Tables /\ t # "edges"
    BY DEF Tables
<1>2. ASSUME NEW R PROVE Legal(m, R, {}, s2) /\ Range(s2) = Range(s1) \cup {Written1(t, x)}
    <2>1. Legal(m, R, {}, s1)
        BY FirstReport DEF PgStatus
    <2> HIDE DEF s1
    <2> QED BY <1>1, <2>1, NextWrite
<1>3. HandsOver(Range(s2), m.run, "project_pg")
    BY <1>2 DEF HandsOver, ReportedStages
<1> HIDE DEF s1, s2
<1>4. Proper(m, (s2 \o CommitOffset(m)) \o ReportStep(m, "project_pg", "done", FALSE))
    BY <1>2, <1>3, ProperCommit
<1> QED BY <1>4 DEF s1, s2, PgStatus

\* All its handlers.
LEMMA PgProper ==
    /\ \A m : Proper(m, HandleSourceFile(m))
    /\ \A m : Proper(m, HandleParsedItem(m))
    /\ \A m : Proper(m, HandleRelation(m))
<1>1. \A m : Proper(m, HandleSourceFile(m))
    BY RowProper DEF HandleSourceFile, WriteSourceFile
<1>2. \A m : Proper(m, HandleParsedItem(m))
    BY RowProper DEF HandleParsedItem, WriteParsedItem
<1>3. \A m : Proper(m, HandleRelation(m))
    BY RowProper DEF HandleRelation, WritePgRelation
<1> QED BY <1>1, <1>2, <1>3

\* Concatenation, for the longest handler, that of the Neo4j projector.
Cat(s, t) == s \o t

\* It is associative.
LEMMA CatLaws ==
    /\ \A s, t, u : IsList(s) /\ IsList(t) /\ IsList(u) => Cat(Cat(s, t), u) = Cat(s, Cat(t, u))
    /\ \A s, t : IsList(s) /\ IsList(t) => IsList(Cat(s, t))
<1>1. ASSUME NEW s, NEW t, NEW u, IsList(s), IsList(t), IsList(u)
      PROVE  Cat(Cat(s, t), u) = Cat(s, Cat(t, u))
    <2>1. (s \o t) \o u = s \o (t \o u)
        BY <1>1, ListLaws
    <2> QED BY <2>1 DEF Cat
<1>2. ASSUME NEW s, NEW t, IsList(s), IsList(t) PROVE IsList(Cat(s, t))
    BY <1>2, Lists DEF Cat
<1> QED BY <1>1, <1>2

\* Five parts at the end are one.
LEMMA Regroup ==
    ASSUME NEW s, NEW a, NEW b, NEW c, NEW d, NEW e,
           IsList(s), IsList(a), IsList(b), IsList(c), IsList(d), IsList(e)
    PROVE  Cat(Cat(Cat(Cat(Cat(s, a), b), c), d), e) = Cat(s, Cat(Cat(Cat(Cat(a, b), c), d), e))
<1>1. IsList(Cat(a, b)) /\ IsList(Cat(Cat(a, b), c)) /\ IsList(Cat(Cat(Cat(a, b), c), d))
    BY CatLaws
<1>2. Cat(Cat(s, a), b) = Cat(s, Cat(a, b))
    BY CatLaws
<1>3. Cat(Cat(s, Cat(a, b)), c) = Cat(s, Cat(Cat(a, b), c))
    BY <1>1, CatLaws
<1>4. Cat(Cat(s, Cat(Cat(a, b), c)), d) = Cat(s, Cat(Cat(Cat(a, b), c), d))
    BY <1>1, CatLaws
<1>5. Cat(Cat(s, Cat(Cat(Cat(a, b), c), d)), e) = Cat(s, Cat(Cat(Cat(Cat(a, b), c), d), e))
    BY <1>1, CatLaws
<1> QED BY <1>2, <1>3, <1>4, <1>5

\* The Neo4j projector, with any number of type instances to try.
LEMMA Neo4jProper ==
    ASSUME NEW m, NEW q, NEW cap
    PROVE  Proper(m, HandleEnvelope(m, q, cap))
<1> DEFINE s0 == Neo4jStatus(m, "processing")
           s1 == s0 \o CountTypeInstances(m)
           k == CommitOffset(m)
<1>1. IsList(k) /\ IsList(s0)
    BY Lists DEF CommitOffset, Neo4jStatus, ReportStep
<1>2. \A R : Legal(m, R, {}, s1)
    <2>1. \A R : Legal(m, R, {}, s0)
        BY FirstReport DEF Neo4jStatus
    <2>2. s0 \o <<>> = s0
        BY <1>1, Lists
    <2> HIDE DEF s0
    <2>3. CASE m.item \in Mono
        BY <2>1, <2>3, NextNeed DEF CountTypeInstances
    <2>4. CASE m.item \notin Mono
        BY <2>1, <2>2, <2>4 DEF CountTypeInstances
    <2> QED BY <2>3, <2>4
<1>5. IsList(s1)
    BY <1>2 DEF Legal
<1>3. CASE Capped(m, q, cap)
    <2> DEFINE f == Neo4jStatus(m, "failed")
    <2>1. IsList(f)
        BY Lists DEF Neo4jStatus, ReportStep
    <2>2. HandleEnvelope(m, q, cap) = s1 \o (f \o k)
        BY <1>3 DEF HandleEnvelope
    <2>3. \A R : Legal(m, R, {}, s1 \o f)
        BY <1>2, NextReport DEF Neo4jStatus
    <2> HIDE DEF s1, f
    <2>4. Proper(m, (s1 \o f) \o k)
        BY <2>3, ProperCommit
    <2>5. (s1 \o f) \o k = s1 \o (f \o k)
        BY <1>1, <1>5, <2>1, ListLaws
    <2> QED BY <2>2, <2>4, <2>5
<1>4. CASE ~Capped(m, q, cap)
    <2>1. PICK a, b : /\ WriteNeo4jRelation(m) = Write("nodes", a) \o Write("nodes", b) \o Write("edges", <<m.item, m.to>>)
                      /\ a[2] = m.item /\ b[2] = m.to
        <3>1. CASE m.item \in Mono
            <4> DEFINE a == <<"TypeInstance", m.item, m.to>>
                       b == <<"TypeDef", m.to, NoItem>>
            <4>1. WriteNeo4jRelation(m) = Write("nodes", a) \o Write("nodes", b) \o Write("edges", <<m.item, m.to>>)
                BY <3>1 DEF WriteNeo4jRelation, WriteTypeInstance
            <4>2. a[2] = m.item /\ b[2] = m.to
                OBVIOUS
            <4> QED BY <4>1, <4>2
        <3>2. CASE m.item \notin Mono
            <4> DEFINE a == <<"Item", m.item, NoItem>>
                       b == <<"Item", m.to, NoItem>>
            <4>1. WriteNeo4jRelation(m) = Write("nodes", a) \o Write("nodes", b) \o Write("edges", <<m.item, m.to>>)
                BY <3>2 DEF WriteNeo4jRelation, WriteItemRelation
            <4>2. a[2] = m.item /\ b[2] = m.to
                OBVIOUS
            <4> QED BY <4>1, <4>2
        <3> QED BY <3>1, <3>2
    <2> DEFINE x == <<m.item, m.to>>
               w1 == Write("nodes", a)
               w2 == Write("nodes", b)
               w3 == Write("edges", x)
               d == Neo4jStatus(m, "done")
               s2 == s1 \o w1
               s3 == s2 \o w2
               s4 == s3 \o w3
               s5 == s4 \o d
    <2>2. x[1] = m.item /\ x[2] = m.to
        OBVIOUS
    <2>3. IsList(w1) /\ IsList(w2) /\ IsList(w3) /\ IsList(d)
        BY Lists DEF Write, Neo4jStatus, ReportStep
    <2>4. HandleEnvelope(m, q, cap) = s1 \o ((((w1 \o w2) \o w3) \o d) \o k)
        BY <1>4, <2>1 DEF HandleEnvelope
    <2>5. "nodes" \in Tables /\ "edges" \in Tables /\ "nodes" # "edges"
        BY DEF Tables
    <2>6. ASSUME NEW R PROVE Legal(m, R, {}, s5)
        <3> HIDE DEF s1, x
        <3>1. Legal(m, R, {}, s2) /\ Range(s2) = Range(s1) \cup {Written1("nodes", a)}
            BY <1>2, <2>5, NextWrite
        <3> HIDE DEF s2
        <3>2. Legal(m, R, {}, s3) /\ Range(s3) = Range(s2) \cup {Written1("nodes", b)}
            BY <2>5, <3>1, NextWrite
        <3> HIDE DEF s3
        <3>3. \E u, v : Written1("nodes", u) \in Range(s3) /\ Written1("nodes", v) \in Range(s3)
                        /\ u[2] = x[1] /\ v[2] = x[2]
            BY <2>1, <2>2, <3>1, <3>2
        <3>4. Legal(m, R, {}, s4) /\ Range(s4) = Range(s3) \cup {Written1("edges", x)}
            BY <2>5, <3>2, <3>3, NextWrite
        <3> HIDE DEF s4
        <3>5. HandsOver(Range(s4), m.run, "project_neo4j")
            BY <3>4 DEF HandsOver, ReportedStages
        <3> QED BY <3>4, <3>5, NextReport DEF Neo4jStatus
    <2> HIDE DEF s1, w1, w2, w3, d, k
    <2>7. Proper(m, s5 \o k)
        <3> HIDE DEF s5
        <3> QED BY <2>6, ProperCommit DEF k
    <2>8. s5 \o k = s1 \o ((((w1 \o w2) \o w3) \o d) \o k)
        <3>1. Cat(Cat(Cat(Cat(Cat(s1, w1), w2), w3), d), k) = Cat(s1, Cat(Cat(Cat(Cat(w1, w2), w3), d), k))
            BY <1>1, <1>5, <2>3, Regroup
        <3> QED BY <3>1 DEF Cat
    <2> QED BY <2>4, <2>7, <2>8
<1> QED BY <1>3, <1>4

\* What a consumer runs; only the Neo4j projector's depends on the type instances.
LEMMA HandlerIs ==
    /\ \A c, m : Handler(c, m) = HandlerAt(c, m, Cardinality(TypeInstances))
    /\ \A c \in Consumers \ {"neo4j"} : \A m, p, q : HandlerAt(c, m, p) = HandlerAt(c, m, q)
<1>1. \A c, m : Handler(c, m) = HandlerAt(c, m, Cardinality(TypeInstances))
    BY DEF Handler, HandlerAt
<1>2. \A c \in Consumers \ {"neo4j"} : \A m, p, q : HandlerAt(c, m, p) = HandlerAt(c, m, q)
    BY DEF HandlerAt, Consumers
<1> QED BY <1>1, <1>2

\* So every handler is proper, of every message on its topic.
LEMMA HandlersProper ==
    ASSUME WorkersAssumption, NEW c \in Consumers, NEW m \in Orders(TopicOf[c]), NEW q
    PROVE  Proper(m, HandlerAt(c, m, q))
<1>1. CASE c = "clone"
    <2>1. m \in CloneOrders /\ HandlerAt(c, m, q) = CloneRun(m)
        BY <1>1, OrdersOf DEF HandlerAt, TopicOf, Consumers
    <2> QED BY <2>1, CloneProper
<1>2. CASE c = "expand"
    <2>1. m \in RunOrders /\ HandlerAt(c, m, q) = ExpandRun(m)
        BY <1>2, OrdersOf DEF HandlerAt, TopicOf, Consumers
    <2> QED BY <2>1, ExpandProper
<1>3. CASE c = "parse"
    <2>1. m \in RunOrders /\ HandlerAt(c, m, q) = ParseRun(m)
        BY <1>3, OrdersOf DEF HandlerAt, TopicOf, Consumers
    <2> QED BY <2>1, ParseProper
<1>4. CASE c = "typecheck"
    <2>1. m \in RunOrders /\ HandlerAt(c, m, q) = TypecheckRun(m)
        BY <1>4, OrdersOf DEF HandlerAt, TopicOf, Consumers
    <2> QED BY <2>1, TypecheckProper
<1>5. CASE c = "graph"
    <2>1. m \in ItemOrders /\ HandlerAt(c, m, q) = ExtractRun(m)
        BY <1>5, OrdersOf DEF HandlerAt, TopicOf, Consumers
    <2> QED BY <2>1, ExtractProper
<1>6. CASE c = "embed"
    <2>1. m \in ItemOrders /\ HandlerAt(c, m, q) = EmbedRun(m)
        BY <1>6, OrdersOf DEF HandlerAt, TopicOf, Consumers
    <2> QED BY <2>1, EmbedProper
<1>7. CASE c \in {"pg_source", "pg_items", "pg_relations"}
    <2>1. HandlerAt(c, m, q) \in {HandleSourceFile(m), HandleParsedItem(m), HandleRelation(m)}
        BY <1>7 DEF HandlerAt
    <2> QED BY <2>1, PgProper
<1>8. CASE c = "neo4j"
    <2>1. HandlerAt(c, m, q) = HandleEnvelope(m, q, Cap)
        BY <1>8 DEF HandlerAt
    <2> QED BY <2>1, Neo4jProper
<1> QED BY <1>1, <1>2, <1>3, <1>4, <1>5, <1>6, <1>7, <1>8 DEF Consumers

(* A failed handler reports the failure of its stage, and that is all. *)
LEMMA ErrorArmIs ==
    ASSUME NEW c \in Consumers, NEW m, m.attempt = 0
    PROVE  /\ c = "neo4j" => ErrorArm(c, m) = <<>>
           /\ c # "neo4j" => ErrorArm(c, m) =
                <<[do |-> "report", on |-> "status", what |-> Report(m, StageOf(c), "failed"), must |-> FALSE]>>
<1>1. RetryOrBury(m) = <<>>
    BY DEF RetryOrBury, IsTerminal, MAX_ATTEMPTS
<1>2. \A stage : ReportStep(m, stage, "failed", FALSE) \o <<>> = ReportStep(m, stage, "failed", FALSE)
    BY Lists DEF ReportStep
<1>3. "failed" # "done"
    OBVIOUS
<1>4. CASE c \in {"clone", "expand", "parse", "typecheck"}
    BY <1>1, <1>2, <1>4 DEF ErrorArm, StageOf, CloneFailed, ExpandFailed, ParseFailed, TypecheckFailed,
        CloneStatus, ExpandStatus, ParseStatus, TypecheckStatus, ReportStep
<1>5. CASE c \in {"graph", "embed"}
    BY <1>1, <1>2, <1>5 DEF ErrorArm, StageOf, ExtractFailed, EmbedFailed, ExtractStatus, EmbedStatus, ReportStep
<1>6. CASE c \in {"pg_source", "pg_items", "pg_relations"}
    BY <1>6 DEF ErrorArm, StageOf, PgFailed, PgStatus, ReportStep
<1>7. CASE c = "neo4j"
    BY <1>7 DEF ErrorArm, Neo4jFailed
<1> QED BY <1>4, <1>5, <1>6, <1>7 DEF Consumers

----------------------------------------------------------------------------
(* The inductive invariant. *)

(* Everything required of the handler of m has been had, if it ran with q   *)
(* type instances.                                                          *)
Done(c, m, q) == \A k \in DOMAIN HandlerAt(c, m, q) :
                    HandlerAt(c, m, q)[k].must => InEffect(HandlerAt(c, m, q)[k])

(* What is left to do is the rest of the handler, and what it required so   *)
(* far it has had; or it is the report that the handler failed.             *)
RunsFrom(c, q, n) ==
    /\ q <= Cardinality(TypeInstances)
    /\ IsList(todo[c]) /\ Len(todo[c]) > 0
    /\ n + Len(todo[c]) = Len(HandlerAt(c, Message(c), q))
    /\ \A k \in 1..Len(todo[c]) : todo[c][k] = HandlerAt(c, Message(c), q)[n + k]
    /\ \A k \in 1..n : HandlerAt(c, Message(c), q)[k].must => InEffect(HandlerAt(c, Message(c), q)[k])
\* It runs, with the instances there were when it fetched, or it reports its failure.
Running(c) == \E q \in Nat, n \in Nat : RunsFrom(c, q, n)
Failing(c) == errors >= 1 /\ c # "neo4j" /\ todo[c] = ErrorArm(c, Message(c))

(* A message that has been handled is done, or an error explains that it is *)
(* not.                                                                     *)
Explained(c, m) ==
    errors >= 1 /\ (errors >= 2 \/ c = "neo4j" \/ Report(m, StageOf(c), "failed") \in reports)
\* The k-th message of c's topic is either done or explained.
Settled(c, k) ==
    Produced(c, topic[TopicOf[c]][k]) \/ Explained(c, topic[TopicOf[c]][k])

\* Which topics, tables and consumers there are, and what their messages are.
Shape ==
    /\ deployed \subseteq Consumers
    /\ DOMAIN topic = Topics /\ topic = [t \in Topics |-> topic[t]]
    /\ \A t \in Topics : topic[t] \in Seq(Orders(t))
    /\ position \in [Consumers -> Nat] /\ committed \in [Consumers -> Nat]
    /\ inHand \in [Consumers -> Nat] /\ todo = [c \in Consumers |-> todo[c]]
    /\ tables = [t \in Tables |-> tables[t]]
    /\ \A e \in reports : e.st = "done" => e.stage \in ReportedStages
    /\ IsFiniteSet(TypeInstances)

\* Whatever is in hand is being run or has failed.
HandsAreGood == \A c \in Consumers : Busy(c) => Running(c) \/ Failing(c)
\* Every message that was handled, or committed past, is settled.
PastIsSettled ==
    \A c \in Consumers : \A k \in 1..position[c] :
        k # inHand[c] \/ k <= committed[c] => Settled(c, k)

\* The inductive invariant.
PipeInv ==
    /\ Shape /\ PipeTypeOK /\ BlobBeforeReference /\ DoneAfterHandOver /\ EdgeHasEnds
    /\ HandsAreGood /\ PastIsSettled

\* It is stronger than what is to be shown.
LEMMA PipeInvImplies == PipeInv => NothingLostSilently
<1> SUFFICES ASSUME PipeInv PROVE NothingLostSilently
    OBVIOUS
<1>1. ASSUME NEW c \in Consumers, NEW m \in Finished(c)
      PROVE  Produced(c, m) \/ Explained(c, m)
    <2>1. PICK k \in 1..committed[c] : m = topic[TopicOf[c]][k]
        BY <1>1 DEF Finished
    <2>2. k \in 1..position[c] /\ k <= committed[c]
        BY <1>1, <2>1 DEF PipeInv, Shape, PipeTypeOK
    <2>3. Settled(c, k)
        BY <1>1, <2>2 DEF PipeInv, PastIsSettled
    <2> QED BY <2>1, <2>3 DEF Settled
<1>2. errors \in Nat
    BY PipelineAssumption DEF PipeInv, PipeTypeOK, PipelineAssumption
<1>3. CrashLosesNothing
    BY <1>1, <1>2 DEF CrashLosesNothing, Explained
<1>4. LossIsReported
    <2>1. ASSUME errors <= 1, NEW c \in Consumers \ {"neo4j"}, NEW m \in Finished(c)
          PROVE  Produced(c, m) \/ Report(m, StageOf(c), "failed") \in reports
        BY <1>1, <1>2, <2>1 DEF Explained
    <2> QED BY <2>1 DEF LossIsReported
<1> QED BY <1>3, <1>4 DEF PipeInv, NothingLostSilently

(* What only grows. *)
Grown ==
    /\ \A t \in Topics : /\ Len(topic[t]) <= Len(topic'[t])
                         /\ \A k \in 1..Len(topic[t]) : topic'[t][k] = topic[t][k]
    /\ reports \subseteq reports' /\ blobs \subseteq blobs'
    /\ \A t \in Tables : tables[t] \subseteq tables'[t]
    /\ errors <= errors'

\* What is in effect stays so.
LEMMA GrownEffects ==
    ASSUME Shape, Shape', Grown,
           NEW e, e.do = "publish" => e.on \in Topics, e.do = "write" => e.on \in Tables, InEffect(e)
    PROVE  InEffect(e)'
<1>1. CASE e.do = "publish"
    <2>1. PICK k \in 1..Len(topic[e.on]) : topic[e.on][k] = e.what
        BY <1>1 DEF InEffect, InTopic
    <2>2. Len(topic[e.on]) \in Nat /\ Len(topic'[e.on]) \in Nat
        BY <1>1 DEF Shape
    <2>3. k \in 1..Len(topic'[e.on]) /\ topic'[e.on][k] = e.what
        BY <1>1, <2>1, <2>2 DEF Grown
    <2> QED BY <1>1, <2>3 DEF InEffect, InTopic
<1>2. CASE e.do = "report"
    BY <1>2 DEF InEffect, Grown
<1>3. CASE e.do = "put"
    BY <1>3 DEF InEffect, Grown
<1>4. CASE e.do = "write"
    BY <1>4 DEF InEffect, Grown
<1>5. CASE e.do \notin {"publish", "report", "put", "write"}
    BY <1>5 DEF InEffect
<1> QED BY <1>1, <1>2, <1>3, <1>4, <1>5

\* The type instances only become more.
LEMMA InstancesGrow ==
    ASSUME Shape, Shape', Grown
    PROVE  /\ Cardinality(TypeInstances) \in Nat /\ Cardinality(TypeInstances)' \in Nat
           /\ Cardinality(TypeInstances) <= Cardinality(TypeInstances)'
<1>1. TypeInstances \subseteq TypeInstances'
    BY DEF Grown, TypeInstances, Tables
<1>2. IsFiniteSet(TypeInstances) /\ IsFiniteSet(TypeInstances)'
    BY DEF Shape
<1> HIDE DEF TypeInstances
<1>3. Cardinality(TypeInstances) \in Nat /\ Cardinality(TypeInstances)' \in Nat
    BY <1>2, FS_CardinalityType
<1>4. Cardinality(TypeInstances) <= Cardinality(TypeInstances)'
    BY <1>1, <1>2, FS_Subset
<1> QED BY <1>3, <1>4

(* What a proper handler has in it. *)
LEMMA ProperSteps ==
    ASSUME NEW m, NEW h, Proper(m, h)
    PROVE  /\ IsList(h) /\ Len(h) \in Nat /\ Len(h) > 0 /\ DOMAIN h = 1..Len(h)
           /\ \A k \in 1..Len(h) : /\ h[k].do = "publish" => h[k].on \in Topics
                                   /\ h[k].do = "write" => h[k].on \in Tables
<1>1. PICK R : Legal(m, R, {}, h) /\ \A x \in Range(h) : x.must => x \in R
    BY DEF Proper
<1>2. IsList(h) /\ Len(h) \in Nat /\ DOMAIN h = 1..Len(h)
    BY <1>1, Lists DEF Legal
<1>3. Len(h) > 0
    <2>1. ASSUME Len(h) = 0 PROVE FALSE
        BY <1>2, <2>1 DEF Proper, Range
    <2> QED BY <1>2, <2>1
<1>4. ASSUME NEW k \in 1..Len(h) PROVE /\ h[k].do = "publish" => h[k].on \in Topics
                                       /\ h[k].do = "write" => h[k].on \in Tables
    <2>1. May(m, R, {} \cup Before(h, k), h[k])
        BY <1>1, <1>4 DEF Legal
    <2> QED BY <2>1 DEF May
<1> QED BY <1>2, <1>3, <1>4

\* What is done stays done, for the same instances.
LEMMA GrownDone ==
    ASSUME WorkersAssumption, Shape, Shape', Grown,
           NEW c \in Consumers, NEW m \in Orders(TopicOf[c]), NEW q, Done(c, m, q)
    PROVE  Done(c, m, q)'
<1> DEFINE h == HandlerAt(c, m, q)
<1>1. /\ DOMAIN h = 1..Len(h)
      /\ \A k \in 1..Len(h) : /\ h[k].do = "publish" => h[k].on \in Topics
                              /\ h[k].do = "write" => h[k].on \in Tables
    <2>1. Proper(m, h)
        BY HandlersProper
    <2> HIDE DEF h
    <2> QED BY <2>1, ProperSteps
<1>2. \A k \in 1..Len(h) : h[k].must => InEffect(h[k])
    BY <1>1 DEF Done
<1>3. ASSUME NEW k \in 1..Len(h), h[k].must PROVE InEffect(h[k])'
    <2>1. PICK e : e = h[k]
        OBVIOUS
    <2>2. InEffect(e)
        BY <1>2, <1>3, <2>1
    <2>3. InEffect(e)'
        BY <1>1, <2>1, <2>2, GrownEffects
    <2> QED BY <2>1, <2>3
<1> QED BY <1>1, <1>3 DEF Done

(* Projecting to the graph requires less when the cap is reached. *)
Musts(c, m, q) == {x \in Range(HandlerAt(c, m, q)) : x.must}
\* With more instances the Neo4j projector is required to do less.
LEMMA MustsShrink ==
    ASSUME NEW c \in Consumers, NEW m, NEW p \in Nat, NEW q \in Nat, p <= q
    PROVE  Musts(c, m, q) \subseteq Musts(c, m, p)
<1>1. CASE c # "neo4j"
    <2>1. HandlerAt(c, m, p) = HandlerAt(c, m, q)
        BY <1>1, HandlerIs
    <2> QED BY <2>1 DEF Musts
<1>2. CASE c = "neo4j"
    <2>0. HandlerAt(c, m, p) = HandleEnvelope(m, p, Cap) /\ HandlerAt(c, m, q) = HandleEnvelope(m, q, Cap)
        BY <1>2 DEF HandlerAt
    <2>1. CASE Capped(m, p, Cap) <=> Capped(m, q, Cap)
        <3>1. HandleEnvelope(m, p, Cap) = HandleEnvelope(m, q, Cap)
            BY <2>1 DEF HandleEnvelope
        <3>2. HandlerAt(c, m, p) = HandlerAt(c, m, q)
            BY <2>0, <3>1
        <3> QED BY <3>2 DEF Musts
    <2>2. CASE Capped(m, q, Cap) /\ ~Capped(m, p, Cap)
        <3> DEFINE a == Neo4jStatus(m, "processing") \o CountTypeInstances(m)
                   b == Neo4jStatus(m, "failed")
                   d == CommitOffset(m)
                   h == a \o (b \o d)
                   g == WriteNeo4jRelation(m) \o Neo4jStatus(m, "done") \o CommitOffset(m)
        <3>0. IsList(a) /\ IsList(g)
            <4>1. \A st : IsList(Neo4jStatus(m, st))
                BY Lists DEF Neo4jStatus, ReportStep
            <4>2. IsList(CountTypeInstances(m)) /\ IsList(CommitOffset(m))
                BY Lists DEF CountTypeInstances, Need, CommitOffset
            <4>3. \A table, row : IsList(Write(table, row))
                BY Lists DEF Write
            <4>4. IsList(WriteTypeInstance(m))
                BY <4>3, Lists DEF WriteTypeInstance
            <4>5. IsList(WriteItemRelation(m))
                BY <4>3, Lists DEF WriteItemRelation
            <4>6. IsList(WriteNeo4jRelation(m))
                BY <4>4, <4>5 DEF WriteNeo4jRelation
            <4>7. IsList(a)
                BY <4>1, <4>2, Lists
            <4>8. IsList(g)
                <5>1. IsList(Neo4jStatus(m, "done") \o CommitOffset(m))
                    BY <4>1, <4>2, Lists
                <5>2. IsList(WriteNeo4jRelation(m) \o Neo4jStatus(m, "done"))
                    BY <4>1, <4>6, Lists
                <5> QED BY <4>2, <5>1, <5>2, Lists
            <4> QED BY <4>7, <4>8
        <3>1. /\ IsList(b) /\ IsList(d)
              /\ \A x \in Range(b) : ~x.must
              /\ \A x \in Range(d) : ~x.must
            <4>1. \A s, st : [do |-> "report", on |-> "status", what |-> Report(s, "project_neo4j", st), must |-> FALSE].must = FALSE
                OBVIOUS
            <4>2. [do |-> "commit", on |-> "offsets", what |-> m, must |-> FALSE].must = FALSE
                OBVIOUS
            <4> QED BY <4>1, <4>2, Lists DEF Neo4jStatus, ReportStep, CommitOffset
        <3>2. HandleEnvelope(m, q, Cap) = h /\ HandleEnvelope(m, p, Cap) = a \o g
            BY <2>2 DEF HandleEnvelope
        <3> HIDE DEF a, b, d, g
        <3>3. /\ Range(h) = Range(a) \cup (Range(b) \cup Range(d))
              /\ Range(a \o g) = Range(a) \cup Range(g)
            BY <3>0, <3>1, Lists
        <3>4. \A x \in Range(h) : x.must => x \in Range(a \o g)
            BY <3>1, <3>3
        <3> HIDE DEF h
        <3> QED BY <2>0, <3>2, <3>4 DEF Musts
    <2>3. Capped(m, p, Cap) => Capped(m, q, Cap)
        BY PipelineAssumption DEF Capped, PipelineAssumption
    <2> QED BY <2>1, <2>2, <2>3
<1> QED BY <1>1, <1>2

\* Produced is done, with the instances there are.
LEMMA DoneIs ==
    /\ \A c, m, q : Done(c, m, q) <=> \A x \in Musts(c, m, q) : InEffect(x)
    /\ \A c, m : Produced(c, m) <=> Done(c, m, Cardinality(TypeInstances))
<1>1. \A c, m, q : Done(c, m, q) <=> \A x \in Musts(c, m, q) : InEffect(x)
    BY DEF Done, Musts, Range
<1>2. \A c, m : Produced(c, m) <=> Done(c, m, Cardinality(TypeInstances))
    BY HandlerIs DEF Produced, Done
<1> QED BY <1>1, <1>2

\* And after a step.
LEMMA DoneIsThen ==
    /\ \A c, m, q : Done(c, m, q)' <=> \A x \in Musts(c, m, q) : InEffect(x)'
    /\ \A c, m, q : q = Cardinality(TypeInstances)' => (Produced(c, m)' <=> Done(c, m, q)')
<1>1. \A c, m, q : Done(c, m, q)' <=> \A x \in Musts(c, m, q) : InEffect(x)'
    BY DEF Done, Musts, Range
<1>2. \A c, m : Handler(c, m)' = HandlerAt(c, m, Cardinality(TypeInstances)')
    BY DEF Handler, HandlerAt
<1>3. \A c, m, q : q = Cardinality(TypeInstances)' => (Produced(c, m)' <=> Done(c, m, q)')
    BY <1>2 DEF Produced, Done
<1> QED BY <1>1, <1>3

\* What is produced stays produced.
LEMMA GrownProduced ==
    ASSUME WorkersAssumption, Shape, Shape', Grown,
           NEW c \in Consumers, NEW m \in Orders(TopicOf[c]), Produced(c, m)
    PROVE  Produced(c, m)'
<1>1. PICK p : p = Cardinality(TypeInstances)
    OBVIOUS
<1>2. p \in Nat /\ Cardinality(TypeInstances)' \in Nat /\ p <= Cardinality(TypeInstances)'
    BY <1>1, InstancesGrow
<1>3. Done(c, m, p)
    BY <1>1, DoneIs
<1>4. Done(c, m, p)'
    BY <1>3, GrownDone
<1>5. PICK q : q = Cardinality(TypeInstances)'
    OBVIOUS
<1>6. Musts(c, m, q) \subseteq Musts(c, m, p)
    BY <1>2, <1>5, MustsShrink
<1>7. Done(c, m, q)'
    BY <1>4, <1>6, DoneIsThen
<1> QED BY <1>5, <1>7, DoneIsThen

----------------------------------------------------------------------------
(* An effect. *)

\* No message is another attempt.
LEMMA OrdersPlain == \A t : \A x \in Orders(t) : x.attempt = 0
<1>1. \A x \in CloneOrders \cup FileOrders : x.attempt = 0
    BY DEF CloneOrders, FileOrders, Envelope
<1>2. \A x \in RunOrders : x.attempt = 0
    BY DEF RunOrders, Envelope
<1>3. \A x \in ItemOrders : x.attempt = 0
    BY DEF ItemOrders, Envelope
<1>4. \A x \in RelationOrders : x.attempt = 0
    BY DEF RelationOrders
<1> QED BY <1>1, <1>2, <1>3, <1>4 DEF Orders

\* A busy consumer has the message at its position in hand.
LEMMA InHandIs ==
    ASSUME PipeInv, NEW c \in Consumers, Busy(c)
    PROVE  /\ TopicOf[c] \in Topics
           /\ inHand[c] = position[c] /\ inHand[c] \in 1..Len(topic[TopicOf[c]])
           /\ Message(c) \in Orders(TopicOf[c])
<1>1. TopicOf[c] \in Topics
    BY DEF TopicOf, Consumers, Topics
<1>2. inHand[c] = position[c] /\ inHand[c] \in 1..Len(topic[TopicOf[c]])
    BY <1>1 DEF PipeInv, PipeTypeOK, Shape, Busy
<1>3. topic[TopicOf[c]] \in Seq(Orders(TopicOf[c]))
    BY <1>1 DEF PipeInv, Shape
<1>4. Message(c) \in Orders(TopicOf[c])
    BY <1>2, <1>3 DEF Message
<1> QED BY <1>1, <1>2, <1>4

\* It may have the next effect now, and at the commit its message is produced.
LEMMA HandReady ==
    ASSUME WorkersAssumption, PipeInv, NEW c \in Consumers, Busy(c)
    PROVE  /\ IsList(todo[c]) /\ Len(todo[c]) \in Nat /\ Len(todo[c]) > 0
           /\ \E A : /\ May(Message(c), {}, A, todo[c][1])
                     /\ \A x \in A : x.must => InEffect(x)
           /\ todo[c][1].do = "commit" => Produced(c, Message(c))
<1> DEFINE m == Message(c)
<1>0. m \in Orders(TopicOf[c])
    BY InHandIs
<1>1. CASE Running(c)
    <2>1. PICK q \in Nat, n \in Nat : RunsFrom(c, q, n)
        BY <1>1 DEF Running
    <2> DEFINE h == HandlerAt(c, m, q)
    <2>2. Proper(m, h)
        BY <1>0, HandlersProper
    <2> HIDE DEF m
    <2>3. /\ q <= Cardinality(TypeInstances)
          /\ IsList(todo[c]) /\ Len(todo[c]) > 0 /\ n + Len(todo[c]) = Len(h)
          /\ \A k \in 1..Len(todo[c]) : todo[c][k] = h[n + k]
          /\ \A k \in 1..n : h[k].must => InEffect(h[k])
        BY <2>1 DEF RunsFrom, m
    <2> HIDE DEF h
    <2>4. PICK R : Legal(m, R, {}, h) /\ \A x \in Range(h) : x.must => x \in R
        BY <2>2 DEF Proper
    <2>5. Len(todo[c]) \in Nat /\ Len(h) \in Nat /\ DOMAIN h = 1..Len(h)
        BY <2>3, <2>4, Lists DEF Legal
    <2>6. n + 1 \in 1..Len(h) /\ todo[c][1] = h[n + 1]
        BY <2>3, <2>5
    <2> DEFINE A == {} \cup Before(h, n + 1)
    <2>7. May(m, R, A, h[n + 1])
        BY <2>4, <2>6 DEF Legal
    <2>8. \A x \in A : x.must => InEffect(x)
        <3>1. (n + 1) - 1 = n
            OBVIOUS
        <3> QED BY <2>3, <3>1 DEF Before
    <2>9. ASSUME h[n + 1].do = "commit" PROVE Produced(c, m)
        <3>1. R \subseteq A
            BY <2>7, <2>9 DEF May
        <3>2. \A x \in Range(h) : x.must => InEffect(x)
            BY <2>4, <2>8, <3>1
        <3>3. \A x \in Musts(c, m, q) : InEffect(x)
            BY <3>2 DEF Musts, h
        <3>4. PICK p : p = Cardinality(TypeInstances)
            OBVIOUS
        <3>5. p \in Nat
            BY <3>4, FS_CardinalityType DEF PipeInv, Shape
        <3>6. Musts(c, m, p) \subseteq Musts(c, m, q)
            BY <2>3, <3>4, <3>5, MustsShrink
        <3> QED BY <3>3, <3>4, <3>6, DoneIs
    <2>10. May(m, {}, A, h[n + 1])
        BY <2>7 DEF May
    <2> QED BY <2>3, <2>5, <2>6, <2>8, <2>9, <2>10 DEF m
<1>2. CASE Failing(c)
    <2> DEFINE f == [do |-> "report", on |-> "status", what |-> Report(m, StageOf(c), "failed"), must |-> FALSE]
    <2>1. todo[c] = <<f>>
        BY <1>0, <1>2, ErrorArmIs, OrdersPlain DEF Failing
    <2>2. May(m, {}, {}, f) /\ f.do # "commit"
        BY DEF May, Report
    <2> HIDE DEF f, m
    <2>3. IsList(<<f>>) /\ Len(<<f>>) = 1 /\ <<f>>[1] = f
        BY Lists
    <2> QED BY <2>1, <2>2, <2>3 DEF m
<1> QED BY <1>1, <1>2 DEF PipeInv, HandsAreGood

\* What its effects hand over is handed over.
LEMMA HandsOverHanded ==
    ASSUME NEW A, \A x \in A : x.must => InEffect(x), NEW r, NEW stage, HandsOver(A, r, stage)
    PROVE  Handed(r, stage)
<1>1. \A t, x : Published1(t, x) \in A => InTopic(t, x)
    BY DEF InEffect, Published1
<1>2. \A t, x : Written1(t, x) \in A => x \in tables[t]
    BY DEF InEffect, Written1
<1>3. CASE stage = "clone"
    BY <1>1, <1>3 DEF HandsOver, Handed
<1>4. CASE stage = "expand"
    BY <1>1, <1>4 DEF HandsOver, Handed
<1>5. CASE stage = "parse"
    BY <1>1, <1>5 DEF HandsOver, Handed
<1>6. CASE stage = "typecheck"
    BY <1>1, <1>6 DEF HandsOver, Handed
<1>7. CASE stage = "extract"
    BY <1>1, <1>7 DEF HandsOver, Handed
<1>8. CASE stage \in {"embed", "project_qdrant"}
    BY <1>2, <1>8 DEF HandsOver, Handed
<1>9. CASE stage = "project_pg"
    BY <1>2, <1>9 DEF HandsOver, Handed
<1>10. CASE stage = "project_neo4j"
    BY <1>2, <1>10 DEF HandsOver, Handed
<1> QED BY <1>3, <1>4, <1>5, <1>6, <1>7, <1>8, <1>9, <1>10 DEF HandsOver, ReportedStages

\* And stays so.
LEMMA HandedStays ==
    ASSUME Shape, Shape', Grown, NEW r, NEW stage \in ReportedStages, Handed(r, stage)
    PROVE  Handed(r, stage)'
<1>1. ASSUME NEW t \in Topics, NEW x, InTopic(t, x) PROVE InTopic(t, x)'
    <2>1. PICK k \in 1..Len(topic[t]) : topic[t][k] = x
        BY <1>1 DEF InTopic
    <2>2. Len(topic[t]) \in Nat /\ Len(topic'[t]) \in Nat
        BY DEF Shape
    <2>3. k \in 1..Len(topic'[t]) /\ topic'[t][k] = x
        BY <2>1, <2>2 DEF Grown
    <2> QED BY <2>3 DEF InTopic
<1>2. \A t \in Tables : tables[t] \subseteq tables'[t]
    BY DEF Grown
<1>3. {"source", "expand", "parse", "typecheck", "parsed", "typed", "embed"} \subseteq Topics
    BY DEF Topics
<1>4. {"vectors", "code_files", "code_symbols", "code_relations", "edges"} \subseteq Tables
    BY DEF Tables
<1>5. CASE stage = "clone"
    BY <1>1, <1>3, <1>5 DEF Handed
<1>6. CASE stage = "expand"
    BY <1>1, <1>3, <1>6 DEF Handed
<1>7. CASE stage = "parse"
    BY <1>1, <1>3, <1>7 DEF Handed
<1>8. CASE stage = "typecheck"
    BY <1>1, <1>3, <1>8 DEF Handed
<1>9. CASE stage = "extract"
    BY <1>1, <1>3, <1>9 DEF Handed
<1>10. CASE stage \in {"embed", "project_qdrant"}
    BY <1>2, <1>4, <1>10 DEF Handed
<1>11. CASE stage = "project_pg"
    BY <1>2, <1>4, <1>11 DEF Handed
<1>12. CASE stage = "project_neo4j"
    BY <1>2, <1>4, <1>12 DEF Handed
<1> QED BY <1>5, <1>6, <1>7, <1>8, <1>9, <1>10, <1>11, <1>12 DEF ReportedStages

(* What an effect leaves alone when it fails. *)
Lost == UNCHANGED <<topic, reports, blobs, tables, dlq, committed>>

\* An effect only adds.
LEMMA PerformGrows ==
    ASSUME PipeInv, NEW c \in Consumers, Busy(c), NEW e, NEW A, May(Message(c), {}, A, e),
           Perform(c, e) \/ Lost,
           deployed' = deployed, position' = position,
           errors \in Nat, errors' \in Nat, errors <= errors',
           NEW rest, Finish(c, rest)
    PROVE  /\ Shape' /\ Grown
           /\ \A d \in Consumers : committed'[d] \in 0..position'[d]
           /\ Perform(c, e) => InEffect(e)'
           /\ \A d \in Consumers : d # c => committed'[d] = committed[d]
           /\ committed'[c] = committed[c] \/ (e.do = "commit" /\ committed'[c] = inHand[c])
<1> USE DEF May
<1>0. Shape /\ PipeTypeOK
    BY DEF PipeInv
<1>1. /\ DOMAIN topic' = Topics /\ topic' = [t \in Topics |-> topic'[t]]
      /\ \A t \in Topics : /\ topic'[t] \in Seq(Orders(t))
                           /\ Len(topic[t]) <= Len(topic'[t])
                           /\ \A k \in 1..Len(topic[t]) : topic'[t][k] = topic[t][k]
      /\ Perform(c, e) /\ e.do = "publish" => InTopic(e.on, e.what)'
    <2>0. /\ DOMAIN topic = Topics /\ topic = [t \in Topics |-> topic[t]]
          /\ \A t \in Topics : topic[t] \in Seq(Orders(t))
        BY <1>0 DEF Shape
    <2>1. CASE topic' = topic /\ ~(Perform(c, e) /\ e.do = "publish")
        <3>1. \A t \in Topics : Len(topic[t]) \in Nat
            BY <2>0
        <3> QED BY <2>0, <2>1, <3>1
    <2>2. CASE e.do = "publish" /\ topic' = [topic EXCEPT ![e.on] = Append(@, e.what)]
        <3>1. e.on \in Topics /\ e.what \in Orders(e.on)
            BY <2>2
        <3>2. DOMAIN topic' = Topics /\ topic' = [t \in Topics |-> topic'[t]]
            BY <2>0, <2>2
        <3>3. \A t \in Topics : t # e.on => topic'[t] = topic[t]
            BY <2>0, <2>2
        <3>4. topic'[e.on] = Append(topic[e.on], e.what)
            BY <2>0, <2>2, <3>1
        <3>5. topic[e.on] \in Seq(Orders(e.on)) /\ Len(topic[e.on]) \in Nat
            BY <2>0, <3>1
        <3>6. /\ topic'[e.on] \in Seq(Orders(e.on))
              /\ Len(topic'[e.on]) = Len(topic[e.on]) + 1
              /\ \A k \in 1..Len(topic[e.on]) : topic'[e.on][k] = topic[e.on][k]
              /\ topic'[e.on][Len(topic[e.on]) + 1] = e.what
            BY <3>1, <3>4, <3>5
        <3>7. ASSUME NEW t \in Topics
              PROVE  /\ topic'[t] \in Seq(Orders(t))
                     /\ Len(topic[t]) <= Len(topic'[t])
                     /\ \A k \in 1..Len(topic[t]) : topic'[t][k] = topic[t][k]
            <4>1. Len(topic[t]) \in Nat
                BY <2>0
            <4>2. CASE t = e.on
                BY <3>5, <3>6, <4>2
            <4>3. CASE t # e.on
                <5>1. topic'[t] = topic[t]
                    BY <3>3, <4>3
                <5> QED BY <2>0, <4>1, <5>1
            <4> QED BY <4>2, <4>3
        <3>8. InTopic(e.on, e.what)'
            <4>1. Len(topic[e.on]) + 1 \in 1..Len(topic'[e.on])
                BY <3>5, <3>6
            <4> QED BY <3>6, <4>1 DEF InTopic
        <3> QED BY <3>2, <3>7, <3>8
    <2> QED BY <2>1, <2>2 DEF Perform, Lost
<1>2. /\ reports \subseteq reports' /\ blobs \subseteq blobs'
      /\ \A x \in reports' : x \in reports \/ (e.do = "report" /\ x = e.what)
    BY DEF Perform, Lost
<1>3. \A x \in reports' : x.st = "done" => x.stage \in ReportedStages
    <2>1. e.do = "report" /\ e.what.st = "done" => e.what.stage \in ReportedStages
        BY DEF HandsOver
    <2> QED BY <1>0, <1>2, <2>1 DEF Shape
<1>4. /\ tables' = [t \in Tables |-> tables'[t]]
      /\ \A t \in Tables : tables'[t] = IF e.do = "write" /\ t = e.on /\ Perform(c, e)
                                        THEN tables[t] \cup {e.what} ELSE tables[t]
    <2>0. tables = [t \in Tables |-> tables[t]]
        BY <1>0 DEF Shape
    <2>1. CASE e.do = "write" /\ Perform(c, e)
        <3>1. tables' = [tables EXCEPT ![e.on] = @ \cup {e.what}] /\ e.on \in Tables
            BY <2>1 DEF Perform
        <3> QED BY <2>0, <2>1, <3>1
    <2>2. CASE ~(e.do = "write" /\ Perform(c, e))
        <3>1. tables' = tables
            BY <2>2 DEF Perform, Lost
        <3> QED BY <2>0, <2>2, <3>1
    <2> QED BY <2>1, <2>2
<1>5. \A t \in Tables : tables[t] \subseteq tables'[t]
    BY <1>4
<1>6. IsFiniteSet(TypeInstances)'
    <2>1. "nodes" \in Tables
        BY DEF Tables
    <2>2. tables'["nodes"] = tables["nodes"] \/ tables'["nodes"] = tables["nodes"] \cup {e.what}
        BY <1>4, <2>1
    <2>3. TypeInstances' \subseteq TypeInstances \cup {e.what}
        BY <2>2 DEF TypeInstances
    <2>4. IsFiniteSet(TypeInstances)
        BY <1>0 DEF Shape
    <2> DEFINE S == TypeInstances
               T == TypeInstances'
               x == e.what
    <2> HIDE DEF S, T, x
    <2>5. IsFiniteSet(S) /\ T \subseteq S \cup {x}
        BY <2>3, <2>4 DEF S, T, x
    <2>6. IsFiniteSet(S \cup {x})
        BY <2>5, FS_AddElement
    <2>7. IsFiniteSet(T)
        BY <2>5, <2>6, FS_Subset
    <2> QED BY <2>7 DEF T
<1>7. /\ committed' \in [Consumers -> Nat]
      /\ \A d \in Consumers : d # c => committed'[d] = committed[d]
      /\ committed'[c] = committed[c] \/ (e.do = "commit" /\ committed'[c] = inHand[c])
    <2>1. committed \in [Consumers -> Nat] /\ inHand[c] \in Nat
        BY <1>0 DEF Shape
    <2>2. committed' = committed \/ (e.do = "commit" /\ committed' = [committed EXCEPT ![c] = inHand[c]])
        BY DEF Perform, Lost
    <2> QED BY <2>1, <2>2
<1>8. inHand' \in [Consumers -> Nat] /\ todo' = [d \in Consumers |-> todo'[d]]
    <2>1. inHand \in [Consumers -> Nat] /\ todo = [d \in Consumers |-> todo[d]]
        BY <1>0 DEF Shape
    <2> QED BY <2>1 DEF Finish
<1>9. Shape'
    BY <1>0, <1>1, <1>3, <1>4, <1>6, <1>7, <1>8 DEF Shape
<1>10. Grown
    BY <1>1, <1>2, <1>5 DEF Grown
<1>11. \A d \in Consumers : committed'[d] \in 0..position'[d]
    <2>1. inHand[c] = position[c]
        BY InHandIs
    <2>2. \A d \in Consumers : committed[d] \in 0..position[d] /\ position[d] \in Nat
        BY <1>0 DEF PipeTypeOK, Shape
    <2> QED BY <1>7, <2>1, <2>2
<1>12. ASSUME Perform(c, e) PROVE InEffect(e)'
    <2>1. CASE e.do = "publish"
        BY <1>1, <1>12, <2>1 DEF InEffect
    <2>2. CASE e.do = "report"
        BY <1>12, <2>2 DEF InEffect, Perform
    <2>3. CASE e.do = "put"
        BY <1>12, <2>3 DEF InEffect, Perform
    <2>4. CASE e.do = "write"
        BY <1>4, <1>12, <2>4 DEF InEffect
    <2>5. CASE e.do \notin {"publish", "report", "put", "write"}
        BY <2>5 DEF InEffect
    <2> QED BY <2>1, <2>2, <2>3, <2>4, <2>5
<1> QED BY <1>7, <1>9, <1>10, <1>11, <1>12

\* And what it adds is sound: a blob before its reference, work before its report.
LEMMA PerformSafe ==
    ASSUME PipeInv, NEW c \in Consumers, Busy(c), NEW e, NEW A, May(Message(c), {}, A, e),
           \A x \in A : x.must => InEffect(x),
           Perform(c, e) \/ Lost,
           Shape', Grown
    PROVE  BlobBeforeReference' /\ DoneAfterHandOver' /\ EdgeHasEnds'
<1>0. Shape /\ BlobBeforeReference /\ DoneAfterHandOver /\ EdgeHasEnds
    BY DEF PipeInv
<1>1. BlobBeforeReference'
    <2>1. ASSUME NEW t \in Topics, NEW k \in DOMAIN topic'[t]
          PROVE  topic'[t][k].blob \in blobs' \cup {NoBlob}
        <3>1. /\ topic[t] \in Seq(Orders(t)) /\ Len(topic[t]) \in Nat /\ DOMAIN topic[t] = 1..Len(topic[t])
              /\ topic'[t] \in Seq(Orders(t)) /\ DOMAIN topic'[t] = 1..Len(topic'[t]) /\ Len(topic'[t]) \in Nat
            BY <1>0 DEF Shape
        <3>2. blobs \subseteq blobs'
            BY DEF Grown
        <3>3. CASE k <= Len(topic[t])
            <4>1. k \in DOMAIN topic[t] /\ topic'[t][k] = topic[t][k]
                BY <3>1, <3>3 DEF Grown
            <4> QED BY <1>0, <3>2, <4>1 DEF BlobBeforeReference
        <3>4. CASE k > Len(topic[t])
            <4>1. e.do = "publish" /\ topic' = [topic EXCEPT ![e.on] = Append(@, e.what)]
                BY <3>1, <3>4 DEF Perform, Lost
            <4>2. t = e.on
                BY <1>0, <3>1, <3>4, <4>1 DEF Shape
            <4>3. topic'[t] = Append(topic[t], e.what)
                BY <1>0, <4>1, <4>2 DEF Shape
            <4>4. k = Len(topic[t]) + 1
                BY <3>1, <3>4, <4>3
            <4>5. topic'[t][k] = e.what
                BY <3>1, <4>3, <4>4
            <4>6. e.what.blob = NoBlob \/ e.what.blob = Message(c).blob \/ Put1(e.what.blob) \in A
                BY <4>1 DEF May
            <4>7. Message(c).blob \in blobs \cup {NoBlob}
                <5>1. TopicOf[c] \in Topics /\ inHand[c] \in DOMAIN topic[TopicOf[c]]
                    BY <1>0, InHandIs DEF Shape
                <5> QED BY <1>0, <5>1 DEF BlobBeforeReference, Message
            <4>8. \A b : Put1(b) \in A => b \in blobs
                BY DEF Put1, InEffect
            <4> QED BY <3>2, <4>5, <4>6, <4>7, <4>8
        <3> QED BY <3>1, <3>3, <3>4
    <2> QED BY <2>1 DEF BlobBeforeReference
<1>2. DoneAfterHandOver'
    <2>1. ASSUME NEW x \in reports', x.st = "done" PROVE Handed(x.run, x.stage)'
        <3>1. Handed(x.run, x.stage) /\ x.stage \in ReportedStages
            <4>1. CASE x \in reports
                BY <1>0, <2>1, <4>1 DEF DoneAfterHandOver, Shape
            <4>2. CASE x \notin reports
                <5>1. e.do = "report" /\ x = e.what
                    BY <2>1, <4>2 DEF Perform, Lost
                <5>2. HandsOver(A, x.run, x.stage)
                    BY <2>1, <5>1 DEF May
                <5> QED BY <5>2, HandsOverHanded DEF HandsOver
            <4> QED BY <4>1, <4>2
        <3> QED BY <1>0, <3>1, HandedStays
    <2> QED BY <2>1 DEF DoneAfterHandOver
<1>3. EdgeHasEnds'
    <2>1. ASSUME NEW x \in tables'["edges"]
          PROVE  \E a, b \in tables'["nodes"] : a[2] = x[1] /\ b[2] = x[2]
        <3>1. tables["nodes"] \subseteq tables'["nodes"]
            BY DEF Grown, Tables
        <3>2. \E a, b \in tables["nodes"] : a[2] = x[1] /\ b[2] = x[2]
            <4>1. CASE x \in tables["edges"]
                BY <1>0, <4>1 DEF EdgeHasEnds
            <4>2. CASE x \notin tables["edges"]
                <5>1. e.do = "write" /\ tables' = [tables EXCEPT ![e.on] = @ \cup {e.what}]
                    BY <2>1, <4>2 DEF Perform, Lost
                <5>2. e.on = "edges" /\ x = e.what
                    BY <1>0, <2>1, <4>2, <5>1 DEF Shape, Tables
                <5>3. PICK a, b : Written1("nodes", a) \in A /\ Written1("nodes", b) \in A
                                  /\ a[2] = x[1] /\ b[2] = x[2]
                    BY <5>1, <5>2 DEF May
                <5>4. a \in tables["nodes"] /\ b \in tables["nodes"]
                    BY <5>3 DEF Written1, InEffect
                <5> QED BY <5>3, <5>4
            <4> QED BY <4>1, <4>2
        <3> QED BY <3>1, <3>2
    <2> QED BY <2>1 DEF EdgeHasEnds
<1> QED BY <1>1, <1>2, <1>3

----------------------------------------------------------------------------
(* A step of one consumer. *)

\* The messages of a consumer stay.
LEMMA MessageStays ==
    ASSUME PipeInv, Shape', Grown, NEW c \in Consumers
    PROVE  /\ \A k \in 1..position[c] : /\ topic[TopicOf[c]][k] \in Orders(TopicOf[c])
                                       /\ topic'[TopicOf[c]][k] = topic[TopicOf[c]][k]
           /\ Busy(c) /\ inHand'[c] = inHand[c] => Message(c)' = Message(c)
<1>1. TopicOf[c] \in Topics
    BY DEF TopicOf, Consumers, Topics
<1>2. \A k \in 1..position[c] : k \in 1..Len(topic[TopicOf[c]])
    BY <1>1 DEF PipeInv, PipeTypeOK, Shape
<1>3. \A k \in 1..Len(topic[TopicOf[c]]) : topic[TopicOf[c]][k] \in Orders(TopicOf[c])
    BY <1>1 DEF PipeInv, Shape
<1>4. \A k \in 1..Len(topic[TopicOf[c]]) : topic'[TopicOf[c]][k] = topic[TopicOf[c]][k]
    BY <1>1 DEF Grown
<1>5. ASSUME Busy(c), inHand'[c] = inHand[c] PROVE Message(c)' = Message(c)
    BY <1>4, <1>5, InHandIs DEF Message
<1> QED BY <1>2, <1>3, <1>4, <1>5

\* A settled one stays settled.
LEMMA SettledStays ==
    ASSUME WorkersAssumption, PipeInv, Shape', Grown, errors' \in Nat, NEW c \in Consumers,
           NEW k \in 1..position[c], Settled(c, k)
    PROVE  Settled(c, k)'
<1>1. PICK m : m = topic[TopicOf[c]][k]
    OBVIOUS
<1>2. m \in Orders(TopicOf[c]) /\ topic'[TopicOf[c]][k] = m
    BY <1>1, MessageStays
<1>3. CASE Produced(c, m)
    <2>1. Shape
        BY DEF PipeInv
    <2>2. Produced(c, m)'
        BY <1>2, <1>3, <2>1, GrownProduced
    <2> QED BY <1>2, <2>2 DEF Settled
<1>4. CASE Explained(c, m)
    <2>1. errors \in Nat /\ errors <= errors' /\ reports \subseteq reports'
        BY PipelineAssumption DEF PipeInv, PipeTypeOK, PipelineAssumption, Grown
    <2>2. Explained(c, m)'
        BY <1>4, <2>1 DEF Explained
    <2> QED BY <1>2, <2>2 DEF Settled
<1> QED BY <1>1, <1>3, <1>4 DEF Settled

\* What a handler was required and has done stays done.
LEMMA MustsStay ==
    ASSUME WorkersAssumption, Shape, Shape', Grown, NEW c \in Consumers,
           NEW m \in Orders(TopicOf[c]), NEW q,
           NEW k \in 1..Len(HandlerAt(c, m, q)), InEffect(HandlerAt(c, m, q)[k])
    PROVE  InEffect(HandlerAt(c, m, q)[k])'
<1>1. PICK e : e = HandlerAt(c, m, q)[k]
    OBVIOUS
<1>2. (e.do = "publish" => e.on \in Topics) /\ (e.do = "write" => e.on \in Tables)
    <2> DEFINE h == HandlerAt(c, m, q)
    <2>1. Proper(m, h)
        BY HandlersProper
    <2>2. k \in 1..Len(h) /\ e = h[k]
        BY <1>1
    <2> HIDE DEF h
    <2> QED BY <2>1, <2>2, ProperSteps
<1>3. InEffect(e)'
    BY <1>1, <1>2, GrownEffects
<1> QED BY <1>1, <1>3

\* A hand that does not move stays good.
LEMMA HandStays ==
    ASSUME WorkersAssumption, PipeInv, Shape', Grown, errors' \in Nat, NEW c \in Consumers, Busy(c),
           inHand'[c] = inHand[c], todo'[c] = todo[c]
    PROVE  Running(c)' \/ Failing(c)'
<1>1. PICK m : m = Message(c)
    OBVIOUS
<1>2. m \in Orders(TopicOf[c]) /\ Message(c)' = m
    BY <1>1, InHandIs, MessageStays
<1>3. Shape
    BY DEF PipeInv
<1>4. CASE Running(c)
    <2>1. PICK q \in Nat, n \in Nat : RunsFrom(c, q, n)
        BY <1>4 DEF Running
    <2> DEFINE h == HandlerAt(c, m, q)
    <2>2. /\ q <= Cardinality(TypeInstances)
          /\ IsList(todo[c]) /\ Len(todo[c]) > 0 /\ n + Len(todo[c]) = Len(h)
          /\ \A k \in 1..Len(todo[c]) : todo[c][k] = h[n + k]
          /\ \A k \in 1..n : h[k].must => InEffect(h[k])
        BY <1>1, <2>1 DEF RunsFrom
    <2>3. Len(todo[c]) \in Nat
        BY <2>2, Lists
    <2>4. ASSUME NEW k \in 1..n, h[k].must PROVE InEffect(h[k])'
        <3>1. k \in 1..Len(h)
            BY <2>2, <2>3
        <3> QED BY <1>2, <1>3, <2>2, <2>4, <3>1, MustsStay
    <2>5. q <= Cardinality(TypeInstances)'
        BY <1>3, <2>2, InstancesGrow
    <2>6. RunsFrom(c, q, n)'
        BY <1>2, <2>2, <2>4, <2>5 DEF RunsFrom
    <2> QED BY <2>6 DEF Running
<1>5. CASE Failing(c)
    <2>1. errors \in Nat /\ errors <= errors'
        BY PipelineAssumption DEF PipeInv, PipeTypeOK, PipelineAssumption, Grown
    <2> QED BY <1>1, <1>2, <1>5, <2>1 DEF Failing
<1> QED BY <1>4, <1>5 DEF PipeInv, HandsAreGood

(* The hand moves on after an effect, which it has had if it required it. *)
LEMMA HandAdvances ==
    ASSUME WorkersAssumption, PipeInv, Shape', Grown, errors' \in Nat, NEW c \in Consumers, Busy(c),
           NEW e, e = todo[c][1], e.must => InEffect(e)', InEffect(e)' \/ errors' = errors + 1,
           Finish(c, Tail(todo[c]))
    PROVE  /\ Busy(c)' => Running(c)' \/ Failing(c)'
           /\ ~Busy(c)' => \A k : k = inHand[c] => Settled(c, k)'
<1>0. Shape /\ errors \in Nat /\ errors <= errors'
    BY PipelineAssumption DEF PipeInv, PipeTypeOK, PipelineAssumption, Grown
<1>1. PICK m : m = Message(c)
    OBVIOUS
<1>2. PICK i : i = inHand[c]
    OBVIOUS
<1>3. m \in Orders(TopicOf[c]) /\ i \in 1..position[c] /\ topic'[TopicOf[c]][i] = m /\ i # 0
    <2>1. inHand[c] \in 1..position[c] /\ inHand[c] # 0 /\ Message(c) \in Orders(TopicOf[c])
        BY InHandIs DEF Busy
    <2>2. topic'[TopicOf[c]][i] = topic[TopicOf[c]][i]
        BY <1>2, <2>1, MessageStays
    <2> QED BY <1>1, <1>2, <2>1, <2>2 DEF Message
<1>4. /\ todo'[c] = Tail(todo[c])
      /\ inHand'[c] = IF Tail(todo[c]) = <<>> THEN 0 ELSE i
    BY <1>0, <1>2 DEF Finish, Shape
<1>5. CASE Running(c)
    <2>1. PICK q \in Nat, n \in Nat : RunsFrom(c, q, n)
        BY <1>5 DEF Running
    <2> DEFINE h == HandlerAt(c, m, q)
    <2>2. /\ q <= Cardinality(TypeInstances)
          /\ IsList(todo[c]) /\ Len(todo[c]) > 0 /\ n + Len(todo[c]) = Len(h)
          /\ \A k \in 1..Len(todo[c]) : todo[c][k] = h[n + k]
          /\ \A k \in 1..n : h[k].must => InEffect(h[k])
        BY <1>1, <2>1 DEF RunsFrom
    <2>3. Len(todo[c]) \in Nat
        BY <2>2, Lists
    <2>4. ASSUME NEW k \in 1..(n + 1), h[k].must PROVE InEffect(h[k])'
        <3>1. k \in 1..Len(h)
            BY <2>2, <2>3
        <3>2. CASE k = n + 1
            <4>1. h[k] = e
                BY <2>2, <2>3, <3>2
            <4> QED BY <2>4, <4>1
        <3>3. CASE k \in 1..n
            BY <1>0, <1>3, <2>2, <2>4, <3>1, <3>3, MustsStay
        <3> QED BY <3>2, <3>3
    <2>5. q <= Cardinality(TypeInstances)' /\ Cardinality(TypeInstances)' \in Nat
        BY <1>0, <2>2, InstancesGrow
    <2> DEFINE t == Tail(todo[c])
    <2>6. /\ IsList(t) /\ Len(t) = Len(todo[c]) - 1
          /\ \A k \in 1..Len(t) : t[k] = todo[c][k + 1]
        <3>1. todo[c] \in Seq(Range(todo[c])) /\ todo[c] # <<>>
            BY <2>2, <2>3 DEF IsList
        <3>2. Len(t) = Len(todo[c]) - 1 /\ \A k \in 1..Len(t) : t[k] = todo[c][k + 1]
            BY <2>2, <2>3, <3>1
        <3>3. t \in Seq(Range(todo[c]))
            BY <3>1, HeadTailProperties
        <3>4. DOMAIN t = 1..Len(t) /\ Len(t) \in Nat
            BY <3>3
        <3> HIDE DEF t
        <3>5. \A k \in 1..Len(t) : t[k] \in Range(t)
            BY <3>4 DEF Range
        <3>6. t \in Seq(Range(t))
            BY <3>3, <3>5
        <3> QED BY <3>2, <3>6 DEF IsList
    <2> HIDE DEF t
    <2>7. CASE Len(todo[c]) = 1
        <3>1. t = <<>>
            BY <2>6, <2>7 DEF IsList
        <3>2. inHand'[c] = 0
            BY <1>4, <3>1 DEF t
        <3>3. Len(h) = n + 1
            BY <2>2, <2>7
        <3>4. DOMAIN h = 1..Len(h)
            <4>1. Proper(m, h)
                BY <1>3, HandlersProper
            <4> HIDE DEF h
            <4> QED BY <4>1, ProperSteps
        <3>5. Done(c, m, q)'
            BY <2>4, <3>3, <3>4 DEF Done
        <3>6. PICK p : p = Cardinality(TypeInstances)'
            OBVIOUS
        <3>7. Musts(c, m, p) \subseteq Musts(c, m, q)
            BY <2>5, <3>6, MustsShrink
        <3>8. Done(c, m, p)'
            BY <3>5, <3>7, DoneIsThen
        <3>9. Produced(c, m)'
            BY <3>6, <3>8, DoneIsThen
        <3>10. Settled(c, i)'
            BY <1>3, <3>9 DEF Settled
        <3> QED BY <1>2, <3>2, <3>10 DEF Busy
    <2>8. CASE Len(todo[c]) # 1
        <3>a. Len(t) \in Nat /\ Len(t) > 0 /\ (n + 1) + Len(t) = Len(h)
            <4>1. Len(t) = Len(todo[c]) - 1 /\ Len(todo[c]) > 0 /\ Len(todo[c]) # 1 /\ n + Len(todo[c]) = Len(h)
                BY <2>2, <2>6, <2>8
            <4> DEFINE a == Len(t)
                       b == Len(todo[c])
                       d == Len(h)
            <4>2. a = b - 1 /\ b > 0 /\ b # 1 /\ n + b = d /\ b \in Nat
                BY <2>3, <4>1
            <4> HIDE DEF a, b, d
            <4>3. a \in Nat /\ a > 0 /\ (n + 1) + a = d
                BY <4>2
            <4> QED BY <4>3 DEF a, b, d
        <3>b. Len(<<>>) = 0
            OBVIOUS
        <3>1. Len(t) > 0 /\ t # <<>> /\ (n + 1) + Len(t) = Len(h)
            BY <3>a, <3>b
        <3>2. inHand'[c] = i /\ todo'[c] = t
            BY <1>4, <3>1 DEF t
        <3>3. Message(c)' = m
            BY <1>1, <1>2, <3>2, MessageStays
        <3>4. \A k \in 1..Len(t) : t[k] = h[(n + 1) + k]
            <4>1. ASSUME NEW k \in 1..Len(t) PROVE t[k] = h[(n + 1) + k]
                <5>1. k + 1 \in 1..Len(todo[c]) /\ n + (k + 1) = (n + 1) + k
                    BY <2>3, <2>6
                <5>2. todo[c][k + 1] = h[n + (k + 1)]
                    BY <2>2, <5>1
                <5> QED BY <2>6, <5>1, <5>2
            <4> QED BY <4>1
        <3>5. RunsFrom(c, q, n + 1)'
            BY <2>4, <2>5, <2>6, <3>1, <3>2, <3>3, <3>4 DEF RunsFrom
        <3>6. Running(c)'
            BY <3>5 DEF Running
        <3> QED BY <1>3, <3>2, <3>6 DEF Busy
    <2> QED BY <2>7, <2>8
<1>6. CASE Failing(c)
    <2> DEFINE f == [do |-> "report", on |-> "status", what |-> Report(m, StageOf(c), "failed"), must |-> FALSE]
    <2>1. todo[c] = <<f>>
        BY <1>1, <1>3, <1>6, ErrorArmIs, OrdersPlain DEF Failing
    <2>2. e = f /\ Tail(todo[c]) = <<>>
        BY <2>1
    <2>3. inHand'[c] = 0
        BY <1>4, <2>2
    <2>4. InEffect(e)' => Report(m, StageOf(c), "failed") \in reports'
        BY <2>2 DEF InEffect
    <2>5. errors >= 1
        BY <1>6 DEF Failing
    <2>6. Explained(c, m)'
        BY <1>0, <2>4, <2>5 DEF Explained
    <2>7. Settled(c, i)'
        BY <1>3, <2>6 DEF Settled
    <2> QED BY <1>2, <2>3, <2>7 DEF Busy
<1> QED BY <1>5, <1>6 DEF PipeInv, HandsAreGood

(* The other consumers, and what is past, are as good as before. *)
LEMMA TurnGood ==
    ASSUME WorkersAssumption, PipeInv, Shape', Grown, NEW c \in Consumers, Busy(c),
           NEW rest, Finish(c, rest), position' = position, crashes' = crashes,
           errors' \in 0..MaxErrors,
           \A d \in Consumers : committed'[d] \in 0..position'[d],
           \A d \in Consumers : d # c => committed'[d] = committed[d],
           committed'[c] = committed[c] \/ (Produced(c, Message(c)) /\ committed'[c] = inHand[c]),
           Busy(c)' => Running(c)' \/ Failing(c)',
           ~Busy(c)' => \A k : k = inHand[c] => Settled(c, k)'
    PROVE  PipeTypeOK' /\ HandsAreGood' /\ PastIsSettled'
<1>0. Shape /\ PipeTypeOK /\ PastIsSettled /\ errors' \in Nat
    BY PipelineAssumption DEF PipeInv, PipelineAssumption
<1>1. /\ \A d \in Consumers : d # c => todo'[d] = todo[d] /\ inHand'[d] = inHand[d]
      /\ todo'[c] = rest /\ inHand'[c] = IF rest = <<>> THEN 0 ELSE inHand[c]
      /\ inHand[c] # 0
    BY <1>0 DEF Finish, Shape, Busy
<1>2. PipeTypeOK'
    <2>1. ASSUME NEW d \in Consumers
          PROVE  /\ committed'[d] \in 0..position'[d]
                 /\ position'[d] \in 0..Len(topic'[TopicOf[d]])
                 /\ inHand'[d] \in {0, position'[d]}
                 /\ (inHand'[d] = 0) <=> (todo'[d] = <<>>)
        <3>1. TopicOf[d] \in Topics
            BY DEF TopicOf, Consumers, Topics
        <3>2. /\ position[d] \in 0..Len(topic[TopicOf[d]])
              /\ inHand[d] \in {0, position[d]}
              /\ (inHand[d] = 0) <=> (todo[d] = <<>>)
            BY <1>0 DEF PipeTypeOK
        <3>3. Len(topic[TopicOf[d]]) \in Nat /\ Len(topic'[TopicOf[d]]) \in Nat
              /\ Len(topic[TopicOf[d]]) <= Len(topic'[TopicOf[d]])
            BY <1>0, <3>1 DEF Shape, Grown
        <3>4. position'[d] \in 0..Len(topic'[TopicOf[d]])
            BY <3>2, <3>3
        <3>5. inHand'[d] \in {0, position'[d]} /\ ((inHand'[d] = 0) <=> (todo'[d] = <<>>))
            <4>1. CASE d = c
                BY <1>1, <3>2, <4>1
            <4>2. CASE d # c
                BY <1>1, <3>2, <4>2
            <4> QED BY <4>1, <4>2
        <3> QED BY <3>4, <3>5
    <2>2. \A d \in Consumers : Busy(d)' => Busy(d)
        BY <1>1 DEF Busy
    <2>3. \A d, b \in Consumers : Task(d) = Task(b) /\ Busy(d)' /\ Busy(b)' => d = b
        BY <1>0, <2>2 DEF PipeTypeOK
    <2>4. crashes' \in 0..MaxCrashes
        BY <1>0 DEF PipeTypeOK
    <2> QED BY <2>1, <2>3, <2>4 DEF PipeTypeOK
<1>3. HandsAreGood'
    <2>1. ASSUME NEW d \in Consumers, Busy(d)' PROVE Running(d)' \/ Failing(d)'
        <3>1. CASE d = c
            BY <2>1, <3>1
        <3>2. CASE d # c
            <4>1. Busy(d) /\ inHand'[d] = inHand[d] /\ todo'[d] = todo[d]
                BY <1>1, <2>1, <3>2 DEF Busy
            <4> QED BY <1>0, <4>1, HandStays
        <3> QED BY <3>1, <3>2
    <2> QED BY <2>1 DEF HandsAreGood
<1>4. PastIsSettled'
    <2>1. ASSUME NEW d \in Consumers, NEW k \in 1..position'[d],
                 k # inHand'[d] \/ k <= committed'[d]
          PROVE  Settled(d, k)'
        <3>1. k \in 1..position[d]
            OBVIOUS
        <3>2. CASE Settled(d, k)
            BY <1>0, <3>1, <3>2, SettledStays
        <3>3. CASE ~Settled(d, k)
            <4>1. k = inHand[d] /\ ~(k <= committed[d])
                BY <1>0, <3>1, <3>3 DEF PastIsSettled
            <4>2. d = c
                BY <1>1, <2>1, <4>1
            <4>3. committed'[c] = committed[c]
                <5>1. ASSUME Produced(c, Message(c)) PROVE FALSE
                    BY <3>3, <4>1, <4>2, <5>1 DEF Settled, Message
                <5> QED BY <5>1
            <4>4. k # inHand'[c]
                BY <2>1, <4>1, <4>2, <4>3
            <4>5. ~Busy(c)'
                BY <1>1, <4>1, <4>2, <4>4 DEF Busy
            <4> QED BY <4>1, <4>2, <4>5
        <3> QED BY <3>2, <3>3
    <2> QED BY <2>1 DEF PastIsSettled
<1> QED BY <1>2, <1>3, <1>4

\* The next effect succeeds.
LEMMA SucceedsStep ==
    ASSUME WorkersAssumption, PipeInv, NEW c \in Consumers, StepSucceeds(c)
    PROVE  PipeInv'
<1>0. Busy(c) /\ errors \in Nat /\ errors' = errors /\ errors' \in 0..MaxErrors
      /\ deployed' = deployed /\ position' = position /\ crashes' = crashes
    BY PipelineAssumption DEF PipeInv, PipeTypeOK, PipelineAssumption, StepSucceeds
<1>1. /\ IsList(todo[c]) /\ Len(todo[c]) \in Nat /\ Len(todo[c]) > 0
      /\ \E A : /\ May(Message(c), {}, A, todo[c][1])
                /\ \A x \in A : x.must => InEffect(x)
      /\ todo[c][1].do = "commit" => Produced(c, Message(c))
    BY <1>0, HandReady
<1>2. Head(todo[c]) = todo[c][1]
    BY <1>1 DEF IsList
<1>3. PICK e : e = todo[c][1]
    OBVIOUS
<1>4. Perform(c, e) /\ Finish(c, Tail(todo[c]))
    BY <1>2, <1>3 DEF StepSucceeds
<1>5. PICK A : May(Message(c), {}, A, e) /\ \A x \in A : x.must => InEffect(x)
    BY <1>1, <1>3
<1>6. /\ Shape' /\ Grown
      /\ \A d \in Consumers : committed'[d] \in 0..position'[d]
      /\ InEffect(e)'
      /\ \A d \in Consumers : d # c => committed'[d] = committed[d]
      /\ committed'[c] = committed[c] \/ (e.do = "commit" /\ committed'[c] = inHand[c])
    BY <1>0, <1>4, <1>5, PerformGrows
<1>7. BlobBeforeReference' /\ DoneAfterHandOver' /\ EdgeHasEnds'
    BY <1>0, <1>4, <1>5, <1>6, PerformSafe
<1>8. /\ Busy(c)' => Running(c)' \/ Failing(c)'
      /\ ~Busy(c)' => \A k : k = inHand[c] => Settled(c, k)'
    BY <1>0, <1>3, <1>4, <1>6, HandAdvances
<1>9. committed'[c] = committed[c] \/ (Produced(c, Message(c)) /\ committed'[c] = inHand[c])
    BY <1>1, <1>3, <1>6
<1>10. PipeTypeOK' /\ HandsAreGood' /\ PastIsSettled'
    BY <1>0, <1>4, <1>6, <1>8, <1>9, TurnGood
<1> QED BY <1>6, <1>7, <1>10 DEF PipeInv

\* It fails.
LEMMA FailsStep ==
    ASSUME WorkersAssumption, PipeInv, NEW c \in Consumers, StepFails(c)
    PROVE  PipeInv'
<1>0. Busy(c) /\ errors \in Nat /\ errors' \in Nat /\ errors' = errors + 1 /\ errors <= errors'
      /\ errors' \in 0..MaxErrors
      /\ deployed' = deployed /\ position' = position /\ crashes' = crashes
    BY PipelineAssumption DEF PipeInv, PipeTypeOK, PipelineAssumption, StepFails
<1>1. /\ IsList(todo[c]) /\ Len(todo[c]) \in Nat /\ Len(todo[c]) > 0
      /\ \E A : /\ May(Message(c), {}, A, todo[c][1])
                /\ \A x \in A : x.must => InEffect(x)
      /\ todo[c][1].do = "commit" => Produced(c, Message(c))
    BY <1>0, HandReady
<1>2. Head(todo[c]) = todo[c][1]
    BY <1>1 DEF IsList
<1>3. PICK e : e = todo[c][1]
    OBVIOUS
<1>4. /\ Perform(c, e) \/ Lost
      /\ e.must => Finish(c, ErrorArm(c, Message(c)))
      /\ ~e.must => Finish(c, Tail(todo[c]))
    BY <1>2, <1>3 DEF StepFails, Lost
<1>5. PICK A : May(Message(c), {}, A, e) /\ \A x \in A : x.must => InEffect(x)
    BY <1>1, <1>3
<1>6. PICK rest : Finish(c, rest)
    BY <1>4
<1>7. /\ Shape' /\ Grown
      /\ \A d \in Consumers : committed'[d] \in 0..position'[d]
      /\ \A d \in Consumers : d # c => committed'[d] = committed[d]
      /\ committed'[c] = committed[c] \/ (e.do = "commit" /\ committed'[c] = inHand[c])
    BY <1>0, <1>4, <1>5, <1>6, PerformGrows
<1>8. BlobBeforeReference' /\ DoneAfterHandOver' /\ EdgeHasEnds'
    BY <1>0, <1>4, <1>5, <1>7, PerformSafe
<1>9. committed'[c] = committed[c] \/ (Produced(c, Message(c)) /\ committed'[c] = inHand[c])
    BY <1>1, <1>3, <1>7
<1>10. /\ Busy(c)' => Running(c)' \/ Failing(c)'
       /\ ~Busy(c)' => \A k : k = inHand[c] => Settled(c, k)'
    <2>1. CASE ~e.must
        BY <1>0, <1>3, <1>4, <1>7, <2>1, HandAdvances
    <2>2. CASE e.must
        <3>1. PICK m : m = Message(c)
            OBVIOUS
        <3>2. PICK i : i = inHand[c]
            OBVIOUS
        <3>3. /\ m \in Orders(TopicOf[c]) /\ i \in 1..position[c] /\ i # 0
              /\ topic'[TopicOf[c]][i] = m
            <4>1. inHand[c] \in 1..position[c] /\ inHand[c] # 0 /\ Message(c) \in Orders(TopicOf[c])
                BY <1>0, InHandIs DEF Busy
            <4>2. topic'[TopicOf[c]][i] = topic[TopicOf[c]][i]
                BY <1>7, <3>2, <4>1, MessageStays
            <4> QED BY <3>1, <3>2, <4>1, <4>2 DEF Message
        <3>4. todo'[c] = ErrorArm(c, m) /\ inHand'[c] = IF ErrorArm(c, m) = <<>> THEN 0 ELSE i
            BY <1>4, <2>2, <3>1, <3>2 DEF Finish, PipeInv, Shape
        <3>5. CASE c = "neo4j"
            <4>1. inHand'[c] = 0
                BY <3>3, <3>4, <3>5, ErrorArmIs, OrdersPlain
            <4>2. Settled(c, i)'
                BY <1>0, <3>5 DEF Settled, Explained
            <4> QED BY <3>2, <4>1, <4>2 DEF Busy
        <3>6. CASE c # "neo4j"
            <4>1. ErrorArm(c, m) # <<>>
                <5> DEFINE f == [do |-> "report", on |-> "status", what |-> Report(m, StageOf(c), "failed"), must |-> FALSE]
                <5>1. ErrorArm(c, m) = <<f>>
                    BY <3>3, <3>6, ErrorArmIs, OrdersPlain
                <5> HIDE DEF f
                <5> QED BY <5>1
            <4>2. inHand'[c] = inHand[c] /\ todo'[c] = ErrorArm(c, m)
                BY <3>2, <3>4, <4>1
            <4>3. Message(c)' = m
                BY <1>0, <1>7, <3>1, <4>2, MessageStays
            <4>4. Failing(c)'
                BY <1>0, <3>6, <4>2, <4>3 DEF Failing
            <4>5. Busy(c)'
                BY <1>0, <4>2 DEF Busy
            <4> QED BY <4>4, <4>5
        <3> QED BY <3>5, <3>6
    <2> QED BY <2>1, <2>2
<1>11. PipeTypeOK' /\ HandsAreGood' /\ PastIsSettled'
    BY <1>0, <1>6, <1>7, <1>9, <1>10, TurnGood
<1> QED BY <1>7, <1>8, <1>11 DEF PipeInv

(* Fetching and restarting change no topic, table or report. *)
LEMMA StillGood ==
    ASSUME PipeInv, UNCHANGED <<deployed, topic, committed, reports, blobs, tables, errors>>,
           position' \in [Consumers -> Nat], inHand' \in [Consumers -> Nat],
           todo' = [c \in Consumers |-> todo'[c]]
    PROVE  /\ Shape' /\ Grown /\ errors' \in Nat
           /\ BlobBeforeReference' /\ DoneAfterHandOver' /\ EdgeHasEnds'
<1>0. Shape /\ errors \in Nat /\ BlobBeforeReference /\ DoneAfterHandOver /\ EdgeHasEnds
    BY PipelineAssumption DEF PipeInv, PipeTypeOK, PipelineAssumption
<1>1. Shape'
    BY <1>0 DEF Shape, TypeInstances
<1>2. Grown
    <2>1. \A t \in Topics : Len(topic[t]) \in Nat
        BY <1>0 DEF Shape
    <2> QED BY <1>0, <2>1 DEF Grown
<1>3. BlobBeforeReference'
    BY <1>0 DEF BlobBeforeReference
<1>4. DoneAfterHandOver'
    <2>1. ASSUME NEW e \in reports, e.st = "done" PROVE Handed(e.run, e.stage)'
        <3>1. PICK r, stage : r = e.run /\ stage = e.stage
            OBVIOUS
        <3>2. stage \in ReportedStages /\ Handed(r, stage)
            BY <1>0, <2>1, <3>1 DEF Shape, DoneAfterHandOver
        <3>3. Handed(r, stage)'
            BY <1>0, <1>1, <1>2, <3>2, HandedStays
        <3> QED BY <3>1, <3>3
    <2> QED BY <2>1 DEF DoneAfterHandOver
<1>5. EdgeHasEnds'
    BY <1>0 DEF EdgeHasEnds
<1> QED BY <1>0, <1>1, <1>2, <1>3, <1>4, <1>5

\* A consumer fetches a message.
LEMMA FetchStep ==
    ASSUME WorkersAssumption, PipeInv, NEW c \in Consumers, Fetch(c)
    PROVE  PipeInv'
<1>0. /\ Shape /\ PipeTypeOK /\ PastIsSettled
      /\ UNCHANGED <<deployed, topic, committed, reports, blobs, tables, errors, crashes>>
      /\ TopicOf[c] \in Topics /\ position[c] \in Nat /\ Len(topic[TopicOf[c]]) \in Nat
      /\ position[c] < Len(topic[TopicOf[c]])
    <2>1. Shape /\ PipeTypeOK /\ PastIsSettled
        BY DEF PipeInv
    <2>2. TopicOf[c] \in Topics
        BY DEF TopicOf, Consumers, Topics
    <2> QED BY <2>1, <2>2 DEF Fetch, Shape
<1>1. PICK i : i = position[c] + 1
    OBVIOUS
<1>2. PICK m : m = topic[TopicOf[c]][i]
    OBVIOUS
<1>3. PICK q : q = Cardinality(TypeInstances)
    OBVIOUS
<1>4. i \in 1..Len(topic[TopicOf[c]]) /\ m \in Orders(TopicOf[c]) /\ i # 0
    BY <1>0, <1>1, <1>2 DEF Shape
<1> DEFINE h == HandlerAt(c, m, q)
<1>5. Handler(c, m) = h
    BY <1>3, HandlerIs
<1>6. Proper(m, h)
    BY <1>4, HandlersProper
<1> HIDE DEF h
<1>7. IsList(h) /\ Len(h) \in Nat /\ Len(h) > 0
    BY <1>6, ProperSteps
<1>8. /\ position' = [position EXCEPT ![c] = i]
      /\ inHand' = [inHand EXCEPT ![c] = i]
      /\ todo' = [todo EXCEPT ![c] = h]
    BY <1>1, <1>2, <1>5 DEF Fetch
<1>9. /\ \A d \in Consumers : d # c => position'[d] = position[d] /\ inHand'[d] = inHand[d] /\ todo'[d] = todo[d]
      /\ position'[c] = i /\ inHand'[c] = i /\ todo'[c] = h
      /\ position' \in [Consumers -> Nat] /\ inHand' \in [Consumers -> Nat]
      /\ todo' = [d \in Consumers |-> todo'[d]]
    <2>1. position \in [Consumers -> Nat] /\ inHand \in [Consumers -> Nat] /\ i \in Nat
        BY <1>0, <1>1 DEF Shape
    <2>2. todo = [d \in Consumers |-> todo[d]]
        BY <1>0 DEF Shape
    <2>3. /\ \A d \in Consumers : d # c => position'[d] = position[d] /\ inHand'[d] = inHand[d]
          /\ position'[c] = i /\ inHand'[c] = i
          /\ position' \in [Consumers -> Nat] /\ inHand' \in [Consumers -> Nat]
        BY <1>8, <2>1
    <2>4. /\ \A d \in Consumers : d # c => todo'[d] = todo[d]
          /\ todo'[c] = h /\ todo' = [d \in Consumers |-> todo'[d]]
        BY <1>8, <2>2
    <2> QED BY <2>3, <2>4
<1>10. /\ Shape' /\ Grown /\ errors' \in Nat
       /\ BlobBeforeReference' /\ DoneAfterHandOver' /\ EdgeHasEnds'
    BY <1>0, <1>9, StillGood
<1>11. \A d \in Consumers : Task(d) = Task(c) => ~Busy(d)
    BY DEF Fetch, TaskBusy
<1>12. PipeTypeOK'
    <2>1. ASSUME NEW d \in Consumers
          PROVE  /\ committed'[d] \in 0..position'[d]
                 /\ position'[d] \in 0..Len(topic'[TopicOf[d]])
                 /\ inHand'[d] \in {0, position'[d]}
                 /\ (inHand'[d] = 0) <=> (todo'[d] = <<>>)
        <3>1. /\ committed[d] \in 0..position[d]
              /\ position[d] \in 0..Len(topic[TopicOf[d]])
              /\ inHand[d] \in {0, position[d]}
              /\ (inHand[d] = 0) <=> (todo[d] = <<>>)
            BY <1>0 DEF PipeTypeOK
        <3>2. CASE d = c
            <4>1. h # <<>>
                <5>1. Len(<<>>) = 0
                    OBVIOUS
                <5> QED BY <1>7, <5>1
            <4>2. (inHand'[c] = 0) <=> (todo'[c] = <<>>)
                BY <1>4, <1>9, <4>1
            <4>3. committed[c] \in 0..i /\ i \in 0..Len(topic[TopicOf[c]])
                BY <1>0, <1>1, <1>4, <3>1, <3>2
            <4> QED BY <1>0, <1>9, <3>2, <4>2, <4>3
        <3>3. CASE d # c
            BY <1>0, <1>9, <3>1, <3>3
        <3> QED BY <3>2, <3>3
    <2>2. ASSUME NEW d \in Consumers, NEW b \in Consumers, Task(d) = Task(b), Busy(d)', Busy(b)'
          PROVE  d = b
        <3>1. (d # c => Busy(d)) /\ (b # c => Busy(b))
            BY <1>9, <2>2 DEF Busy
        <3> QED BY <1>0, <1>11, <2>2, <3>1 DEF PipeTypeOK
    <2>3. errors' \in 0..MaxErrors /\ crashes' \in 0..MaxCrashes
        BY <1>0 DEF PipeTypeOK
    <2> QED BY <2>1, <2>2, <2>3 DEF PipeTypeOK
<1>13. HandsAreGood'
    <2>1. ASSUME NEW d \in Consumers, Busy(d)' PROVE Running(d)' \/ Failing(d)'
        <3>1. CASE d = c
            <4>1. Message(c)' = m
                BY <1>0, <1>2, <1>9 DEF Message
            <4>2. q \in Nat
                BY <1>0, <1>3, FS_CardinalityType DEF Shape
            <4>3. q <= Cardinality(TypeInstances)'
                BY <1>0, <1>3, <4>2 DEF TypeInstances
            <4>4. /\ 0 + Len(h) = Len(h)
                  /\ \A k \in 1..Len(h) : h[k] = h[0 + k]
                  /\ 1..0 = {}
                BY <1>7
            <4>5. RunsFrom(c, q, 0)'
                BY <1>7, <1>9, <4>1, <4>3, <4>4 DEF RunsFrom, h
            <4>6. Running(c)'
                BY <4>2, <4>5 DEF Running
            <4> QED BY <3>1, <4>6
        <3>2. CASE d # c
            <4>1. Busy(d) /\ inHand'[d] = inHand[d] /\ todo'[d] = todo[d]
                BY <1>9, <2>1, <3>2 DEF Busy
            <4> QED BY <1>10, <4>1, HandStays
        <3> QED BY <3>1, <3>2
    <2> QED BY <2>1 DEF HandsAreGood
<1>14. PastIsSettled'
    <2>1. ASSUME NEW d \in Consumers, NEW k \in 1..position'[d],
                 k # inHand'[d] \/ k <= committed'[d]
          PROVE  Settled(d, k)'
        <3>1. k \in 1..position[d] /\ (k # inHand[d] \/ k <= committed[d])
            <4>1. CASE d = c
                <5>1. committed[c] \in 0..position[c] /\ inHand[c] = 0
                    BY <1>0, <1>11 DEF PipeTypeOK, Busy
                <5>2. k \in 1..i /\ (k # i \/ k <= committed[c])
                    BY <1>0, <1>9, <2>1, <4>1
                <5> QED BY <1>0, <1>1, <4>1, <5>1, <5>2
            <4>2. CASE d # c
                BY <1>0, <1>9, <2>1, <4>2
            <4> QED BY <4>1, <4>2
        <3>2. Settled(d, k)
            BY <1>0, <3>1 DEF PastIsSettled
        <3> QED BY <1>10, <3>1, <3>2, SettledStays
    <2> QED BY <2>1 DEF PastIsSettled
<1> QED BY <1>10, <1>12, <1>13, <1>14 DEF PipeInv

\* Consumers restart at what is committed.
LEMMA RestartStep ==
    ASSUME WorkersAssumption, PipeInv, NEW c \in Consumers, Restart(c)
    PROVE  PipeInv'
<1>0. /\ Shape /\ PipeTypeOK /\ PastIsSettled
      /\ UNCHANGED <<deployed, topic, committed, reports, blobs, tables, errors>>
    BY DEF PipeInv, Restart
<1>1. /\ \A d \in Consumers : IF Task(d) = Task(c)
            THEN position'[d] = committed[d] /\ todo'[d] = <<>> /\ inHand'[d] = 0
            ELSE position'[d] = position[d] /\ todo'[d] = todo[d] /\ inHand'[d] = inHand[d]
      /\ position' \in [Consumers -> Nat] /\ inHand' \in [Consumers -> Nat]
      /\ todo' = [d \in Consumers |-> todo'[d]]
    BY <1>0 DEF Restart, Shape
<1>2. /\ Shape' /\ Grown /\ errors' \in Nat
      /\ BlobBeforeReference' /\ DoneAfterHandOver' /\ EdgeHasEnds'
    BY <1>0, <1>1, StillGood
<1>3. PipeTypeOK'
    <2>1. ASSUME NEW d \in Consumers
          PROVE  /\ committed'[d] \in 0..position'[d]
                 /\ position'[d] \in 0..Len(topic'[TopicOf[d]])
                 /\ inHand'[d] \in {0, position'[d]}
                 /\ (inHand'[d] = 0) <=> (todo'[d] = <<>>)
        <3>1. /\ committed[d] \in 0..position[d]
              /\ position[d] \in 0..Len(topic[TopicOf[d]])
              /\ inHand[d] \in {0, position[d]}
              /\ (inHand[d] = 0) <=> (todo[d] = <<>>)
            BY <1>0 DEF PipeTypeOK
        <3>2. Len(topic[TopicOf[d]]) \in Nat /\ position[d] \in Nat /\ committed[d] \in Nat
            <4>1. TopicOf[d] \in Topics
                BY DEF TopicOf, Consumers, Topics
            <4> QED BY <1>0, <4>1 DEF Shape
        <3>3. CASE Task(d) = Task(c)
            BY <1>0, <1>1, <3>1, <3>2, <3>3
        <3>4. CASE Task(d) # Task(c)
            BY <1>0, <1>1, <3>1, <3>4
        <3> QED BY <3>3, <3>4
    <2>2. \A d \in Consumers : Busy(d)' => Busy(d)
        BY <1>1 DEF Busy
    <2>3. \A d, b \in Consumers : Task(d) = Task(b) /\ Busy(d)' /\ Busy(b)' => d = b
        BY <1>0, <2>2 DEF PipeTypeOK
    <2>4. errors' \in 0..MaxErrors
        BY <1>0 DEF PipeTypeOK
    <2>5. crashes' \in 0..MaxCrashes
        BY <1>0, PipelineAssumption DEF PipeTypeOK, PipelineAssumption, Restart
    <2> QED BY <2>1, <2>3, <2>4, <2>5 DEF PipeTypeOK
<1>4. HandsAreGood'
    <2>1. ASSUME NEW d \in Consumers, Busy(d)' PROVE Running(d)' \/ Failing(d)'
        <3>1. Busy(d) /\ inHand'[d] = inHand[d] /\ todo'[d] = todo[d]
            BY <1>1, <2>1 DEF Busy
        <3> QED BY <1>2, <3>1, HandStays
    <2> QED BY <2>1 DEF HandsAreGood
<1>5. PastIsSettled'
    <2>1. ASSUME NEW d \in Consumers, NEW k \in 1..position'[d],
                 k # inHand'[d] \/ k <= committed'[d]
          PROVE  Settled(d, k)'
        <3>1. committed[d] \in 0..position[d] /\ committed[d] \in Nat /\ position[d] \in Nat
            BY <1>0 DEF PipeTypeOK, Shape
        <3>2. k \in 1..position[d] /\ (k # inHand[d] \/ k <= committed[d])
            BY <1>0, <1>1, <2>1, <3>1
        <3>3. Settled(d, k)
            BY <1>0, <3>2 DEF PastIsSettled
        <3> QED BY <1>2, <3>2, <3>3, SettledStays
    <2> QED BY <2>1 DEF PastIsSettled
<1> QED BY <1>2, <1>3, <1>4, <1>5 DEF PipeInv

\* Nothing happens.
LEMMA StutterStep ==
    ASSUME WorkersAssumption, PipeInv, UNCHANGED pipeVars
    PROVE  PipeInv'
<1>0. /\ Shape /\ PipeTypeOK /\ PastIsSettled
      /\ UNCHANGED <<deployed, topic, position, committed, todo, inHand, reports, blobs, tables,
                     dlq, errors, crashes>>
    BY DEF PipeInv, pipeVars
<1>1. /\ position' \in [Consumers -> Nat] /\ inHand' \in [Consumers -> Nat]
      /\ todo' = [d \in Consumers |-> todo'[d]]
    BY <1>0 DEF Shape
<1>2. /\ Shape' /\ Grown /\ errors' \in Nat
      /\ BlobBeforeReference' /\ DoneAfterHandOver' /\ EdgeHasEnds'
    BY <1>0, <1>1, StillGood
<1>3. PipeTypeOK'
    BY <1>0 DEF PipeTypeOK, Busy
<1>4. HandsAreGood'
    <2>1. ASSUME NEW d \in Consumers, Busy(d)' PROVE Running(d)' \/ Failing(d)'
        <3>1. Busy(d) /\ inHand'[d] = inHand[d] /\ todo'[d] = todo[d]
            BY <1>0, <2>1 DEF Busy
        <3> QED BY <1>2, <3>1, HandStays
    <2> QED BY <2>1 DEF HandsAreGood
<1>5. PastIsSettled'
    <2>1. ASSUME NEW d \in Consumers, NEW k \in 1..position'[d],
                 k # inHand'[d] \/ k <= committed'[d]
          PROVE  Settled(d, k)'
        <3>1. k \in 1..position[d] /\ Settled(d, k)
            BY <1>0, <2>1 DEF PastIsSettled
        <3> QED BY <1>2, <3>1, SettledStays
    <2> QED BY <2>1 DEF PastIsSettled
<1> QED BY <1>2, <1>3, <1>4, <1>5 DEF PipeInv

\* Every step keeps the invariant.
LEMMA PipeStep == WorkersAssumption /\ PipeInv /\ [PipeNext]_pipeVars => PipeInv'
<1> SUFFICES ASSUME WorkersAssumption, PipeInv, [PipeNext]_pipeVars PROVE PipeInv'
    OBVIOUS
<1>1. deployed \subseteq Consumers
    BY DEF PipeInv, Shape
<1>2. CASE \E c \in deployed : Fetch(c)
    BY <1>1, <1>2, FetchStep
<1>3. CASE \E c \in deployed : StepSucceeds(c)
    BY <1>1, <1>3, SucceedsStep
<1>4. CASE \E c \in deployed : StepFails(c)
    BY <1>1, <1>4, FailsStep
<1>5. CASE \E c \in deployed : Restart(c)
    BY <1>1, <1>5, RestartStep
<1>6. CASE Drained \/ UNCHANGED pipeVars
    BY <1>6, StutterStep DEF Drained
<1> QED BY <1>2, <1>3, <1>4, <1>5, <1>6 DEF PipeNext, Work

----------------------------------------------------------------------------
(* The beginning: what services outside the deployment have published. *)

\* What is published of messages of c's topic is messages of the topic it goes to.
LEMMA PublishedTyped ==
    ASSUME WorkersAssumption, NEW c \in Consumers, NEW t, NEW ms \in Seq(Orders(TopicOf[c]))
    PROVE  Published(t, Effects(c, ms)) \in Seq(Orders(t))
<1> DEFINE E == Orders(t)
           h(k) == HandlerAt(c, ms[k], 0)
           H == UNION {Range(h(k)) : k \in 1..Len(ms)}
           ss == [k \in DOMAIN ms |-> h(k)]
           es == Effects(c, ms)
           Of(j) == IF es[j].do = "publish" /\ es[j].on = t THEN <<es[j].what>> ELSE <<>>
           ps == [j \in DOMAIN es |-> Of(j)]
<1>0. DOMAIN ms = 1..Len(ms) /\ Len(ms) \in Nat
    OBVIOUS
<1>1. ASSUME NEW k \in 1..Len(ms)
      PROVE  /\ h(k) \in Seq(H)
             /\ \A e \in Range(h(k)) : e.do = "publish" => e.what \in Orders(e.on)
    <2>1. PICK m, g : m = ms[k] /\ g = HandlerAt(c, m, 0)
        OBVIOUS
    <2>2. m \in Orders(TopicOf[c])
        BY <1>1, <2>1
    <2>3. Proper(m, g)
        BY <2>1, <2>2, HandlersProper
    <2>4. IsList(g) /\ Len(g) \in Nat /\ DOMAIN g = 1..Len(g)
        BY <2>3, ProperSteps
    <2>5. \A e \in Range(g) : e.do = "publish" => e.what \in Orders(e.on)
        <3>1. PICK R : Legal(m, R, {}, g)
            BY <2>3 DEF Proper
        <3>2. \A j \in 1..Len(g) : May(m, R, {} \cup Before(g, j), g[j])
            BY <3>1 DEF Legal
        <3>3. \A j \in 1..Len(g) : g[j].do = "publish" => g[j].what \in Orders(g[j].on)
            BY <3>2 DEF May
        <3> QED BY <2>4, <3>3 DEF Range
    <2>6. Range(g) \subseteq H
        BY <1>1, <2>1
    <2>7. g \in Seq(H)
        <3>1. \A V, W : V \subseteq W => Seq(V) \subseteq Seq(W)
            OBVIOUS
        <3> HIDE DEF H
        <3> QED BY <2>4, <2>6, <3>1 DEF IsList
    <2> QED BY <2>1, <2>5, <2>7
<1>2. \A e \in H : e.do = "publish" => e.what \in Orders(e.on)
    BY <1>1
<1>3. ss \in Seq(Seq(H))
    <2> HIDE DEF H, h
    <2>1. ss \in [1..Len(ms) -> Seq(H)]
        BY <1>0, <1>1
    <2> HIDE DEF ss
    <2> QED BY <1>0, <2>1
<1>4. es = FlattenSeq(ss)
    BY DEF Effects
<1>5. es \in Seq(H)
    <2> HIDE DEF ss, H, es
    <2> QED BY <1>3, <1>4, FlattenJoins
<1>6. Published(t, es) = FlattenSeq(ps)
    BY DEF Published
<1> HIDE DEF es, H, h, ss
<1>7. DOMAIN es = 1..Len(es) /\ Len(es) \in Nat
    BY <1>5
<1>8. ASSUME NEW j \in 1..Len(es) PROVE Of(j) \in Seq(E)
    <2>1. es[j] \in H
        BY <1>5, <1>7
    <2>2. CASE es[j].do = "publish" /\ es[j].on = t
        <3>1. es[j].what \in E
            BY <1>2, <2>1, <2>2
        <3> HIDE DEF E
        <3> QED BY <2>2, <3>1
    <2>3. CASE ~(es[j].do = "publish" /\ es[j].on = t)
        BY <2>3
    <2> QED BY <2>2, <2>3
<1> HIDE DEF Of, E
<1>9. ps \in Seq(Seq(E))
    <2>1. ps \in [1..Len(es) -> Seq(E)]
        BY <1>7, <1>8
    <2> HIDE DEF ps
    <2> QED BY <1>7, <2>1
<1> HIDE DEF ps
<1>10. FlattenSeq(ps) \in Seq(E)
    BY <1>9, FlattenJoins
<1> QED BY <1>6, <1>10 DEF E, es

\* So are the commands.
LEMMA CommandsTyped ==
    Commands \in Seq(CloneOrders)
<1> DEFINE runs == SetToSeq(RunIds)
<1>1. runs \in Seq(RunIds) /\ Len(runs) \in Nat
    BY PipelineAssumption, SetListed DEF PipelineAssumption
<1>2. Commands = [k \in 1..Len(runs) |-> Envelope(runs[k], NoItem, NoBlob)]
    BY DEF Commands
<1> HIDE DEF runs
<1>3. \A k \in 1..Len(runs) : Envelope(runs[k], NoItem, NoBlob) \in CloneOrders
    BY <1>1 DEF CloneOrders
<1> QED BY <1>1, <1>2, <1>3

\* And everything there is at first.
LEMMA AllTyped ==
    ASSUME WorkersAssumption, NEW t \in Topics
    PROVE  All(t) \in Seq(Orders(t))
<1>0. /\ {"clone", "expand", "parse", "typecheck", "graph"} \subseteq Consumers
      /\ TopicOf["clone"] = "clone" /\ TopicOf["expand"] = "expand" /\ TopicOf["parse"] = "parse"
      /\ TopicOf["typecheck"] = "typecheck" /\ TopicOf["graph"] = "typed"
    BY DEF Consumers, TopicOf
<1>1. Commands \in Seq(Orders("clone"))
    BY CommandsTyped, OrdersOf
<1>2. \A u : Published(u, Cloning) \in Seq(Orders(u))
    BY <1>0, <1>1, PublishedTyped DEF Cloning
<1>3. \A u : Published(u, Expanding) \in Seq(Orders(u))
    BY <1>0, <1>2, PublishedTyped DEF Expanding
<1>4. \A u : Published(u, Parsing) \in Seq(Orders(u))
    BY <1>0, <1>3, PublishedTyped DEF Parsing
<1>5. \A u : Published(u, Typechecking) \in Seq(Orders(u))
    BY <1>0, <1>4, PublishedTyped DEF Typechecking
<1>6. \A u : Published(u, Extracting) \in Seq(Orders(u))
    BY <1>0, <1>5, PublishedTyped DEF Extracting
<1>7. CASE t = "clone"
    BY <1>1, <1>7 DEF All, Producer
<1>8. CASE t \in {"source", "expand"}
    BY <1>2, <1>8 DEF All, Producer
<1>9. CASE t \in {"expanded", "parse"}
    BY <1>3, <1>9 DEF All, Producer
<1>10. CASE t \in {"parsed", "typecheck"}
    BY <1>4, <1>10 DEF All, Producer
<1>11. CASE t = "typed"
    BY <1>5, <1>11 DEF All, Producer
<1>12. CASE t \in {"relation", "embed"}
    BY <1>6, <1>12 DEF All, Producer
<1> QED BY <1>7, <1>8, <1>9, <1>10, <1>11, <1>12 DEF Topics

\* The invariant holds at first.
LEMMA PipeStart == WorkersAssumption /\ PipeInit => PipeInv
<1> SUFFICES ASSUME WorkersAssumption, PipeInit PROVE PipeInv
    OBVIOUS
<1>1. deployed \subseteq Consumers
    BY PipelineAssumption DEF PipeInit, PipelineAssumption
<1> DEFINE G == Given(deployed)
<1>2. G \subseteq Topics
    BY DEF Given
<1>3. /\ topic = [t \in Topics |-> IF t \in G THEN All(t) ELSE <<>>]
      /\ blobs = (UNION {{All(t)[k].blob : k \in DOMAIN All(t)} : t \in G}) \ {NoBlob}
    BY DEF PipeInit
<1> HIDE DEF G
<1>4. \A t \in Topics : topic[t] \in Seq(Orders(t))
    BY <1>3, AllTyped
<1>5. Shape
    <2>1. TypeInstances = {}
        BY DEF PipeInit, TypeInstances, Tables
    <2>2. IsFiniteSet(TypeInstances)
        BY <2>1, FS_EmptySet
    <2>3. DOMAIN topic = Topics /\ topic = [t \in Topics |-> topic[t]]
        BY <1>3
    <2>4. /\ position \in [Consumers -> Nat] /\ committed \in [Consumers -> Nat]
          /\ inHand \in [Consumers -> Nat] /\ todo = [c \in Consumers |-> todo[c]]
          /\ tables = [t \in Tables |-> tables[t]] /\ reports = {}
        BY DEF PipeInit
    <2> QED BY <1>1, <1>4, <2>2, <2>3, <2>4 DEF Shape
<1>6. \A c \in Consumers : ~Busy(c) /\ position[c] = 0
    BY DEF PipeInit, Busy
<1>7. PipeTypeOK
    <2>1. ASSUME NEW c \in Consumers
          PROVE  /\ committed[c] \in 0..position[c]
                 /\ position[c] \in 0..Len(topic[TopicOf[c]])
                 /\ inHand[c] \in {0, position[c]}
                 /\ (inHand[c] = 0) <=> (todo[c] = <<>>)
        <3>1. TopicOf[c] \in Topics
            BY DEF TopicOf, Consumers, Topics
        <3>2. Len(topic[TopicOf[c]]) \in Nat
            BY <1>4, <3>1
        <3>3. committed[c] = 0 /\ position[c] = 0 /\ inHand[c] = 0 /\ todo[c] = <<>>
            BY DEF PipeInit
        <3> QED BY <3>2, <3>3
    <2>2. errors \in 0..MaxErrors /\ crashes \in 0..MaxCrashes
        BY PipelineAssumption DEF PipeInit, PipelineAssumption
    <2> QED BY <1>6, <2>1, <2>2 DEF PipeTypeOK
<1>8. BlobBeforeReference
    <2>1. ASSUME NEW t \in Topics, NEW k \in DOMAIN topic[t]
          PROVE  topic[t][k].blob \in blobs \cup {NoBlob}
        <3>1. CASE t \in G
            <4>1. topic[t] = All(t)
                BY <1>3, <3>1
            <4> DEFINE K == {{All(u)[j].blob : j \in DOMAIN All(u)} : u \in G}
                       x == topic[t][k].blob
                       S == {All(t)[j].blob : j \in DOMAIN All(t)}
            <4>2. x \in S
                BY <2>1, <4>1
            <4>3. blobs = (UNION K) \ {NoBlob}
                BY <1>3
            <4>4. S \in K
                BY <3>1
            <4> HIDE DEF K, x, S
            <4>5. x \in blobs \cup {NoBlob}
                BY <4>2, <4>3, <4>4
            <4> QED BY <4>5 DEF x
        <3>2. CASE t \notin G
            <4>1. topic[t] = <<>>
                BY <1>3, <3>2
            <4> QED BY <2>1, <4>1
        <3> QED BY <3>1, <3>2
    <2> QED BY <2>1 DEF BlobBeforeReference
<1>9. DoneAfterHandOver /\ EdgeHasEnds
    BY DEF PipeInit, DoneAfterHandOver, EdgeHasEnds, Tables
<1>10. HandsAreGood
    BY <1>6 DEF HandsAreGood
<1>11. PastIsSettled
    BY <1>6 DEF PastIsSettled
<1> QED BY <1>5, <1>7, <1>8, <1>9, <1>10, <1>11 DEF PipeInv

(* NothingLostSilently holds of every deployment, of any runs and items and *)
(* with any numbers of errors and restarts: a message a worker (rb-kafka's  *)
(* consumer loop and the service's handler) has committed past has all the  *)
(* effects its handler requires, or an error was counted, and reported as   *)
(* the run's stage failed unless it was the Neo4j projector's; blobs come   *)
(* before the messages that refer to them, work before the report that it   *)
(* is done, nodes before their edges.                                       *)
THEOREM NothingIsLostSilently == PipeSpec => []NothingLostSilently
<1>1. PipeInit => PipeInv
    BY PipeStart, WorkersAssumption
<1>2. PipeInv /\ [PipeNext]_pipeVars => PipeInv'
    BY PipeStep, WorkersAssumption
<1> QED BY <1>1, <1>2, PipeInvImplies, PTL DEF PipeSpec
=============================================================================
