--------------------------- MODULE TemplatesProofs ---------------------------
(***************************************************************************)
(* Theorems about Templates, for any number of names and of POSTs, DELETEs *)
(* and lookups at the same time.                                           *)
(***************************************************************************)
EXTENDS Templates, SequenceTheorems, FiniteSetTheorems, TLAPS

-----------------------------------------------------------------------------
(***************************************************************************)
(* Types.                                                                  *)
(***************************************************************************)
Saves == [pc : {"save"}, row : Nat]
Gone  == {New, Ended("deleted"), Ended("missing")}

\* The variables are functions on the requests and hold their values.
Shape ==
  /\ rows \in Seq(Row)
  /\ up \in [Upserts -> Upsert \union Answers \union {New}]
  /\ del \in [Deletes -> Saves \union Gone]
  /\ read \in [Reads -> Read \union {New}]

\* The steps that a POST has before its end.
Steps == {"lock", "number", "create", "insert"}

LEMMA UpKinds ==
  ASSUME NEW x \in Upsert \union Answers \union {New}
  PROVE  /\ x.pc \in Steps => x \in Upsert
         /\ x \in Upsert => x.pc \in Steps
         /\ x # New => x \in Upsert \union Answers
<1>1. CASE x \in Upsert
  BY <1>1 DEF Upsert, Steps
<1>2. CASE x \in Answers
  <2>1. PICK c \in {"created", "conflict", "error", "aborted"} : x = [pc |-> c]
    BY <1>2 DEF Answers, Ended
  <2>2. x.pc \notin Steps
    BY <2>1 DEF Steps
  <2> QED
    BY <1>2, <2>2, <1>1
<1>3. CASE x = New
  <2>1. x.pc \notin Steps
    BY <1>3 DEF New, Steps
  <2> QED
    BY <1>3, <2>1, <1>1
<1> QED
  BY <1>1, <1>2, <1>3

LEMMA EndedKinds ==
  /\ \A c \in {"created", "conflict", "error", "aborted"} :
       Ended(c) \in Answers /\ Ended(c).pc = c
  /\ New.pc = "new"
  BY DEF Answers, Ended, New

LEMMA DelKinds ==
  ASSUME NEW x \in Saves \union Gone
  PROVE  x.pc = "save" <=> x \in Saves
  BY DEF Saves, Gone, New, Ended

LEMMA ReadKinds ==
  ASSUME NEW x \in Read \union {New}
  PROVE  /\ x.pc = "new" <=> x = New
         /\ x.pc # "new" => x \in Read
  BY DEF Read, New

\* A row of the table, and what a sequence of rows is.
LEMMA RowFields ==
  ASSUME NEW s \in Seq(Row), NEW i \in DOMAIN s
  PROVE  /\ i \in 1..Len(s) /\ i \in Nat /\ i # 0
         /\ s[i] \in Row
         /\ s[i].name \in Names /\ s[i].channel \in Channel /\ s[i].alive \in BOOLEAN
         /\ s[i].bodies \in Seq(Bodies) /\ Len(s[i].bodies) \in Nat
         /\ DOMAIN s[i].bodies = 1..Len(s[i].bodies)
<1>1. DOMAIN s = 1..Len(s) /\ Len(s) \in Nat
  BY LenProperties
<1>2. s[i] \in Row /\ i \in Nat /\ i # 0
  BY <1>1, ElementOfSeq
<1>3. s[i].bodies \in Seq(Bodies)
  BY <1>2 DEF Row
<1>4. Len(s[i].bodies) \in Nat /\ DOMAIN s[i].bodies = 1..Len(s[i].bodies)
  BY <1>3, LenProperties
<1> QED
  BY <1>1, <1>2, <1>3, <1>4 DEF Row

LEMMA SeqReplaced ==
  ASSUME NEW S, NEW s \in Seq(S), NEW i \in DOMAIN s, NEW t \in S
  PROVE  [s EXCEPT ![i] = t] \in Seq(S)
<1>1. Len(s) \in Nat /\ s \in [1..Len(s) -> S]
  BY LenProperties
<1>2. [s EXCEPT ![i] = t] \in [1..Len(s) -> S]
  BY <1>1
<1> QED
  BY <1>1, <1>2, SeqDef

\* The three ways in which the table changes: a row is added, a version is added
\* to a row, a row is marked deleted.  None of them takes a row or a version away
\* or gives it to another name or channel, and a deleted row stays as it is.
Extends(s, t) ==
  \A i \in DOMAIN s :
    /\ i \in DOMAIN t
    /\ t[i].name = s[i].name /\ t[i].channel = s[i].channel
    /\ \A v \in DOMAIN s[i].bodies :
         v \in DOMAIN t[i].bodies /\ t[i].bodies[v] = s[i].bodies[v]
    /\ t[i].bodies # s[i].bodies => s[i].alive /\ t[i].alive

LEMMA RowAdded ==
  ASSUME NEW s \in Seq(Row), NEW t \in Row
  PROVE  /\ Append(s, t) \in Seq(Row)
         /\ DOMAIN Append(s, t) = DOMAIN s \union {Len(s) + 1}
         /\ Len(s) + 1 \notin DOMAIN s
         /\ Append(s, t)[Len(s) + 1] = t
         /\ \A j \in DOMAIN s : Append(s, t)[j] = s[j]
<1>1. DOMAIN s = 1..Len(s) /\ Len(s) \in Nat
  BY LenProperties
<1>2. /\ Append(s, t) \in Seq(Row)
      /\ Len(Append(s, t)) = Len(s) + 1
      /\ \A i \in 1..Len(s) + 1 : Append(s, t)[i] = IF i <= Len(s) THEN s[i] ELSE t
  BY AppendProperties
<1>3. DOMAIN Append(s, t) = 1..(Len(s) + 1)
  BY <1>2, LenProperties
<1> QED
  BY <1>1, <1>2, <1>3

WithVersion(s, i, b) == [s EXCEPT ![i].bodies = Append(@, b)]
Deleted(s, i) == [s EXCEPT ![i].alive = FALSE]

LEMMA VersionAdded ==
  ASSUME NEW s \in Seq(Row), NEW i \in DOMAIN s, NEW b \in Bodies
  PROVE  /\ WithVersion(s, i, b) \in Seq(Row)
         /\ DOMAIN WithVersion(s, i, b) = DOMAIN s
         /\ \A j \in DOMAIN s : j # i => WithVersion(s, i, b)[j] = s[j]
         /\ WithVersion(s, i, b)[i].name = s[i].name /\ WithVersion(s, i, b)[i].channel = s[i].channel /\ WithVersion(s, i, b)[i].alive = s[i].alive
         /\ Len(WithVersion(s, i, b)[i].bodies) = Len(s[i].bodies) + 1
         /\ \A v \in DOMAIN s[i].bodies :
              /\ v \in DOMAIN WithVersion(s, i, b)[i].bodies
              /\ WithVersion(s, i, b)[i].bodies[v] = s[i].bodies[v]
<1>0. PICK T : T = WithVersion(s, i, b)
  OBVIOUS
<1>1. s[i] \in Row /\ i \in 1..Len(s) /\ s[i].bodies \in Seq(Bodies)
      /\ DOMAIN s[i].bodies = 1..Len(s[i].bodies) /\ Len(s[i].bodies) \in Nat
  BY RowFields
<1>2. PICK B : B = Append(s[i].bodies, b)
  OBVIOUS
<1>3. /\ B \in Seq(Bodies) /\ Len(B) = Len(s[i].bodies) + 1
      /\ \A v \in DOMAIN s[i].bodies : v \in DOMAIN B /\ B[v] = s[i].bodies[v]
  <2>1. B \in Seq(Bodies) /\ Len(B) = Len(s[i].bodies) + 1
    BY <1>1, <1>2, AppendProperties
  <2>2. \A v \in DOMAIN s[i].bodies : B[v] = s[i].bodies[v]
    BY <1>1, <1>2, AppendProperties
  <2>3. DOMAIN B = 1..Len(B)
    BY <2>1, LenProperties
  <2> QED
    BY <1>1, <2>1, <2>2, <2>3
<1>4. PICK t : t = [s[i] EXCEPT !.bodies = B]
  OBVIOUS
<1>5. t \in Row /\ t.name = s[i].name /\ t.channel = s[i].channel /\ t.alive = s[i].alive
      /\ t.bodies = B
  BY <1>1, <1>3, <1>4 DEF Row
<1>6. T = [s EXCEPT ![i] = t]
  BY <1>0, <1>2, <1>4 DEF WithVersion
<1>7. T \in Seq(Row) /\ T[i] = t /\ \A j \in DOMAIN s : j # i => T[j] = s[j]
  <2>1. T \in Seq(Row)
    <3>1. t \in Row
      BY <1>5
    <3>2. [s EXCEPT ![i] = t] \in Seq(Row)
      BY <3>1, SeqReplaced
    <3> QED
      BY <3>2, <1>6
  <2>2. i \in DOMAIN s
    OBVIOUS
  <2> QED
    BY <1>6, <2>1, <2>2
<1> QED
  BY <1>0, <1>3, <1>5, <1>6, <1>7

LEMMA RowDeleted ==
  ASSUME NEW s \in Seq(Row), NEW i \in DOMAIN s
  PROVE  /\ Deleted(s, i) \in Seq(Row)
         /\ DOMAIN Deleted(s, i) = DOMAIN s
         /\ \A j \in DOMAIN s : j # i => Deleted(s, i)[j] = s[j]
         /\ Deleted(s, i)[i].name = s[i].name /\ Deleted(s, i)[i].channel = s[i].channel /\ Deleted(s, i)[i].bodies = s[i].bodies
         /\ Deleted(s, i)[i].alive = FALSE
<1>0. PICK T : T = Deleted(s, i)
  OBVIOUS
<1>1. s[i] \in Row /\ i \in 1..Len(s)
  BY RowFields
<1>2. PICK t : t = [s[i] EXCEPT !.alive = FALSE]
  OBVIOUS
<1>3. t \in Row /\ t.name = s[i].name /\ t.channel = s[i].channel /\ t.alive = FALSE
      /\ t.bodies = s[i].bodies
  BY <1>1, <1>2 DEF Row
<1>4. T = [s EXCEPT ![i] = t]
  BY <1>0, <1>2 DEF Deleted
<1>5. T \in Seq(Row) /\ T[i] = t /\ \A j \in DOMAIN s : j # i => T[j] = s[j]
  <2>1. T \in Seq(Row)
    <3>1. t \in Row
      BY <1>3
    <3>2. [s EXCEPT ![i] = t] \in Seq(Row)
      BY <3>1, SeqReplaced
    <3> QED
      BY <3>2, <1>4
  <2>2. i \in DOMAIN s
    OBVIOUS
  <2> QED
    BY <1>4, <2>1, <2>2
<1> QED
  BY <1>0, <1>3, <1>4, <1>5

-----------------------------------------------------------------------------
(***************************************************************************)
(* The inductive invariant.                                                *)
(***************************************************************************)

\* What a POST knows of the table.  While it waits for the lock, its row is of
\* its name; while it holds the lock, the row is alive and its number is still
\* the next one; and while its own row is not committed, the name has none.
Fits(x) ==
  /\ x.pc = "lock" => x.row \in DOMAIN rows
  /\ x.pc = "number" => x.row \in DOMAIN rows /\ rows[x.row].alive
  /\ x.pc = "create" => x.row = 0
  /\ x.pc = "insert" =>
       IF x.row = 0
       THEN x.no = 1 /\ \A i \in DOMAIN rows : rows[i].name = x.name => ~ rows[i].alive
       ELSE /\ x.row \in DOMAIN rows
            /\ rows[x.row].alive
            /\ x.no = Len(rows[x.row].bodies) + 1

\* Two POSTs at work on one row, or about to commit the same name.
Clash(x, y) ==
  /\ x.pc \in {"number", "insert"} /\ y.pc \in {"number", "insert"}
  /\ x.row = y.row
  /\ x.row = 0 => x.name = y.name

PostsFit == \A u \in Upserts : Fits(up[u])
NoClash == \A u, v \in Upserts : u # v => ~ Clash(up[u], up[v])
OneLive == \A i, j \in DOMAIN rows :
             rows[i].alive /\ rows[j].alive /\ rows[i].name = rows[j].name => i = j
HasVersions == \A i \in DOMAIN rows : Len(rows[i].bodies) >= 1
DeletesFit == \A d \in Deletes : del[d].pc = "save" => del[d].row \in DOMAIN rows

Table == PostsFit /\ NoClash /\ OneLive /\ HasVersions /\ DeletesFit

-----------------------------------------------------------------------------
(***************************************************************************)
(* A step of a POST that leaves the table as it is.                        *)
(***************************************************************************)
LEMMA PostMoves ==
  ASSUME Shape, Table, NEW u \in Upserts, NEW z \in Upsert \union Answers,
         up' = [up EXCEPT ![u] = z], UNCHANGED <<rows, del, read>>,
         Fits(z), \A v \in Upserts \ {u} : ~ Clash(z, up[v])
  PROVE  Shape' /\ Table'
<1>1. Shape'
  BY DEF Shape
<1>2. \A v \in Upserts : up'[v] = IF v = u THEN z ELSE up[v]
  BY DEF Shape
<1>3. PostsFit'
  <2> SUFFICES ASSUME NEW v \in Upserts PROVE Fits(up[v])'
    BY DEF PostsFit
  <2>1. Fits(up[v]) /\ rows' = rows
    BY DEF Table, PostsFit
  <2>2. CASE v = u
    BY <1>2, <2>1, <2>2 DEF Fits
  <2>3. CASE v # u
    BY <1>2, <2>1, <2>3 DEF Fits
  <2> QED
    BY <2>2, <2>3
<1>4. NoClash'
  <2> SUFFICES ASSUME NEW v \in Upserts, NEW w \in Upserts, v # w
               PROVE  ~ Clash(up'[v], up'[w])
    BY DEF NoClash, Clash
  <2>1. ~ Clash(up[v], up[w])
    BY DEF Table, NoClash
  <2>2. CASE v = u
    BY <1>2, <2>2
  <2>3. CASE w = u
    BY <1>2, <2>3 DEF Clash
  <2> QED
    BY <1>2, <2>1, <2>2, <2>3
<1>5. OneLive' /\ HasVersions' /\ DeletesFit'
  BY DEF Table, OneLive, HasVersions, DeletesFit
<1> QED
  BY <1>1, <1>3, <1>4, <1>5 DEF Table

LEMMA EndedMoves ==
  ASSUME Shape, Table, NEW u \in Upserts,
         NEW c \in {"created", "conflict", "error", "aborted"},
         up' = [up EXCEPT ![u] = Ended(c)], UNCHANGED <<rows, del, read>>
  PROVE  Shape' /\ Table'
<1>1. Ended(c) \in Answers /\ Ended(c).pc = c
  BY EndedKinds
<1>2. Fits(Ended(c)) /\ \A v \in Upserts \ {u} : ~ Clash(Ended(c), up[v])
  BY <1>1 DEF Fits, Clash
<1> QED
  BY <1>1, <1>2, PostMoves

\* A lock that is not held is nobody's, and a row found alive is the live one.
LEMMA LiveRow ==
  ASSUME Shape, NEW n
  PROVE  /\ Alive(n) = {} => Live(n) = 0
         /\ Alive(n) # {} => /\ Live(n) \in DOMAIN rows /\ Live(n) \in Nat /\ Live(n) # 0
                             /\ rows[Live(n)].alive /\ rows[Live(n)].name = n
         /\ Live(n) \in Nat
<1>1. Alive(n) # {} => Live(n) \in Alive(n)
  BY DEF Live
<1>2. ASSUME NEW i \in Alive(n)
      PROVE  i \in DOMAIN rows /\ i \in Nat /\ i # 0 /\ rows[i].alive /\ rows[i].name = n
  <2>1. i \in DOMAIN rows /\ rows[i].alive /\ rows[i].name = n
    BY <1>2 DEF Alive
  <2> QED
    BY <2>1, RowFields DEF Shape
<1>3. Alive(n) = {} => Live(n) = 0
  BY DEF Live
<1> QED
  BY <1>1, <1>2, <1>3

LEMMA LookMoves ==
  ASSUME Shape, Table, NEW u \in Upserts, UpsertLook(u)
  PROVE  Shape' /\ Table'
<1>1. PICK n \in Names, c \in Channel, b \in Bodies :
        up' = [up EXCEPT ![u] = [pc |-> IF Alive(n) = {} THEN "create" ELSE "lock",
                                 name |-> n, channel |-> c, body |-> b,
                                 row |-> Live(n), no |-> 0]]
  BY DEF UpsertLook
<1>2. PICK z : z = [pc |-> IF Alive(n) = {} THEN "create" ELSE "lock",
                    name |-> n, channel |-> c, body |-> b, row |-> Live(n), no |-> 0]
  OBVIOUS
<1>3. z \in Upsert
  BY <1>2, LiveRow DEF Upsert
<1>4. Fits(z)
  BY <1>2, LiveRow DEF Fits
<1>5. \A v \in Upserts \ {u} : ~ Clash(z, up[v])
  BY <1>2 DEF Clash
<1> QED
  BY <1>1, <1>2, <1>3, <1>4, <1>5, PostMoves DEF UpsertLook

LEMMA LockMoves ==
  ASSUME Shape, Table, NEW u \in Upserts, UpsertLock(u)
  PROVE  Shape' /\ Table'
<1>1. up[u].pc = "lock" /\ up[u] \in Upsert /\ up[u].row \in DOMAIN rows
  BY UpKinds DEF UpsertLock, Shape, Table, PostsFit, Fits, Steps
<1>2. ~ Locked(up[u].row) /\ UNCHANGED <<rows, del, read>>
  BY DEF UpsertLock
<1>3. CASE up' = [up EXCEPT ![u].pc = "create", ![u].row = 0]
  <2>1. PICK z : z = [up[u] EXCEPT !.pc = "create", !.row = 0]
    OBVIOUS
  <2>2. z \in Upsert /\ z.pc = "create" /\ z.row = 0
    BY <1>1, <2>1 DEF Upsert
  <2>3. up' = [up EXCEPT ![u] = z]
    BY <1>3, <2>1 DEF Shape
  <2>4. Fits(z) /\ \A v \in Upserts \ {u} : ~ Clash(z, up[v])
    BY <2>2 DEF Fits, Clash
  <2> QED
    BY <1>2, <2>2, <2>3, <2>4, PostMoves
<1>4. CASE up' = [up EXCEPT ![u] = Ended("conflict")]
  BY <1>2, <1>4, EndedMoves
<1>5. CASE rows[up[u].row].alive /\ up' = [up EXCEPT ![u] = [up[u] EXCEPT !.pc = "number"]]
  <2>1. PICK z : z = [up[u] EXCEPT !.pc = "number"]
    OBVIOUS
  <2>2. z \in Upsert /\ z.pc = "number" /\ z.row = up[u].row
    BY <1>1, <2>1 DEF Upsert
  <2>3. Fits(z)
    BY <1>1, <1>5, <2>2 DEF Fits
  <2>4. ASSUME NEW v \in Upserts \ {u} PROVE ~ Clash(z, up[v])
    BY <1>2, <2>2 DEF Clash, Locked
  <2> QED
    BY <1>2, <1>5, <2>1, <2>2, <2>3, <2>4, PostMoves
<1> QED
  BY <1>3, <1>4, <1>5 DEF UpsertLock, StillMatches

LEMMA NumberMoves ==
  ASSUME Shape, Table, NEW u \in Upserts, UpsertNumber(u)
  PROVE  Shape' /\ Table'
<1>1. up[u].pc = "number" /\ up[u] \in Upsert /\ up[u].row \in DOMAIN rows
      /\ rows[up[u].row].alive
  BY UpKinds DEF UpsertNumber, Shape, Table, PostsFit, Fits, Steps
<1>2. /\ Len(rows[up[u].row].bodies) \in Nat
      /\ LatestVersion(up[u].row) = Len(rows[up[u].row].bodies)
      /\ up[u].row # 0
  BY <1>1, RowFields DEF Shape, LatestVersion
<1>3. PICK no \in Nat : no = Len(rows[up[u].row].bodies) + 1
  BY <1>2
<1>4. PICK z : z = [up[u] EXCEPT !.pc = "insert", !.no = no]
  OBVIOUS
<1>5. z \in Upsert /\ z.pc = "insert" /\ z.no = no /\ z.row = up[u].row
  BY <1>1, <1>4 DEF Upsert
<1>6. up' = [up EXCEPT ![u] = z]
  BY <1>2, <1>3, <1>4 DEF UpsertNumber, Shape
<1>7. Fits(z)
  BY <1>1, <1>2, <1>3, <1>5 DEF Fits
<1>8. ASSUME NEW v \in Upserts \ {u} PROVE ~ Clash(z, up[v])
  <2>1. ~ Clash(up[u], up[v])
    BY DEF Table, NoClash
  <2> QED
    BY <1>1, <1>2, <1>5, <2>1 DEF Clash
<1> QED
  BY <1>5, <1>6, <1>7, <1>8, PostMoves DEF UpsertNumber

LEMMA CreateMoves ==
  ASSUME Shape, Table, NEW u \in Upserts, UpsertCreate(u)
  PROVE  Shape' /\ Table'
<1>1. up[u].pc = "create" /\ up[u] \in Upsert /\ up[u].row = 0
  BY UpKinds DEF UpsertCreate, Shape, Table, PostsFit, Fits, Steps
<1>2. UNCHANGED <<rows, del, read>>
  BY DEF UpsertCreate
<1>3. CASE up' = [up EXCEPT ![u] = Ended("error")]
  BY <1>2, <1>3, EndedMoves
<1>4. CASE /\ Alive(up[u].name) = {}
           /\ up' = [up EXCEPT ![u] = [up[u] EXCEPT !.pc = "insert", !.no = 1]]
  <2>1. PICK z : z = [up[u] EXCEPT !.pc = "insert", !.no = 1]
    OBVIOUS
  <2>2. z \in Upsert /\ z.pc = "insert" /\ z.no = 1 /\ z.row = 0 /\ z.name = up[u].name
    BY <1>1, <2>1 DEF Upsert
  <2>3. Fits(z)
    BY <1>4, <2>2 DEF Fits, Alive
  <2>4. ASSUME NEW v \in Upserts \ {u} PROVE ~ Clash(z, up[v])
    <3>1. up[v].pc = "insert" => up[v].row # 0 \/ up[v].name # up[u].name
      BY DEF UpsertCreate
    <3>2. up[v].pc = "number" => up[v].row # 0
      BY RowFields DEF Table, PostsFit, Fits, Shape
    <3> QED
      BY <2>2, <3>1, <3>2 DEF Clash
  <2> QED
    BY <1>2, <1>4, <2>1, <2>2, <2>3, <2>4, PostMoves
<1> QED
  BY <1>3, <1>4 DEF UpsertCreate, NameIsFree

-----------------------------------------------------------------------------
(***************************************************************************)
(* The steps that change the table.                                        *)
(***************************************************************************)

\* A POST that ends: the others are where they were, and its own end fits and
\* clashes with nobody.
LEMMA PostEnds ==
  ASSUME Shape, Table, NEW u \in Upserts, up' = [up EXCEPT ![u] = Ended("created")]
  PROVE  /\ up' \in [Upserts -> Upsert \union Answers \union {New}]
         /\ up'[u].pc = "created"
         /\ \A v \in Upserts \ {u} : up'[v] = up[v]
         /\ NoClash'
<1>1. Ended("created") \in Answers /\ Ended("created").pc = "created"
  BY EndedKinds
<1>2. up' \in [Upserts -> Upsert \union Answers \union {New}]
  BY <1>1 DEF Shape
<1>3. up'[u].pc = "created" /\ \A v \in Upserts \ {u} : up'[v] = up[v]
  BY <1>1 DEF Shape
<1>4. ASSUME NEW v \in Upserts, NEW w \in Upserts, v # w PROVE ~ Clash(up'[v], up'[w])
  <2>1. ~ Clash(up[v], up[w])
    BY <1>4 DEF Table, NoClash
  <2> QED
    BY <1>3, <1>4, <2>1 DEF Clash
<1>5. NoClash'
  BY <1>4 DEF NoClash, Clash
<1> QED
  BY <1>2, <1>3, <1>5

\* The number of an insert is always free.
LEMMA InsertSucceeds ==
  ASSUME Shape, Table, NEW u \in Upserts, UpsertInsert(u)
  PROVE  /\ VersionIsFree(up[u].row, up[u].no)
         /\ up[u] \in Upsert /\ Fits(up[u]) /\ up[u].pc = "insert"
         /\ up' = [up EXCEPT ![u] = Ended("created")]
         /\ UNCHANGED <<del, read>>
         /\ up[u].row = 0 =>
              rows' = Append(rows, [name |-> up[u].name, channel |-> up[u].channel,
                                    alive |-> TRUE, bodies |-> <<up[u].body>>])
         /\ up[u].row # 0 =>
              rows' = [rows EXCEPT ![up[u].row].bodies = Append(@, up[u].body)]
<1>1. up[u] \in Upsert /\ Fits(up[u]) /\ up[u].pc = "insert"
  BY UpKinds DEF UpsertInsert, Shape, Table, PostsFit, Steps
<1>2. VersionIsFree(up[u].row, up[u].no)
  <2>1. CASE up[u].row = 0
    BY <1>1, <2>1 DEF VersionIsFree, LatestVersion, Fits
  <2>2. CASE up[u].row # 0
    <3>1. up[u].row \in DOMAIN rows /\ up[u].no = Len(rows[up[u].row].bodies) + 1
      BY <1>1, <2>2 DEF Fits
    <3>2. Len(rows[up[u].row].bodies) \in Nat
      BY <3>1, RowFields DEF Shape
    <3> QED
      BY <2>2, <3>1, <3>2 DEF VersionIsFree, LatestVersion
  <2> QED
    BY <2>1, <2>2
<1> QED
  BY <1>1, <1>2 DEF UpsertInsert

LEMMA RowIsAdded ==
  ASSUME Shape, Table, NEW u \in Upserts, UpsertInsert(u), up[u].row = 0
  PROVE  Shape' /\ Table' /\ Extends(rows, rows')
<1>0. /\ up[u] \in Upsert /\ Fits(up[u]) /\ up[u].pc = "insert"
      /\ up' = [up EXCEPT ![u] = Ended("created")] /\ UNCHANGED <<del, read>>
  BY InsertSucceeds
<1>1. PICK t : t = [name |-> up[u].name, channel |-> up[u].channel,
                    alive |-> TRUE, bodies |-> <<up[u].body>>]
  OBVIOUS
<1>2. t \in Row /\ t.name = up[u].name /\ Len(t.bodies) = 1
  <2>1. up[u].body \in Bodies /\ up[u].name \in Names /\ up[u].channel \in Channel
    BY <1>0 DEF Upsert
  <2>2. <<up[u].body>> \in Seq(Bodies) /\ Len(<<up[u].body>>) = 1
    BY <2>1
  <2> QED
    BY <1>1, <2>1, <2>2 DEF Row
<1>3. PICK k : k = Len(rows) + 1
  OBVIOUS
<1>4. /\ rows' \in Seq(Row) /\ DOMAIN rows' = DOMAIN rows \union {k} /\ k \notin DOMAIN rows
      /\ rows'[k] = t /\ \A j \in DOMAIN rows : rows'[j] = rows[j]
  <2>1. rows \in Seq(Row) /\ t \in Row
    BY <1>2 DEF Shape
  <2>2. rows' = Append(rows, t)
    BY <1>1, InsertSucceeds
  <2>3. /\ Append(rows, t) \in Seq(Row)
        /\ DOMAIN Append(rows, t) = DOMAIN rows \union {Len(rows) + 1}
        /\ Len(rows) + 1 \notin DOMAIN rows
        /\ Append(rows, t)[Len(rows) + 1] = t
        /\ \A j \in DOMAIN rows : Append(rows, t)[j] = rows[j]
    BY <2>1, RowAdded
  <2> QED
    BY <1>3, <2>2, <2>3
<1>5. /\ up' \in [Upserts -> Upsert \union Answers \union {New}]
      /\ up'[u].pc = "created" /\ \A v \in Upserts \ {u} : up'[v] = up[v]
      /\ NoClash'
  BY <1>0, PostEnds
<1>6. Shape'
  BY <1>0, <1>4, <1>5 DEF Shape
<1>7. PostsFit'
  <2> SUFFICES ASSUME NEW v \in Upserts PROVE Fits(up[v])'
    BY DEF PostsFit
  <2>1. CASE v = u
    BY <1>5, <2>1 DEF Fits
  <2>2. CASE v # u
    <3>1. Fits(up[v]) /\ ~ Clash(up[u], up[v]) /\ up'[v] = up[v]
      BY <1>5, <2>2 DEF Table, PostsFit, NoClash
    <3>2. up[v].pc = "insert" /\ up[v].row = 0 => up[v].name # t.name
      BY <1>0, <1>2, <3>1 DEF Clash
    <3> QED
      BY <1>4, <3>1, <3>2 DEF Fits
  <2> QED
    BY <2>1, <2>2
<1>8. OneLive'
  <2>1. \A i \in DOMAIN rows : rows[i].name = t.name => ~ rows[i].alive
    BY <1>0, <1>2 DEF Fits
  <2> QED
    BY <1>4, <2>1 DEF Table, OneLive
<1>9. HasVersions' /\ DeletesFit'
  BY <1>0, <1>2, <1>4 DEF Table, HasVersions, DeletesFit
<1>10. Extends(rows, rows')
  BY <1>4 DEF Extends
<1> QED
  BY <1>5, <1>6, <1>7, <1>8, <1>9, <1>10 DEF Table

LEMMA VersionIsAdded ==
  ASSUME Shape, Table, NEW u \in Upserts, UpsertInsert(u), up[u].row # 0
  PROVE  Shape' /\ Table' /\ Extends(rows, rows')
<1>0. /\ up[u] \in Upsert /\ Fits(up[u]) /\ up[u].pc = "insert"
      /\ up' = [up EXCEPT ![u] = Ended("created")] /\ UNCHANGED <<del, read>>
      /\ rows' = [rows EXCEPT ![up[u].row].bodies = Append(@, up[u].body)]
  BY InsertSucceeds
<1>1. PICK i \in DOMAIN rows : i = up[u].row
  BY <1>0 DEF Fits
<1>2. up[u].body \in Bodies /\ Len(rows[i].bodies) \in Nat
  BY <1>0, RowFields DEF Upsert, Shape
<1>3. /\ rows' \in Seq(Row) /\ DOMAIN rows' = DOMAIN rows
      /\ \A j \in DOMAIN rows : j # i => rows'[j] = rows[j]
      /\ rows'[i].name = rows[i].name /\ rows'[i].alive = rows[i].alive
      /\ rows'[i].channel = rows[i].channel
      /\ Len(rows'[i].bodies) = Len(rows[i].bodies) + 1
      /\ \A v \in DOMAIN rows[i].bodies :
           v \in DOMAIN rows'[i].bodies /\ rows'[i].bodies[v] = rows[i].bodies[v]
  <2>1. rows \in Seq(Row) /\ up[u].body \in Bodies
    BY <1>2 DEF Shape
  <2>2. rows' = [rows EXCEPT ![i].bodies = Append(@, up[u].body)]
    BY <1>0, <1>1
  <2>3. PICK T : T = WithVersion(rows, i, up[u].body)
    OBVIOUS
  <2>4. /\ T \in Seq(Row) /\ DOMAIN T = DOMAIN rows
        /\ \A j \in DOMAIN rows : j # i => T[j] = rows[j]
        /\ T[i].name = rows[i].name /\ T[i].alive = rows[i].alive
        /\ T[i].channel = rows[i].channel
        /\ Len(T[i].bodies) = Len(rows[i].bodies) + 1
        /\ \A v \in DOMAIN rows[i].bodies :
             v \in DOMAIN T[i].bodies /\ T[i].bodies[v] = rows[i].bodies[v]
    BY <2>1, <2>3, VersionAdded
  <2>5. rows' = T
    BY <2>2, <2>3 DEF WithVersion
  <2> QED
    BY <2>4, <2>5
<1>4. /\ up' \in [Upserts -> Upsert \union Answers \union {New}]
      /\ up'[u].pc = "created" /\ \A v \in Upserts \ {u} : up'[v] = up[v]
      /\ NoClash'
  BY <1>0, PostEnds
<1>5. Shape'
  BY <1>0, <1>3, <1>4 DEF Shape
<1>6. PostsFit'
  <2> SUFFICES ASSUME NEW v \in Upserts PROVE Fits(up[v])'
    BY DEF PostsFit
  <2>1. CASE v = u
    BY <1>4, <2>1 DEF Fits
  <2>2. CASE v # u
    <3>1. Fits(up[v]) /\ ~ Clash(up[u], up[v]) /\ up'[v] = up[v]
      BY <1>4, <2>2 DEF Table, PostsFit, NoClash
    <3>2. up[v].pc \in {"number", "insert"} => up[v].row # i
      BY <1>0, <1>1, <3>1 DEF Clash
    <3> QED
      BY <1>3, <3>1, <3>2 DEF Fits
  <2> QED
    BY <2>1, <2>2
<1>7. OneLive'
  BY <1>3 DEF Table, OneLive
<1>8. HasVersions' /\ DeletesFit'
  BY <1>0, <1>2, <1>3 DEF Table, HasVersions, DeletesFit
<1>9. Extends(rows, rows')
  <2>1. rows[i].alive
    BY <1>0, <1>1 DEF Fits
  <2> QED
    BY <1>3, <2>1 DEF Extends
<1> QED
  BY <1>4, <1>5, <1>6, <1>7, <1>8, <1>9 DEF Table

LEMMA RowIsDeleted ==
  ASSUME Shape, Table, NEW d \in Deletes, DeleteSave(d)
  PROVE  Shape' /\ Table' /\ Extends(rows, rows')
<1>0. PICK i \in DOMAIN rows : i = del[d].row /\ ~ Locked(i)
  BY DEF DeleteSave, Table, DeletesFit
<1>1. rows' = [rows EXCEPT ![i].alive = FALSE] /\ UNCHANGED <<up, read>>
  BY <1>0 DEF DeleteSave
<1>2. /\ rows' \in Seq(Row) /\ DOMAIN rows' = DOMAIN rows
      /\ \A j \in DOMAIN rows : j # i => rows'[j] = rows[j]
      /\ rows'[i].name = rows[i].name /\ rows'[i].bodies = rows[i].bodies
      /\ rows'[i].alive = FALSE /\ rows'[i].channel = rows[i].channel
  <2>1. rows \in Seq(Row)
    BY DEF Shape
  <2>2. rows' = [rows EXCEPT ![i].alive = FALSE]
    BY <1>1
  <2>3. PICK T : T = Deleted(rows, i)
    OBVIOUS
  <2>4. /\ T \in Seq(Row) /\ DOMAIN T = DOMAIN rows
        /\ \A j \in DOMAIN rows : j # i => T[j] = rows[j]
        /\ T[i].name = rows[i].name /\ T[i].bodies = rows[i].bodies
        /\ T[i].alive = FALSE /\ T[i].channel = rows[i].channel
    BY <2>1, <2>3, RowDeleted
  <2>5. rows' = T
    BY <2>2, <2>3 DEF Deleted
  <2> QED
    BY <2>4, <2>5
<1>3. del' = [del EXCEPT ![d] = Ended("deleted")]
  BY DEF DeleteSave
<1>4. Shape'
  BY <1>1, <1>2, <1>3 DEF Shape, Gone
<1>5. PostsFit'
  <2> SUFFICES ASSUME NEW v \in Upserts PROVE Fits(up[v])'
    BY DEF PostsFit
  <2>1. Fits(up[v]) /\ up'[v] = up[v]
    BY <1>1 DEF Table, PostsFit
  <2>2. up[v].pc \in {"number", "insert"} => up[v].row # i
    BY <1>0 DEF Locked
  <2> QED
    BY <1>2, <2>1, <2>2 DEF Fits
<1>6. NoClash'
  BY <1>1 DEF Table, NoClash, Clash
<1>7. OneLive' /\ HasVersions'
  BY <1>2 DEF Table, OneLive, HasVersions
<1>8. DeletesFit'
  BY <1>2, <1>3 DEF Table, DeletesFit, Shape, Ended
<1>9. Extends(rows, rows')
  BY <1>2 DEF Extends
<1> QED
  BY <1>4, <1>5, <1>6, <1>7, <1>8, <1>9 DEF Table

LEMMA DeleteLooks ==
  ASSUME Shape, Table, NEW d \in Deletes, DeleteLook(d)
  PROVE  Shape' /\ Table'
<1>1. UNCHANGED <<rows, up, read>>
  BY DEF DeleteLook
<1>2. PICK z \in Saves \union Gone :
        del' = [del EXCEPT ![d] = z] /\ (z.pc = "save" => z.row \in DOMAIN rows)
  <2>1. PICK n \in Names :
          del' = [del EXCEPT ![d] = IF Found(n) THEN [pc |-> "save", row |-> Live(n)]
                                    ELSE Ended("missing")]
    BY DEF DeleteLook
  <2>2. CASE Found(n)
    <3>1. PICK z : z = [pc |-> "save", row |-> Live(n)]
      OBVIOUS
    <3>2. z \in Saves /\ z.row \in DOMAIN rows
      BY <2>2, <3>1, LiveRow DEF Saves, Found
    <3> QED
      BY <2>1, <2>2, <3>1, <3>2
  <2>3. CASE ~ Found(n)
    <3>1. Ended("missing") \in Gone /\ Ended("missing").pc # "save"
      BY DEF Gone, Ended
    <3> QED
      BY <2>1, <2>3, <3>1
  <2> QED
    BY <2>2, <2>3
<1>3. Shape'
  BY <1>1, <1>2 DEF Shape
<1>4. DeletesFit'
  BY <1>1, <1>2 DEF Table, DeletesFit, Shape
<1>5. PostsFit' /\ NoClash' /\ OneLive' /\ HasVersions'
  BY <1>1 DEF Table, PostsFit, Fits, NoClash, Clash, OneLive, HasVersions
<1> QED
  BY <1>3, <1>4, <1>5 DEF Table

LEMMA TableKept ==
  ASSUME Table, UNCHANGED <<rows, up, del>>
  PROVE  Table'
  BY DEF Table, PostsFit, Fits, NoClash, Clash, OneLive, HasVersions, DeletesFit

-----------------------------------------------------------------------------
(***************************************************************************)
(* Lookups.                                                                *)
(***************************************************************************)

\* What a lookup knows of the table: its row is of its name and its channel,
\* and the version of a stored message is one it may have.
Aimed(x) ==
  /\ x.pc \in {"version", "stored"} =>
       /\ x.row \in DOMAIN rows
       /\ rows[x.row].name = x.name
       /\ x.want \in {"any", rows[x.row].channel}
  /\ x.pc = "stored" =>
       /\ x.want # "any"
       /\ x.version \in DOMAIN rows[x.row].bodies
       /\ x.want = "webhook" => rows[x.row].bodies[x.version] = "json"

ReadsFit == \A q \in Reads : Aimed(read[q])

LEMMA LookupStarts ==
  ASSUME Shape, NEW q \in Reads, ReadLook(q)
  PROVE  \E z \in Read :
           /\ read' = [read EXCEPT ![q] = z]
           /\ Aimed(z)
           /\ z.row = Live(z.name)
           /\ UNCHANGED <<rows, up, del>>
<1>1. PICK n \in Names, want \in Channel \union {"any"}, pin \in Pins :
        read' = [read EXCEPT ![q] =
                   [pc |-> IF Suits(Live(n), want) THEN "version" ELSE "missing",
                    name |-> n, want |-> want, pin |-> pin, row |-> Live(n),
                    version |-> 0]]
  BY DEF ReadLook
<1>2. PICK z : z = [pc |-> IF Suits(Live(n), want) THEN "version" ELSE "missing",
                    name |-> n, want |-> want, pin |-> pin, row |-> Live(n),
                    version |-> 0]
  OBVIOUS
<1>3. z \in Read
  BY <1>2, LiveRow DEF Read
<1>4. z.name = n /\ z.want = want /\ z.row = Live(n) /\ z.pc \in {"version", "missing"}
      /\ (z.pc = "version" => Suits(Live(n), want))
  BY <1>2
<1>5. Aimed(z)
  <2>1. SUFFICES ASSUME z.pc = "version"
                 PROVE  /\ z.row \in DOMAIN rows /\ rows[z.row].name = z.name
                        /\ z.want \in {"any", rows[z.row].channel}
    BY <1>4 DEF Aimed
  <2>2. Live(n) # 0 /\ want \in {"any", rows[Live(n)].channel}
    BY <1>4, <2>1 DEF Suits
  <2> QED
    BY <1>4, <2>2, LiveRow
<1> QED
  BY <1>1, <1>2, <1>3, <1>4, <1>5 DEF ReadLook

LEMMA LookupEnds ==
  ASSUME Shape, Table, ReadsFit, NEW q \in Reads, ReadVersion(q)
  PROVE  \E z \in Read :
           /\ read' = [read EXCEPT ![q] = z]
           /\ Aimed(z)
           /\ z.pc # "version" /\ z.row = read[q].row
           /\ z.want = read[q].want /\ z.pin = read[q].pin
           /\ LET k == Len(rows[z.row].bodies)
              IN IF z.pc = "missing" THEN z.pin > k
                 ELSE z.version = (IF z.pin = 0 THEN k ELSE z.pin) /\ z.version <= k
           /\ UNCHANGED <<rows, up, del>>
<1>1. read[q] \in Read /\ read[q].pc = "version" /\ Aimed(read[q])
  BY ReadKinds DEF ReadVersion, Shape, ReadsFit
<1>2. PICK i \in DOMAIN rows : i = read[q].row
  BY <1>1 DEF Aimed
<1>3. PICK k \in Nat : k = Len(rows[i].bodies) /\ k >= 1 /\ DOMAIN rows[i].bodies = 1..k
  BY RowFields DEF Shape, Table, HasVersions
<1>4. LatestVersion(i) = k
  BY <1>3, RowFields DEF Shape, LatestVersion
<1>5. read[q].pin \in Nat
  BY <1>1, TemplatesAssumption DEF Read
<1>6. PICK v \in Nat : v = IF read[q].pin = 0 THEN k ELSE read[q].pin
  BY <1>3, <1>5
<1>7. PICK c \in {"missing", "shown", "unrendered", "stored"} :
        /\ read' = [read EXCEPT ![q].pc = c, ![q].row = i, ![q].version = v]
        /\ c = "missing" <=> v \notin 1..k
        /\ c = "stored" => read[q].want # "any" /\ Renders(rows[i].bodies[v], read[q].want)
  BY <1>2, <1>3, <1>4, <1>6 DEF ReadVersion, Owner
<1>8. PICK z : z = [read[q] EXCEPT !.pc = c, !.row = i, !.version = v]
  OBVIOUS
<1>9. /\ z \in Read /\ z.pc = c /\ z.row = i /\ z.version = v /\ z.pin = read[q].pin
      /\ z.name = read[q].name /\ z.want = read[q].want
  <2>1. i \in Nat
    BY RowFields DEF Shape
  <2> QED
    BY <1>1, <1>8, <2>1 DEF Read
<1>10. read' = [read EXCEPT ![q] = z]
  BY <1>7, <1>8 DEF Shape
<1>11. Aimed(z)
  BY <1>1, <1>2, <1>3, <1>7, <1>9 DEF Aimed, Renders
<1>12. IF z.pc = "missing" THEN z.pin > k
       ELSE z.version = (IF z.pin = 0 THEN k ELSE z.pin) /\ z.version <= k
  BY <1>3, <1>5, <1>6, <1>7, <1>9
<1>13. z.pc # "version" /\ UNCHANGED <<rows, up, del>>
  BY <1>9 DEF ReadVersion
<1> QED
  BY <1>2, <1>3, <1>9, <1>10, <1>11, <1>12, <1>13

-----------------------------------------------------------------------------
(***************************************************************************)
(* Every step.                                                             *)
(***************************************************************************)
TableInv == Shape /\ Table /\ ReadsFit

LEMMA TableInit == Init => TableInv
<1> SUFFICES ASSUME Init PROVE TableInv
  OBVIOUS
<1>1. New.pc = "new"
  BY DEF New
<1>2. Shape
  BY DEF Init, Shape, Gone
<1>3. DOMAIN rows = {}
  BY DEF Init
<1>4. Table
  BY <1>1, <1>3 DEF Init, Table, PostsFit, Fits, NoClash, Clash, OneLive, HasVersions,
                    DeletesFit
<1>5. ReadsFit
  BY <1>1 DEF Init, ReadsFit, Aimed
<1> QED
  BY <1>2, <1>4, <1>5 DEF TableInv

LEMMA ExtendsSame == ASSUME rows' = rows PROVE Extends(rows, rows')
  BY DEF Extends

LEMMA StaffStep ==
  ASSUME Shape, Table,
         \/ \E u \in Upserts : UpsertLook(u) \/ Post(u) \/ UpsertAborts(u)
         \/ \E d \in Deletes : DeleteLook(d) \/ DeleteSave(d)
  PROVE  Shape' /\ Table' /\ Extends(rows, rows') /\ read' = read
<1>1. ASSUME NEW u \in Upserts, UpsertLook(u) \/ UpsertLock(u) \/ UpsertNumber(u)
                                \/ UpsertCreate(u) \/ UpsertAborts(u)
      PROVE  Shape' /\ Table' /\ Extends(rows, rows') /\ read' = read
  <2>1. rows' = rows /\ read' = read
    BY <1>1 DEF UpsertLook, UpsertLock, UpsertNumber, UpsertCreate, UpsertAborts
  <2>2. UpsertAborts(u) => Shape' /\ Table'
    BY EndedMoves DEF UpsertAborts
  <2>3. Shape' /\ Table'
    BY <1>1, <2>2, LookMoves, LockMoves, NumberMoves, CreateMoves
  <2> QED
    BY <2>1, <2>3, ExtendsSame
<1>2. ASSUME NEW u \in Upserts, UpsertInsert(u)
      PROVE  Shape' /\ Table' /\ Extends(rows, rows') /\ read' = read
  <2>1. read' = read
    BY <1>2 DEF UpsertInsert
  <2> QED
    BY <1>2, <2>1, RowIsAdded, VersionIsAdded
<1>3. ASSUME NEW d \in Deletes, DeleteLook(d)
      PROVE  Shape' /\ Table' /\ Extends(rows, rows') /\ read' = read
  BY <1>3, DeleteLooks, ExtendsSame DEF DeleteLook
<1>4. ASSUME NEW d \in Deletes, DeleteSave(d)
      PROVE  Shape' /\ Table' /\ Extends(rows, rows') /\ read' = read
  BY <1>4, RowIsDeleted DEF DeleteSave
<1> QED
  BY <1>1, <1>2, <1>3, <1>4 DEF Post

LEMMA ReadStep ==
  ASSUME TableInv, NEW q \in Reads, ReadLook(q) \/ ReadVersion(q)
  PROVE  TableInv' /\ rows' = rows
<1>0. Shape /\ Table /\ ReadsFit
  BY DEF TableInv
<1>1. PICK z \in Read :
        read' = [read EXCEPT ![q] = z] /\ Aimed(z) /\ UNCHANGED <<rows, up, del>>
  <2>1. CASE ReadLook(q)
    BY <1>0, <2>1, LookupStarts
  <2>2. CASE ReadVersion(q)
    BY <1>0, <2>2, LookupEnds
  <2> QED
    BY <2>1, <2>2
<1>2. Shape'
  BY <1>0, <1>1 DEF Shape
<1>3. Table'
  BY <1>0, <1>1, TableKept
<1>4. ReadsFit'
  <2> SUFFICES ASSUME NEW p \in Reads PROVE Aimed(read[p])'
    BY DEF ReadsFit
  <2>1. Aimed(read[p]) /\ rows' = rows
    BY <1>0, <1>1 DEF ReadsFit
  <2>2. CASE p = q
    <3>1. read'[p] = z
      BY <1>0, <1>1, <2>2 DEF Shape
    <3> QED
      BY <1>1, <2>1, <3>1 DEF Aimed
  <2>3. CASE p # q
    <3>1. read'[p] = read[p]
      BY <1>0, <1>1, <2>3 DEF Shape
    <3> QED
      BY <2>1, <3>1 DEF Aimed
  <2> QED
    BY <2>2, <2>3
<1> QED
  BY <1>1, <1>2, <1>3, <1>4 DEF TableInv

LEMMA TableStep == TableInv /\ [Next]_vars => TableInv' /\ Extends(rows, rows')
<1> SUFFICES ASSUME TableInv, [Next]_vars PROVE TableInv' /\ Extends(rows, rows')
  OBVIOUS
<1>1. CASE \/ \E u \in Upserts : UpsertLook(u) \/ Post(u) \/ UpsertAborts(u)
           \/ \E d \in Deletes : DeleteLook(d) \/ DeleteSave(d)
  <2>1. Shape' /\ Table' /\ Extends(rows, rows') /\ read' = read
    BY <1>1, StaffStep DEF TableInv
  <2>2. ReadsFit'
    <3> SUFFICES ASSUME NEW q \in Reads PROVE Aimed(read[q])'
      BY DEF ReadsFit
    <3>1. Aimed(read[q])
      BY DEF TableInv, ReadsFit
    <3> QED
      BY <2>1, <3>1 DEF Aimed, Extends
  <2> QED
    BY <2>1, <2>2 DEF TableInv
<1>2. CASE \E q \in Reads : ReadLook(q) \/ ReadVersion(q)
  BY <1>2, ReadStep, ExtendsSame
<1>3. CASE UNCHANGED vars
  <2>1. Shape'
    BY <1>3 DEF TableInv, Shape, vars
  <2>2. Table'
    BY <1>3, TableKept DEF TableInv, vars
  <2>3. ReadsFit'
    BY <1>3 DEF TableInv, ReadsFit, Aimed, vars
  <2> QED
    BY <1>3, <2>1, <2>2, <2>3, ExtendsSame DEF TableInv, vars
<1> QED
  BY <1>1, <1>2, <1>3 DEF Next

LEMMA AlwaysTable == Spec => []TableInv
  BY TableInit, TableStep, PTL DEF Spec

-----------------------------------------------------------------------------
(***************************************************************************)
(* Theorems on the table.                                                  *)
(***************************************************************************)

\* Rows and handlers hold values of their columns and fields, and a DELETE goes
\* on only with a row that exists.
THEOREM TypeCorrect == Spec => []TypeOK
<1>1. TableInv => TypeOK
  <2> SUFFICES ASSUME TableInv PROVE TypeOK
    OBVIOUS
  <2>1. Shape /\ DeletesFit
    BY DEF TableInv, Table
  <2>2. ASSUME NEW d \in Deletes
        PROVE  del[d] \in [pc : {"save"}, row : DOMAIN rows]
                             \union {New, Ended("deleted"), Ended("missing")}
    <3>1. CASE del[d] \in Gone
      BY <3>1 DEF Gone
    <3>2. CASE del[d] \in Saves
      BY <2>1, <3>2 DEF DeletesFit, Saves
    <3> QED
      BY <2>1, <3>1, <3>2 DEF Shape
  <2> QED
    BY <2>1, <2>2 DEF TypeOK, Shape
<1> QED
  BY <1>1, AlwaysTable, PTL

\* A name has at most one live template, for any number of POSTs and DELETEs of
\* it at once: who inserts it waits for the others that do.
THEOREM OneLiveRowHolds == Spec => []OneLiveRow
<1>1. TableInv => OneLiveRow
  <2> SUFFICES ASSUME TableInv, NEW n \in Names PROVE Cardinality(Alive(n)) <= 1
    BY DEF OneLiveRow
  <2>1. CASE Alive(n) = {}
    BY <2>1, FS_EmptySet
  <2>2. CASE Alive(n) # {}
    <3>1. PICK i : i \in Alive(n)
      BY <2>2
    <3>2. Alive(n) = {i}
      BY <3>1 DEF Alive, TableInv, Table, OneLive
    <3>3. Cardinality({i}) = 1
      BY FS_Singleton
    <3> QED
      BY <3>2, <3>3
  <2> QED
    BY <2>1, <2>2
<1> QED
  BY <1>1, AlwaysTable, PTL

\* A stored message has a version of the template it named, made for its own
\* channel, and a webhook message a JSON body, whatever became of that template
\* and of its name since.
THEOREM SnapshotFitsHolds == Spec => []SnapshotFits
<1>1. TableInv => SnapshotFits
  BY DEF TableInv, ReadsFit, Aimed, SnapshotFits
<1> QED
  BY <1>1, AlwaysTable, PTL

\* No version is added to a deleted template: the POST holds the row's lock from
\* its check to its commit, and the DELETE waits for it.
THEOREM VersionsGoToLiveRowsHolds == Spec => VersionsGoToLiveRows
<1>1. TableInv /\ [Next]_vars =>
        \A i \in DOMAIN rows : rows'[i].bodies # rows[i].bodies => rows[i].alive
  BY TableStep DEF Extends
<1> QED
  BY <1>1, AlwaysTable, PTL DEF Spec, VersionsGoToLiveRows

\* Only a POST that found no row and lost the race to create it ends in a server
\* error; the number that a POST inserts under the row's lock is always free.
THEOREM OnlyCreatorsFailHolds == Spec => OnlyCreatorsFail
<1>1. ASSUME TableInv, [Next]_vars, NEW u \in Upserts, up[u] # up'[u], up'[u].pc = "error"
      PROVE  up[u].row = 0 /\ Found(up[u].name)
  <2>0. Shape /\ Table
    BY <1>1 DEF TableInv
  <2>1. PICK v \in Upserts : UpsertLook(v) \/ Post(v) \/ UpsertAborts(v)
    BY <1>1 DEF Next, DeleteLook, DeleteSave, ReadLook, ReadVersion, vars
  <2>2. \E z : up' = [up EXCEPT ![v] = z]
    <3>1. CASE UpsertLook(v)
      BY <3>1 DEF UpsertLook
    <3>2. CASE UpsertLock(v)
      BY <2>0, <3>2 DEF UpsertLock, Shape
    <3>3. CASE UpsertNumber(v)
      BY <2>0, <3>3 DEF UpsertNumber, Shape
    <3>4. CASE UpsertCreate(v) \/ UpsertInsert(v) \/ UpsertAborts(v)
      BY <3>4 DEF UpsertCreate, UpsertInsert, UpsertAborts
    <3> QED
      BY <2>1, <3>1, <3>2, <3>3, <3>4 DEF Post
  <2>3. v = u
    BY <1>1, <2>0, <2>2 DEF Shape
  <2>4. CASE UpsertLook(u)
    BY <1>1, <2>0, <2>4 DEF UpsertLook, Shape
  <2>5. CASE UpsertLock(u)
    <3>1. up[u] \in Upsert
      BY <2>0, <2>5, UpKinds DEF UpsertLock, Shape, Steps
    <3>2. up'[u].pc \in {"create", "number", "conflict"}
      BY <2>0, <2>5, <3>1 DEF UpsertLock, Shape, Upsert, Ended
    <3> QED
      BY <1>1, <3>2
  <2>6. CASE UpsertNumber(u)
    <3>1. up[u] \in Upsert
      BY <2>0, <2>6, UpKinds DEF UpsertNumber, Shape, Steps
    <3>2. up'[u].pc = "insert"
      BY <2>0, <2>6, <3>1 DEF UpsertNumber, Shape, Upsert
    <3> QED
      BY <1>1, <3>2
  <2>7. CASE UpsertCreate(u)
    <3>1. up[u] \in Upsert /\ up[u].row = 0
      BY <2>0, <2>7, UpKinds DEF UpsertCreate, Shape, Steps, Table, PostsFit, Fits
    <3>2. NameIsFree(up[u].name) => up'[u].pc = "insert"
      BY <2>0, <2>7, <3>1 DEF UpsertCreate, Shape, Upsert
    <3> QED
      BY <1>1, <3>1, <3>2 DEF NameIsFree, Found
  <2>8. CASE UpsertInsert(u)
    <3>1. up'[u] = Ended("created")
      BY <2>0, <2>8, InsertSucceeds DEF Shape
    <3> QED
      BY <1>1, <3>1 DEF Ended
  <2>9. CASE UpsertAborts(u)
    <3>1. up'[u] = Ended("aborted")
      BY <2>0, <2>9 DEF UpsertAborts, Shape
    <3> QED
      BY <1>1, <3>1 DEF Ended
  <2> QED
    BY <2>1, <2>3, <2>4, <2>5, <2>6, <2>7, <2>8, <2>9 DEF Post
<1>2. TableInv /\ [Next]_vars =>
        \A u \in Upserts : up[u] # up'[u] /\ up'[u].pc = "error" =>
          up[u].row = 0 /\ Found(up[u].name)
  BY <1>1
<1> QED
  BY <1>2, AlwaysTable, PTL DEF Spec, OnlyCreatorsFail

-----------------------------------------------------------------------------
(***************************************************************************)
(* Lookups are linearizable.                                               *)
(***************************************************************************)

\* The template that a running lookup has found, as it is now.
Sight(q) == [row |-> read[q].row, latest |-> Len(rows[read[q].row].bodies)]

\* It was current at some moment since the lookup began: it is so while it lives,
\* and once deleted it gets no further version.
Seen == \A q \in Reads : Running(q) => Sight(q) \in window[q]

LiveInSight ==
  \A q \in Reads : Running(q) /\ rows[read[q].row].alive => Current(q) = Sight(q)

LEMMA CurrentIsSight == TableInv => LiveInSight
<1> SUFFICES ASSUME TableInv, NEW q \in Reads, Running(q), rows[read[q].row].alive
             PROVE  Current(q) = Sight(q)
  BY DEF LiveInSight
<1>0. Shape /\ Table
  BY DEF TableInv
<1>1. PICK i \in DOMAIN rows : i = read[q].row /\ rows[i].name = read[q].name /\ rows[i].alive
  BY DEF TableInv, ReadsFit, Aimed, Running
<1>2. i \in Alive(read[q].name)
  BY <1>1 DEF Alive
<1>3. Live(read[q].name) = i
  BY <1>0, <1>1, <1>2, LiveRow DEF Table, OneLive
<1>4. LatestVersion(i) = Len(rows[i].bodies)
  BY <1>0, RowFields DEF Shape, LatestVersion
<1> QED
  BY <1>1, <1>3, <1>4 DEF Current, Sight

\* A lookup that has just found its row has found a live one.
LEMMA FoundAlive ==
  ASSUME TableInv, Next, NEW q \in Reads, read'[q] # read[q], Running(q)'
  PROVE  rows'[read'[q].row].alive
<1>0. Shape /\ Table /\ ReadsFit
  BY DEF TableInv
<1>1. PICK p \in Reads : ReadLook(p) \/ ReadVersion(p)
  BY <1>0, StaffStep DEF Next
<1>2. PICK z \in Read :
        /\ read' = [read EXCEPT ![p] = z] /\ Aimed(z) /\ UNCHANGED <<rows, up, del>>
        /\ z.pc = "version" => z.row = Live(z.name)
  <2>1. CASE ReadLook(p)
    BY <1>0, <2>1, LookupStarts
  <2>2. CASE ReadVersion(p)
    BY <1>0, <2>2, LookupEnds
  <2> QED
    BY <1>1, <2>1, <2>2
<1>3. p = q /\ read'[q] = z
  BY <1>0, <1>2 DEF Shape
<1>4. z.row \in DOMAIN rows /\ z.row = Live(z.name)
  BY <1>2, <1>3 DEF Running, Aimed
<1>5. z.row # 0
  BY <1>0, <1>4, RowFields DEF Shape
<1>6. rows[z.row].alive
  BY <1>0, <1>4, <1>5, LiveRow
<1> QED
  BY <1>2, <1>3, <1>6

LEMMA SeenStep == TableInv /\ Seen /\ [Next]_vars => Seen'
<1> SUFFICES ASSUME TableInv, Seen, [Next]_vars, NEW q \in Reads, Running(q)'
             PROVE  Sight(q)' \in window'[q]
  BY DEF Seen
<1>0. TableInv' /\ Extends(rows, rows')
  BY TableStep
<1>1. CASE UNCHANGED vars
  BY <1>1 DEF vars, Seen, Sight, Running
<1>2. CASE Next
  <2>1. window'[q] = window[q] \union {Current(q)'}
    BY <1>2 DEF Next, Observe
  <2>2. CASE rows'[read'[q].row].alive
    <3>1. LiveInSight'
      BY <1>0, CurrentIsSight, PTL
    <3>2. Current(q)' = Sight(q)'
      BY <2>2, <3>1 DEF LiveInSight
    <3> QED
      BY <2>1, <3>2
  <2>3. CASE ~ rows'[read'[q].row].alive
    <3>1. read'[q] = read[q] /\ Running(q)
      BY <1>2, <2>3, FoundAlive DEF Running
    <3>2. read[q].row \in DOMAIN rows
      BY <3>1 DEF TableInv, ReadsFit, Aimed, Running
    <3>3. rows'[read[q].row].bodies = rows[read[q].row].bodies
      BY <1>0, <2>3, <3>1, <3>2 DEF Extends
    <3>4. Sight(q)' = Sight(q)
      BY <3>1, <3>3 DEF Sight
    <3> QED
      BY <2>1, <3>1, <3>4 DEF Seen
  <2> QED
    BY <2>2, <2>3
<1> QED
  BY <1>1, <1>2

\* What a message or a GET uses, or does not find, was current for that name at
\* one moment while it ran, although its two statements share no transaction and
\* the template may be deleted, made again or extended between them.
THEOREM ReadsWhatWasCurrentHolds == Spec => ReadsWhatWasCurrent
<1>1. Init => Seen
  BY DEF Init, Seen, Running, New
<1>2. ASSUME TableInv, Seen, Next, NEW q \in Reads, Running(q), ~ Running(q)'
      PROVE  LET r == read'[q] IN
             \E c \in window[q] :
               IF r.pc = "missing" THEN ~ Suits(c.row, r.want) \/ r.pin > c.latest
               ELSE /\ c.row = r.row
                    /\ r.version = IF r.pin = 0 THEN c.latest ELSE r.pin
                    /\ r.version <= c.latest
  <2>0. Shape /\ Table /\ ReadsFit
    BY <1>2 DEF TableInv
  <2>1. PICK p \in Reads : ReadLook(p) \/ ReadVersion(p)
    BY <1>2, <2>0, StaffStep DEF Next, Running
  <2>2. p = q
    BY <1>2, <2>0, <2>1 DEF ReadLook, ReadVersion, Running, Shape
  <2>3. ~ ReadLook(q)
    BY <1>2 DEF ReadLook, Running, New
  <2>4. PICK z \in Read :
          /\ read' = [read EXCEPT ![q] = z]
          /\ z.row = read[q].row
          /\ LET k == Len(rows[z.row].bodies)
             IN IF z.pc = "missing" THEN z.pin > k
                ELSE z.version = (IF z.pin = 0 THEN k ELSE z.pin) /\ z.version <= k
    BY <2>0, <2>1, <2>2, <2>3, LookupEnds
  <2>5. read'[q] = z
    BY <2>0, <2>4 DEF Shape
  <2>6. PICK c \in window[q] : c.row = z.row /\ c.latest = Len(rows[z.row].bodies)
    BY <1>2, <2>4 DEF Seen, Sight
  <2> QED
    BY <2>4, <2>5, <2>6
<1>3. TableInv /\ Seen /\ [Next]_vars =>
        [\A q \in Reads : Running(q) /\ ~ Running(q)' =>
           LET r == read'[q] IN
           \E c \in window[q] :
             IF r.pc = "missing" THEN ~ Suits(c.row, r.want) \/ r.pin > c.latest
             ELSE /\ c.row = r.row
                  /\ r.version = IF r.pin = 0 THEN c.latest ELSE r.pin
                  /\ r.version <= c.latest]_vars
  BY <1>2
<1> QED
  BY <1>1, <1>3, AlwaysTable, SeenStep, PTL DEF Spec, ReadsWhatWasCurrent
=============================================================================
