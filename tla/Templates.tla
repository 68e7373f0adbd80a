------------------------------ MODULE Templates ------------------------------
(***************************************************************************)
(* Templates and their versions: POST and DELETE of staff                  *)
(* (templating/views.py), and those who look a version up, which are       *)
(* messages being created (_resolve_template, render) and staff GETs.      *)
(* Every statement is one step.  The POST runs in one transaction: its row *)
(* lock lasts and its inserts stay unseen until the commit.  A DELETE and  *)
(* a lookup have no transaction around their two statements.               *)
(***************************************************************************)
EXTENDS Naturals, Sequences, FiniteSets

CONSTANTS
  Names,    \* template names
  Upserts,  \* POST requests
  Deletes,  \* DELETE requests
  Reads,    \* lookups
  Pins      \* bound: the versions lookups ask for, 0 for the latest

ASSUME TemplatesAssumption == Pins \subseteq Nat

VARIABLES
  rows,     \* committed template rows by primary key, versions with them
  up,       \* the handler of each POST
  del,      \* of each DELETE
  read,     \* of each lookup
  window    \* history: what was current for each lookup while it ran

vars == <<rows, up, del, read, window>>

-----------------------------------------------------------------------------
Channel == {"email", "webhook"}

\* body_template, by what it renders to: JSON, or something else.  Nobody asks
\* for the JSON of an email.
Bodies == {"json", "text"}

\* The version numbered v is the v-th of bodies.
Row == [name : Names, channel : Channel, alive : BOOLEAN, bodies : Seq(Bodies)]

New == [pc |-> "new"]

Ended(pc) == [pc |-> pc]

\* row 0: no row found.
Upsert == [pc : {"lock", "number", "create", "insert"}, name : Names,
           channel : Channel, body : Bodies, row : Nat, no : Nat]
Answers == {Ended(pc) : pc \in {"created", "conflict", "error", "aborted"}}
Read == [pc : {"version", "missing", "unrendered", "shown", "stored"}, name : Names,
         want : Channel \union {"any"}, pin : Pins, row : Nat, version : Nat]

\* Rows and handlers hold values of their columns and fields; a DELETE goes on
\* only with a row that exists.
TypeOK ==
  /\ rows \in Seq(Row)
  /\ \A u \in Upserts : up[u] \in Upsert \union Answers \union {New}
  /\ \A d \in Deletes : del[d] \in [pc : {"save"}, row : DOMAIN rows]
                                       \union {New, Ended("deleted"), Ended("missing")}
  /\ \A q \in Reads : read[q] \in Read \union {New}

Init ==
  /\ rows = <<>>
  /\ up = [u \in Upserts |-> New]
  /\ del = [d \in Deletes |-> New]
  /\ read = [q \in Reads |-> New]
  /\ window = [q \in Reads |-> {}]

\* Template.objects.alive(), by name.
Alive(n) == {i \in DOMAIN rows : rows[i].name = n /\ rows[i].alive}
Live(n)  == IF Alive(n) = {} THEN 0 ELSE CHOOSE i \in Alive(n) : TRUE

LatestVersion(i) == IF i = 0 THEN 0 ELSE Len(rows[i].bodies)

-----------------------------------------------------------------------------
(***************************************************************************)
(* POST /templates/.                                                       *)
(***************************************************************************)
\* Mutants: no lock is taken; a refused request keeps it.
LockedNever(i) == FALSE
LockedByRefused(i) ==
  \E u \in Upserts : up[u].pc = "conflict" \/ (up[u].pc = "insert" /\ up[u].row = i)

\* Between its SELECT FOR UPDATE and its commit a POST holds the row.
Locked(i) ==
  \E u \in Upserts : up[u].pc \in {"number", "insert"} /\ up[u].row = i

\* The SELECT starts: the row it sees, if there is one, is to be locked.
UpsertLook(u) ==
  /\ up[u] = New
  /\ \E n \in Names, c \in Channel, b \in Bodies :
       /\ c = "email" => b = "text"
       /\ up' = [up EXCEPT ![u] = [pc |-> IF Alive(n) = {} THEN "create" ELSE "lock",
                                   name |-> n, channel |-> c, body |-> b,
                                   row |-> Live(n), no |-> 0]]
  /\ UNCHANGED <<rows, del, read>>

\* Mutant: a row deleted while the SELECT waited is taken all the same.
StillMatchesAnyRow(i) == TRUE

\* PostgreSQL looks at the WHERE clause again once it has the lock.
StillMatches(i) == rows[i].alive

UpsertLock(u) ==
  LET i == up[u].row
  IN /\ up[u].pc = "lock"
     /\ ~ Locked(i)
     /\ \/ /\ ~ StillMatches(i)
           /\ up' = [up EXCEPT ![u].pc = "create", ![u].row = 0]
        \/ /\ StillMatches(i)
           /\ up' = [up EXCEPT ![u] = IF rows[i].channel = up[u].channel
                                      THEN [@ EXCEPT !.pc = "number"]
                                      ELSE Ended("conflict")]
     /\ UNCHANGED <<rows, del, read>>

UpsertNumber(u) ==
  /\ up[u].pc = "number"
  /\ up' = [up EXCEPT ![u].pc = "insert", ![u].no = LatestVersion(up[u].row) + 1]
  /\ UNCHANGED <<rows, del, read>>

\* Mutant: without the constraint.
NameIsFreeAlways(n) == TRUE

\* template_name_unique_alive.
NameIsFree(n) == Alive(n) = {}

\* The INSERT waits for an uncommitted row of that name; if one is there in the
\* end, IntegrityError, which nobody catches, rolls the request back.
UpsertCreate(u) ==
  LET n == up[u].name
  IN /\ up[u].pc = "create"
     /\ \A v \in Upserts : up[v].pc = "insert" => up[v].row # 0 \/ up[v].name # n
     /\ up' = [up EXCEPT ![u] = IF NameIsFree(n)
                                THEN [@ EXCEPT !.pc = "insert", !.no = 1]
                                ELSE Ended("error")]
     /\ UNCHANGED <<rows, del, read>>

\* template_version_unique: the numbers of a template are taken without gaps.
VersionIsFree(i, no) == no > LatestVersion(i)

\* The version is inserted, unless the template has one of that number, and the
\* transaction commits.
UpsertInsert(u) ==
  LET i == up[u].row
  IN /\ up[u].pc = "insert"
     /\ \/ /\ VersionIsFree(i, up[u].no)
           /\ rows' = IF i = 0
                      THEN Append(rows, [name |-> up[u].name, channel |-> up[u].channel,
                                         alive |-> TRUE, bodies |-> <<up[u].body>>])
                      ELSE [rows EXCEPT ![i].bodies = Append(@, up[u].body)]
           /\ up' = [up EXCEPT ![u] = Ended("created")]
        \/ /\ ~ VersionIsFree(i, up[u].no)
           /\ up' = [up EXCEPT ![u] = Ended("error")]
           /\ UNCHANGED rows
     /\ UNCHANGED <<del, read>>

\* The process dies or its connection breaks: PostgreSQL rolls back.
UpsertAborts(u) ==
  /\ up[u].pc \in {"lock", "number", "create", "insert"}
  /\ up' = [up EXCEPT ![u] = Ended("aborted")]
  /\ UNCHANGED <<rows, del, read>>

Post(u) == UpsertLock(u) \/ UpsertNumber(u) \/ UpsertCreate(u) \/ UpsertInsert(u)

-----------------------------------------------------------------------------
(***************************************************************************)
(* DELETE /templates/{name}/.                                              *)
(***************************************************************************)
\* Mutant: goes on without a row.
FoundAlways(n) == TRUE
Found(n) == Alive(n) # {}

DeleteLook(d) ==
  /\ del[d] = New
  /\ \E n \in Names :
       del' = [del EXCEPT ![d] = IF Found(n) THEN [pc |-> "save", row |-> Live(n)]
                                 ELSE Ended("missing")]
  /\ UNCHANGED <<rows, up, read>>

\* An UPDATE by primary key: it waits for the row lock and asks nothing else.
DeleteSave(d) ==
  /\ del[d].pc = "save"
  /\ ~ Locked(del[d].row)
  /\ rows' = [rows EXCEPT ![del[d].row].alive = FALSE]
  /\ del' = [del EXCEPT ![d] = Ended("deleted")]
  /\ UNCHANGED <<up, read>>

-----------------------------------------------------------------------------
(***************************************************************************)
(* Lookups: _resolve_template and render for a message of channel want;    *)
(* retrieve and version_detail for a GET, which wants any channel.         *)
(***************************************************************************)
Suits(i, want) == i # 0 /\ want \in {"any", rows[i].channel}

ReadLook(q) ==
  /\ read[q] = New
  /\ \E n \in Names, want \in Channel \union {"any"}, pin \in Pins :
       read' = [read EXCEPT ![q] =
                  [pc |-> IF Suits(Live(n), want) THEN "version" ELSE "missing",
                   name |-> n, want |-> want, pin |-> pin, row |-> Live(n),
                   version |-> 0]]
  /\ UNCHANGED <<rows, up, del>>

\* Mutant: the versions are looked up by the template's name.
OwnerByName(q) == IF Found(read[q].name) THEN Live(read[q].name) ELSE read[q].row
Owner(q) == read[q].row

\* render: a webhook body has to be JSON; anything may fail on its context.
Renders(body, channel) == channel = "webhook" => body = "json"

ReadVersion(q) ==
  LET i == Owner(q)
      v == IF read[q].pin = 0 THEN LatestVersion(i) ELSE read[q].pin
      End(pc) == read' = [read EXCEPT ![q].pc = pc, ![q].row = i, ![q].version = v]
  IN /\ read[q].pc = "version"
     /\ \/ v \notin DOMAIN rows[i].bodies /\ End("missing")
        \/ v \in DOMAIN rows[i].bodies /\ read[q].want = "any" /\ End("shown")
        \/ v \in DOMAIN rows[i].bodies /\ read[q].want # "any" /\ End("unrendered")
        \/ /\ v \in DOMAIN rows[i].bodies
           /\ read[q].want # "any"
           /\ Renders(rows[i].bodies[v], read[q].want)
           /\ End("stored")
     /\ UNCHANGED <<rows, up, del>>

-----------------------------------------------------------------------------
Running(q) == read[q].pc = "version"
Current(q) == [row |-> Live(read[q].name), latest |-> LatestVersion(Live(read[q].name))]

Observe ==
  window' = [q \in Reads |-> IF Running(q)' THEN window[q] \union {Current(q)'} ELSE {}]

Next ==
  /\ \/ \E u \in Upserts : UpsertLook(u) \/ Post(u) \/ UpsertAborts(u)
     \/ \E d \in Deletes : DeleteLook(d) \/ DeleteSave(d)
     \/ \E q \in Reads : ReadLook(q) \/ ReadVersion(q)
  /\ Observe

Spec == Init /\ [][Next]_vars

\* A handler that has started runs on as soon as its lock is free.
FairSpec ==
  /\ Spec
  /\ \A u \in Upserts : WF_vars(Post(u) /\ Observe)
  /\ \A d \in Deletes : WF_vars(DeleteSave(d) /\ Observe)

-----------------------------------------------------------------------------
(***************************************************************************)
(* Properties.                                                             *)
(***************************************************************************)

\* A name has at most one live template, however POSTs and DELETEs of it
\* interleave (TemplateUpsertSerializer: "Template names are unique").
OneLiveRow == \A n \in Names : Cardinality(Alive(n)) <= 1

\* A POST to a template that exists never ends in a server error, although it
\* reads the latest number and inserts the next one in two statements: only a
\* POST that found no row, and lost the race to create it, does.
OnlyCreatorsFail ==
  [][\A u \in Upserts : up[u] # up'[u] /\ up'[u].pc = "error" =>
       up[u].row = 0 /\ Found(up[u].name)]_vars

\* Lookups are linearizable: what a message or a GET uses, or does not find, was
\* current for that name at one moment while it ran, although the template may
\* be deleted, made again or extended between its two statements.
ReadsWhatWasCurrent ==
  [][\A q \in Reads : Running(q) /\ ~ Running(q)' =>
       LET r == read'[q] IN
       \E c \in window[q] :
         IF r.pc = "missing" THEN ~ Suits(c.row, r.want) \/ r.pin > c.latest
         ELSE /\ c.row = r.row
              /\ r.version = IF r.pin = 0 THEN c.latest ELSE r.pin
              /\ r.version <= c.latest]_vars

\* A stored message has a version of the template it named, made for its own
\* channel, and a webhook message a JSON body, also when the name is given to
\* another channel meanwhile (docstring of renderer.py).
SnapshotFits ==
  \A q \in Reads : read[q].pc = "stored" =>
    LET t == rows[read[q].row] IN
    /\ t.name = read[q].name
    /\ t.channel = read[q].want
    /\ t.channel = "webhook" => t.bodies[read[q].version] = "json"

\* No version is added to a deleted template, so a version that was confirmed
\* with 201 was one to be used.
VersionsGoToLiveRows ==
  [][\A i \in DOMAIN rows : rows'[i].bodies # rows[i].bodies => rows[i].alive]_vars

\* Row locks and waits for unconfirmed names never block for good: every POST and
\* every DELETE comes to its end.
StaffIsAnswered ==
  /\ \A u \in Upserts : up[u] # New ~>
       up[u] \in Answers
  /\ \A d \in Deletes : del[d] # New ~> del[d].pc \in {"deleted", "missing"}
=============================================================================
