------------------------------ MODULE RowStore ------------------------------
(***************************************************************************)
(* The transactions of AimManager on the SQL store: create, update and     *)
(* delete of one object by concurrent clients (agents, drivers, servers),  *)
(* for the table of every class.  A transaction reads the object (Begin),  *)
(* from_attr() computes the new rows from what was read, and the flush     *)
(* writes them with a compare and swap on the column "epoch" (Commit).     *)
(*                                                                         *)
(* The database is external: reads see a committed state, a flush checks   *)
(* unique constraints, primary keys and the foreign keys of association    *)
(* rows, and either all or nothing of it is written.                       *)
(***************************************************************************)
EXTENDS Schema, Tables, FiniteSets, SequencesExt

CONSTANTS
    Clients,      \* sessions with a transaction of their own
    Related,      \* the classes whose association tables are checked
    MaxRows,      \* bound: rows ever inserted in a behaviour
    MaxEpoch,     \* bound: MaxEpoch[k] is the highest epoch of a row of the class
    MaxGiven      \* bound: attributes given in one update

VARIABLES
    table,        \* the class, the column its two identities differ in, the relation
    rows,         \* aim_id :> identity, epoch and column
    assoc,        \* the association rows <<aim_id, attribute, entry, position>>
    created,      \* the number of rows ever inserted: aim_ids are never used again
    txn,          \* what each client has read and is about to flush
    torn,         \* clients whose transaction has read rows of an object that a DELETE
                  \* without effect has then stripped of them, for the properties
    last          \* the request the last step has ended, for the properties

vars == <<table, rows, assoc, created, txn, torn, last>>

-----------------------------------------------------------------------------
(* Identities and attributes                                               *)

NoRelation == Relation("lists", {})

\* With "twin" = 0 there is one identity; otherwise there are two, which differ in that
\* identity attribute only.
Tabled(k, twin, rel) == [klass |-> k, twin |-> twin, rel |-> rel]
TableChoices ==
    {Tabled(k, twin, NoRelation) : k \in Klasses, twin \in 0..6}
    \cup UNION {{Tabled(k, 0, rel) : rel \in DbModelMap[k].relations} : k \in Related}

\* What the specification relies on in the declarations of the tables.
WellKept(r) ==
    /\ \A c, d \in r.columns : c = d
    /\ r.lists \cap r.names = {} /\ r.columns \cap (r.lists \cup r.names) = {}
    /\ r.style # "domains" => r.names = {}
    /\ r.style \in {"chain", "domains"} => r.columns = {} /\ \E a \in r.lists : r.lists = {a}
ASSUME BoundAssumption == MaxRows \in Nat
ASSUME TablesAssumption ==
    /\ Related \subseteq Klasses
    /\ \A k \in Klasses :
          /\ DbModelMap[k].unique # <<>>
          /\ Classes[k].id \in Seq(STRING)
          /\ Range(Classes[k].id) \subseteq Range(DbModelMap[k].unique)
          /\ \A r \in DbModelMap[k].relations : WellKept(r)

Ids == IF table.twin = 0 THEN {1} ELSE {1, 2}
Unique == DbModelMap[table.klass].unique

\* Two rows violate the unique constraint of the table.
Clash(i, j) ==
    /\ Unique # <<>>
    /\ i = j \/ Classes[table.klass].id[table.twin] \notin Range(Unique)

rel == table.rel

\* The operators below are about a relation r.
Attrs(r) == r.lists \cup r.names \cup r.columns

\* Values that tell the cases apart; "partial" is an entry without a required key,
\* "other" a domain of another type.
Values(r, a) ==
    IF a \in r.columns THEN {<<>>, <<"p">>}
    ELSE {<<>>, <<"a">>}
         \cup CASE r.style = "single" -> {<<"b">>}
                [] r.style = "domains" /\ a \in r.lists -> {<<"other", "a">>}
                [] OTHER -> {<<"b", "a">>}
         \cup (IF r.style = "chain" THEN {<<"a", "b">>} ELSE {})
         \cup (IF r.checked THEN {<<"partial", "a">>} ELSE {})
Requests(r, as) == {f \in [as -> UNION {Values(r, a) : a \in Attrs(r)}] : \A a \in as : f[a] \in Values(r, a)}
Partials(r) == UNION {Requests(r, as) : as \in {x \in SUBSET Attrs(r) : x # {} /\ Cardinality(x) <= MaxGiven}}

Content(aim) == {<<t[2], t[3], t[4]>> : t \in {x \in assoc : x[1] = aim}}
Under(aim, content) == {<<aim, t[1], t[2], t[3]>> : t \in content}

\* sorted(..., key=sequence_number): the entries of pairs <<entry, position>>.
InOrder(pairs) ==
    LET sorted == SetToSortSeq(pairs, LAMBDA s, t : s[2] < t[2])
    IN  [i \in DOMAIN sorted |-> sorted[i][1]]
Complete(list) == SelectSeq(list, LAMBDA e : e # "partial")

\* What the two operators above return for lists of the values below.
ShortLists == UNION {[1..n -> {"a", "b", "p", "other", "partial"}] : n \in 0..2}
ASSUME OrderAssumption ==
    \A list \in ShortLists :
        /\ Range(Complete(list)) = Range(list) \ {"partial"}
        /\ InOrder({<<list[i], i>> : i \in {j \in DOMAIN list : list[j] # "partial"}}) = Complete(list)

\* to_attr(): an attribute as a reader gets it.  The order of entries is that of the
\* database unless the rows have a position.
Shown(r, column, content, a) ==
    IF a \in r.columns THEN column
    ELSE IF r.style = "chain" THEN InOrder({<<t[2], t[3]>> : t \in content})
    ELSE {t[2] : t \in {x \in content : a \in r.names \/ x[1] = a}}
         \ (IF a \in r.names THEN r.foreign ELSE {})
Read(aim, a) == Shown(rel, rows[aim].column, Content(aim), a)

AsRead(r, list) == IF r.style = "chain" THEN list ELSE Range(list)

\* from_attr(): the association rows after the given attributes were assigned to an
\* object with these rows.
RowsOf(r, a, list) ==
    {<<a, list[i], IF r.style = "chain" THEN i ELSE 0>> :
        i \in {j \in DOMAIN list : list[j] # "partial"}}
\* Both attributes for domains share one table.
Tag(r, a) == IF r.style = "domains" THEN CHOOSE x \in r.lists : TRUE ELSE a
\* mutant: the collection is rebuilt from the given attributes only
FromAttrGiven(r, given, content) ==
    LET touched == DOMAIN given \cap (r.lists \cup r.names)
    IN  {t \in content : touched = {}} \cup UNION {RowsOf(r, Tag(r, a), given[a]) : a \in touched}
FromAttr(r, given, content) ==
    LET touched == DOMAIN given \cap (r.lists \cup r.names)
    IN  {t \in content : \A a \in touched : t[1] # Tag(r, a)}
        \cup UNION {RowsOf(r, Tag(r, a), given[a]) : a \in touched}
\* A secondary list without its primary address falls through to setattr(), which
\* refuses entries that are not rows of the association table.
Raises(r, given) ==
    /\ r.style = "secondary"
    /\ \E a \in r.lists \cap DOMAIN given :
          /\ given[a] # <<>>
          /\ \A c \in r.columns : c \notin DOMAIN given \/ given[c] = <<>>
ColumnOf(r, given, column) ==
    IF r.columns \cap DOMAIN given = {} THEN column
    ELSE Range(given[CHOOSE c \in r.columns : TRUE])

\* user_equal() of the object that was read and the object with the given attributes.
UserEqual(given, aim) == \A a \in DOMAIN given : AsRead(rel, given[a]) = Read(aim, a)

\* _before_session_commit(): an object that is written gets a new epoch, except a
\* security group rule of which only a collection has changed.
Bumps(given, aim) ==
    rel.style = "difference" => ColumnOf(rel, given, rows[aim].column) # rows[aim].column

-----------------------------------------------------------------------------
(* Transactions                                                            *)

NoTxn == [op |-> "none"]
Quiet == [end |-> "none"]
Ended(end, t, aim, whole) ==
    [end |-> end, op |-> t.op, id |-> t.id, aim |-> aim, given |-> t.given, whole |-> whole]

\* AimManager._query_db_obj(): the row with the identity.
Found(id) == {aim \in DOMAIN rows : rows[aim].id = id}

Begins(c, t) ==
    /\ txn[c] = NoTxn
    /\ txn' = [txn EXCEPT ![c] = t]
    /\ last' = Quiet
    /\ UNCHANGED <<table, rows, assoc, created, torn>>

\* AimManager.create() without overwrite, or of an object that was not found.
BeginCreate(c, id, given) ==
    /\ ~Raises(rel, given)
    /\ created < MaxRows
    /\ Begins(c, [op |-> "create", id |-> id, aim |-> 0, given |-> given,
                  new |-> FromAttr(rel, given, {}), column |-> ColumnOf(rel, given, {})])

Updating(id, aim, given) ==
    [op |-> "update", id |-> id, aim |-> aim, epoch |-> rows[aim].epoch, given |-> given,
     seen |-> Content(aim), new |-> FromAttr(rel, given, Content(aim)),
     column |-> ColumnOf(rel, given, rows[aim].column), bump |-> Bumps(given, aim)]

\* AimManager.update(), or create() that overwrites; without a difference to what was
\* read nothing is written.
BeginUpdate(c, id, given) ==
    \E aim \in Found(id) :
        /\ ~UserEqual(given, aim)
        /\ ~Raises(rel, given)
        /\ rows[aim].epoch < MaxEpoch[table.klass]
        /\ Begins(c, Updating(id, aim, given))

\* AimManager.delete()
BeginDelete(c, id) ==
    \E aim \in Found(id) :
        Begins(c, [op |-> "delete", id |-> id, aim |-> aim, epoch |-> rows[aim].epoch,
                   given |-> <<>>, seen |-> Content(aim)])

Ends(c, end, aim) ==
    /\ txn' = [txn EXCEPT ![c] = NoTxn]
    /\ last' = Ended(end, txn[c], aim, c \notin torn)
    /\ UNCHANGED table
\* An error of the flush: the transaction is rolled back.
Refuse(c) ==
    /\ Ends(c, "refused", txn[c].aim)
    /\ torn' = torn \ {c}
    /\ UNCHANGED <<rows, assoc, created>>

\* mutant: no unique constraint
CreateUnchecked(t) == TRUE
CreateAllowed(t) == \A aim \in DOMAIN rows : ~Clash(t.id, rows[aim].id)
CommitCreate(c) ==
    LET t == txn[c] aim == created + 1
    IN  /\ t.op = "create"
        /\ \/ /\ CreateAllowed(t)
              /\ created < MaxRows
              /\ rows' = [a \in DOMAIN rows \cup {aim} |->
                            IF a = aim THEN [id |-> t.id, epoch |-> 1, column |-> t.column]
                            ELSE rows[a]]
              /\ assoc' = assoc \cup Under(aim, t.new)
              /\ created' = aim
              /\ torn' = torn \ {c}
              /\ Ends(c, "done", aim)
           \/ ~CreateAllowed(t) /\ Refuse(c)

\* mutant: no version column
FreshById(t) == t.aim \in DOMAIN rows
\* UPDATE ... WHERE aim_id = ... AND epoch = ... matches the row.
Fresh(t) == t.aim \in DOMAIN rows /\ rows[t.aim].epoch = t.epoch
Added(t) == t.new \ t.seen
Dropped(t) == t.seen \ t.new
\* The compare and swap, the foreign key and the primary key of the association rows.
UpdateAllowed(t) ==
    /\ t.bump => Fresh(t)
    /\ Added(t) # {} => t.aim \in DOMAIN rows
    /\ Added(t) \cap Content(t.aim) = {}
CommitUpdate(c) ==
    LET t == txn[c]
    IN  /\ t.op = "update"
        /\ \/ /\ UpdateAllowed(t)
              /\ rows' = IF t.bump
                         THEN [rows EXCEPT ![t.aim].epoch = @ + 1, ![t.aim].column = t.column]
                         ELSE rows
              /\ assoc' = (assoc \ Under(t.aim, Dropped(t))) \cup Under(t.aim, Added(t))
              /\ torn' = torn \ {c}
              /\ Ends(c, "done", t.aim)
              /\ UNCHANGED created
           \/ ~UpdateAllowed(t) /\ Refuse(c)

\* The association rows that were read go first.  DELETE ... WHERE epoch = ... of a
\* row that was changed meanwhile matches nothing, and with confirm_deleted_rows =
\* False that is no error.
Unseen(t) == Content(t.aim) \ t.seen
\* mutant: no foreign key
DeleteAnyway(t) == TRUE
DeleteAllowed(t) == Fresh(t) => Unseen(t) = {}
\* The transactions that are open on an object when its association rows are deleted
\* and it is not.
Tears(t) == {d \in Clients : ~Fresh(t) /\ txn[d] # NoTxn /\ txn[d].aim = t.aim}
CommitDelete(c) ==
    LET t == txn[c]
    IN  /\ t.op = "delete"
        /\ \/ /\ DeleteAllowed(t)
              /\ rows' = IF Fresh(t) THEN [aim \in DOMAIN rows \ {t.aim} |-> rows[aim]] ELSE rows
              /\ assoc' = assoc \ Under(t.aim, t.seen)
              /\ torn' = (torn \cup Tears(t)) \ {c}
              /\ Ends(c, "done", t.aim)
              /\ UNCHANGED created
           \/ ~DeleteAllowed(t) /\ Refuse(c)

\* An exception in the client: the session is rolled back.
Rollback(c) ==
    /\ txn[c] # NoTxn
    /\ Ends(c, "rolled back", txn[c].aim)
    /\ torn' = torn \ {c}
    /\ UNCHANGED <<rows, assoc, created>>

-----------------------------------------------------------------------------
Init ==
    /\ table \in {x \in TableChoices : x.twin <= Len(Classes[x.klass].id)}
    /\ rows = <<>>
    /\ assoc = {}
    /\ created = 0
    /\ txn = [c \in Clients |-> NoTxn]
    /\ torn = {}
    /\ last = Quiet

Next ==
    \E c \in Clients :
        \/ \E id \in Ids :
              \/ \E given \in Requests(rel, Attrs(rel)) : BeginCreate(c, id, given)
              \/ \E given \in Partials(rel) \cup Requests(rel, Attrs(rel)) : BeginUpdate(c, id, given)
              \/ BeginDelete(c, id)
        \/ CommitCreate(c)
        \/ CommitUpdate(c)
        \/ CommitDelete(c)
        \/ Rollback(c)

Spec == Init /\ [][Next]_vars
-----------------------------------------------------------------------------
(* Properties                                                              *)

\* The tables stay well formed: a row that exists has been flushed once, so its epoch
\* is at least 1 (bump_epoch()); the position belongs to chains only.
TypeOK ==
    /\ table \in TableChoices
    /\ created \in 0..MaxRows
    /\ DOMAIN rows \subseteq 1..created
    /\ \A aim \in DOMAIN rows :
          rows[aim].id \in Ids /\ rows[aim].epoch > 0 /\ rows[aim].column \subseteq {"p"}
    /\ \A t \in assoc : t[1] \in 1..created /\ t[2] \in rel.lists /\ (t[4] # 0 <=> rel.style = "chain")

\* A reader gets what the last request has given: lists without incomplete entries,
\* domains as the union of both attributes, a chain in its order.
GivenIsRead ==
    \A a \in DOMAIN last.given :
        LET all == UNION {Range(Complete(last.given[b])) :
                             b \in DOMAIN last.given \cap (rel.lists \cup rel.names)}
        IN  Read(last.aim, a) =
                IF rel.style = "domains"
                THEN IF a \in rel.names THEN all \ rel.foreign ELSE all
                ELSE AsRead(rel, Complete(last.given[a]))
Written == last.end = "done" /\ last.op \in {"create", "update"} /\ rel.style # "difference"

\* What a committed create() or update() has given is what a reader gets, in spite of
\* other transactions between its read and its flush.  The collections of security
\* group rules are merged instead, see Bumps; and a deletion that has lost its race
\* (Tears) takes away rows that a later transaction has read and relies on.
ReadsBack == Written /\ last.whole => GivenIsRead

\* An update() leaves the attributes it was not given as they are when it commits,
\* though from_attr() writes rows it has read before.
OthersKept ==
    [][\A aim \in DOMAIN rows :
          (last'.end = "done" /\ last'.op = "update" /\ last'.aim = aim /\ rel.style # "domains") =>
             \A a \in Attrs(rel) : a \in DOMAIN last'.given \/ Read(aim, a)' = Read(aim, a)]_vars

\* An association row belongs to an object that exists, whatever creations, updates
\* and deletions of it overlap.
NoOrphans == \A t \in assoc : t[1] \in DOMAIN rows

\* The unique constraint of every table is the identity of its class, neither less nor
\* more: there are never two objects with one identity, on which create() without a
\* query, or with one that found nothing, relies; and an object whose identity is free
\* can be created beside one that differs in any one attribute.
IdentityIsUnique ==
    /\ \A a, b \in DOMAIN rows : rows[a].id = rows[b].id => a = b
    /\ (last.end = "refused" /\ last.op = "create") => Found(last.id) # {}

\* "Persist AIM resource to the database" (aim/aim_manager.py, create and update), also
\* while a deletion of the object loses its race.
WrittenIsRead == Written => GivenIsRead

\* After delete() has committed the object is gone (aim/aim_manager.py: "Delete AIM
\* resource from the database").
GoneAfterDelete ==
    (last.end = "done" /\ last.op = "delete") => last.aim \notin DOMAIN rows

=============================================================================
