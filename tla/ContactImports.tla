----------------------------- MODULE ContactImports -----------------------------
(***************************************************************************)
(* The import of a file of contacts into a list, as a job in the web       *)
(* process.  It commits what it has every Batch rows, and the list's       *)
(* cached count only with the last of them; meanwhile the list is edited   *)
(* and looked at.                                                          *)
(***************************************************************************)
EXTENDS Naturals, Sequences, FiniteSets

CONSTANTS
    Numbers, Addresses,  \* phone numbers and email addresses; 0 is none
    Rows,                \* rows of the file
    Batch,               \* rows of one commit
    MaxEdits             \* bound on edits of the list

VARIABLES
    xfile,   \* the rows, and whether duplicates are skipped
    xjob,    \* the job's row
    xcrm,    \* contacts, and their further addresses
    xlist,   \* members of the list
    xcount,  \* its cached contact_count
    xwork,   \* the job's session: what it has read and not committed
    xedits,  \* edits so far
    xraced   \* the list was edited while the job ran

xvars == <<xfile, xjob, xcrm, xlist, xcount, xwork, xedits, xraced>>

Contacts == [phone : Numbers \union {0}, email : Addresses \union {0}, alias : SUBSET Addresses]
Tally == [imported |-> 0, merged |-> 0, duplicates |-> 0, invalid |-> 0]
NoWork == [on |-> FALSE, row |-> 0, last |-> 0, seen |-> {}, crm |-> <<>>, added |-> {},
           start |-> 0, total |-> 0, tally |-> Tally, ended |-> FALSE]

XInit ==
    /\ xfile \in [rows : [1..Rows -> [phone : Numbers \union {0}, email : Addresses \union {0}]],
                  skip : BOOLEAN]
    /\ xjob = [status |-> "queued", processed |-> 0, tally |-> Tally]
    /\ xcrm \in {<<>>, << [phone |-> 1, email |-> 1, alias |-> {}] >>,
                 << [phone |-> 1, email |-> 0, alias |-> {}],
                    [phone |-> 0, email |-> 1, alias |-> {}] >>}
    /\ xlist = {} /\ xcount = 0
    /\ xwork = NoWork /\ xedits = 0 /\ xraced = FALSE

-----------------------------------------------------------------------------
(* One row *)

\* contact_key: the number, else the address.
Key(r) == IF r.phone # 0 THEN <<"p", r.phone>> ELSE <<"e", r.email>>

\* The contact with the lowest id, 0 if there is none
First(S) == IF S = {} THEN 0 ELSE CHOOSE c \in S : \A d \in S : c <= d

\* _find_existing: by number, by address, by a further address.  (By name is
\* left out: rows have none.)
Existing(crm, r) ==
    LET byPhone == First({c \in DOMAIN crm : r.phone # 0 /\ crm[c].phone = r.phone})
        byEmail == First({c \in DOMAIN crm : r.email # 0 /\ crm[c].email = r.email})
        byAlias == First({c \in DOMAIN crm : r.email # 0 /\ r.email \in crm[c].alias})
    IN IF byPhone # 0 THEN byPhone ELSE IF byEmail # 0 THEN byEmail ELSE byAlias

\* _merge_into: fills what is missing; another address is kept as a further
\* one, unless it is somebody's already.
MergedInto(crm, c, r) ==
    LET known == \E d \in DOMAIN crm : r.email \in crm[d].alias
        email == IF crm[c].email = 0 THEN r.email ELSE crm[c].email
    IN [crm EXCEPT ![c] =
          [phone |-> IF @.phone = 0 THEN r.phone ELSE @.phone,
           email |-> email,
           alias |-> IF r.email \in {0, email} \/ known THEN @.alias ELSE @.alias \union {r.email}]]

Changes(crm, c, r) ==
    MergedInto(crm, c, r) # crm \/ (r.email \notin {0, crm[c].email} /\ r.email \in crm[c].alias)

Created(r) == [phone |-> r.phone, email |-> r.email, alias |-> {}]

\* Mutant: only those who are new go on the list.
JoinsNew(c) == {}

\* A merged row's person belongs in the list as well.
Joins(c) == {c}

Counted(field) == [xwork.tally EXCEPT ![field] = @ + 1]

Took(w, r) ==
    LET c == Existing(w.crm, r)
        seen == w.seen \union {Key(r)}
    IN CASE r.phone = 0 /\ r.email = 0 -> [w EXCEPT !.tally = Counted("invalid")]
         [] xfile.skip /\ Key(r) \in w.seen ->
              [w EXCEPT !.tally = Counted("duplicates")]
         [] xfile.skip /\ Key(r) \notin w.seen /\ c # 0 ->
              [w EXCEPT !.seen = seen, !.crm = MergedInto(@, c, r),
                        !.tally = Counted(IF Changes(w.crm, c, r) THEN "merged" ELSE "duplicates"),
                        !.added = @ \union (Joins(c) \ xlist),
                        !.total = @ + Cardinality(Joins(c) \ (xlist \union w.added))]
         [] OTHER ->
              [w EXCEPT !.seen = seen, !.crm = Append(@, Created(r)),
                        !.tally = Counted("imported"),
                        !.added = @ \union {Len(w.crm) + 1}, !.total = @ + 1]

\* The unique number refuses a second contact.
Collides(r) == ~xfile.skip /\ r.phone # 0 /\ \E c \in DOMAIN xwork.crm : xwork.crm[c].phone = r.phone

-----------------------------------------------------------------------------
(* _run_contact_import_job *)

Start ==
    /\ xjob.status = "queued"
    /\ xjob' = [xjob EXCEPT !.status = "running"]
    /\ xwork' = [NoWork EXCEPT !.on = TRUE, !.crm = xcrm, !.start = xcount]
    /\ UNCHANGED <<xfile, xcrm, xlist, xcount, xedits, xraced>>

Behind == xwork.row - xwork.last = Batch
AtEnd == xwork.row = Rows

TakeRow ==
    /\ xwork.on /\ ~AtEnd /\ ~Behind
    /\ ~Collides(xfile.rows[xwork.row + 1])
    /\ xwork' = [Took(xwork, xfile.rows[xwork.row + 1]) EXCEPT !.row = @ + 1]
    /\ UNCHANGED <<xfile, xjob, xcrm, xlist, xcount, xedits, xraced>>

Writes ==
    /\ xwork.added \intersect xlist = {}
    /\ xjob' = [xjob EXCEPT !.processed = xwork.row, !.tally = xwork.tally]
    /\ xcrm' = xwork.crm
    /\ xlist' = xlist \union xwork.added

\* publish_progress, every Batch rows.
Publish ==
    /\ xwork.on /\ Behind
    /\ Writes
    /\ xwork' = [xwork EXCEPT !.last = xwork.row, !.added = {}]
    /\ UNCHANGED <<xfile, xcount, xedits, xraced>>

\* The last time, with the count: that of the list as it was read at the
\* start and what the job has added.
PublishLast ==
    /\ xwork.on /\ AtEnd /\ ~Behind /\ ~xwork.ended
    /\ Writes
    /\ xcount' = IF xwork.total > 0 THEN xwork.start + xwork.total ELSE xcount
    /\ xwork' = [xwork EXCEPT !.last = xwork.row, !.added = {}, !.ended = TRUE]
    /\ UNCHANGED <<xfile, xedits, xraced>>

Complete ==
    /\ xwork.ended
    /\ xjob' = [xjob EXCEPT !.status = "completed"]
    /\ xwork' = NoWork
    /\ UNCHANGED <<xfile, xcrm, xlist, xcount, xedits, xraced>>

\* A number or a member that somebody else was first with, or anything else:
\* what was committed stays.
Fails ==
    /\ xwork.on
    /\ xjob' = [xjob EXCEPT !.status = "failed"]
    /\ xwork' = NoWork
    /\ UNCHANGED <<xfile, xcrm, xlist, xcount, xedits, xraced>>

\* The process dies: nobody takes the job up again.
Dies ==
    /\ xwork.on
    /\ xwork' = NoWork
    /\ UNCHANGED <<xfile, xjob, xcrm, xlist, xcount, xedits, xraced>>

-----------------------------------------------------------------------------
(* The list meanwhile: every edit counts the members that are committed *)

EditList(members) ==
    /\ xedits < MaxEdits
    /\ members # xlist
    /\ xlist' = members
    /\ xcount' = Cardinality(members)
    /\ xedits' = xedits + 1
    /\ xraced' = (xraced \/ xwork.on)
    /\ UNCHANGED <<xfile, xjob, xcrm, xwork>>

AddMember(c) == EditList(xlist \union {c})
RemoveMember(c) == EditList(xlist \ {c})

\* Looking at the lists repairs the counts.
LookAtLists ==
    /\ xcount # Cardinality(xlist)
    /\ xcount' = Cardinality(xlist)
    /\ UNCHANGED <<xfile, xjob, xcrm, xlist, xwork, xedits, xraced>>

JobStep == Start \/ TakeRow \/ Publish \/ PublishLast \/ Complete
XNext ==
    \/ JobStep \/ Fails \/ Dies \/ LookAtLists
    \/ \E c \in DOMAIN xcrm : AddMember(c) \/ RemoveMember(c)

-----------------------------------------------------------------------------
(* Properties *)

\* Somebody on the list has the number of the row, or its address.
HasEmail(c, a) == a # 0 /\ (xcrm[c].email = a \/ a \in xcrm[c].alias)
Listed(r) == \E c \in xlist : (r.phone # 0 /\ xcrm[c].phone = r.phone) \/ HasEmail(c, r.email)

\* An earlier row had the number as well and went by its address to somebody
\* on the list who has another number: its number is known, and nobody has it.
NumberLost(i) ==
    /\ xfile.skip /\ xfile.rows[i].phone # 0
    /\ \E j \in 1..(i - 1), c \in xlist :
         /\ xfile.rows[j].phone = xfile.rows[i].phone
         /\ xcrm[c].phone \notin {0, xfile.rows[j].phone}
         /\ HasEmail(c, xfile.rows[j].email)

\* "A merged row still belongs in the destination list": when the job has
\* completed, each row's person is on it, the new ones and those the file was
\* merged into, unless it was edited meanwhile or the row's number was lost.
EveryoneListed ==
    xjob.status = "completed" /\ xedits = 0 =>
      \A i \in 1..Rows : LET r == xfile.rows[i] IN
        r.phone # 0 \/ r.email # 0 => Listed(r) \/ NumberLost(i)

\* The cached count is that of the members, when no job is under way or was
\* cut short and none ran while the list was edited.
CountHolds ==
    (xjob.status \in {"queued", "completed"} \/ xwork.ended) /\ ~xraced =>
      xcount = Cardinality(xlist)

\* A batch is told of with what became of each of its rows, and no number is
\* there twice.
TallyHolds ==
    /\ LET t == xjob.tally IN t.imported + t.merged + t.duplicates + t.invalid = xjob.processed
    /\ \A c, d \in DOMAIN xcrm : c # d /\ xcrm[c].phone # 0 => xcrm[c].phone # xcrm[d].phone

ImportsHold == EveryoneListed /\ CountHolds /\ TallyHolds
=============================================================================
