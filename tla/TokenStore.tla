----------------------------- MODULE TokenStore -----------------------------
(***************************************************************************)
(* The database as it is opened, and who may log in (src/store.rs,         *)
(* src/tokens.rs, src/auth.rs).                                            *)
(*                                                                         *)
(* store::open brings a database of any age up to date: it creates what is *)
(* missing, adds columns, seeds the built-in principals and mirrors every  *)
(* plaintext token of the old table into principal_tokens. Each statement  *)
(* commits by itself, and the process may die between any two. A statement *)
(* that SQLite refuses (a second column of one name, a constraint) is not  *)
(* enabled here: the start it belongs to never completes.                  *)
(*                                                                         *)
(* A token text is the sequence of its parts between underscores, so       *)
(* "human-token" is <<"human-token">> and a generated token is             *)
(* <<"airc", id, secret>>. An argon2 hash is represented by what it        *)
(* hashes: verify is equality. The counter behind the log line of a legacy *)
(* login is left out. No tool changes tokens at this commit; the operator  *)
(* does in SQL what the tests do, while no start is under way.             *)
(***************************************************************************)
EXTENDS Integers, Sequences, SequencesExt

CONSTANTS Principal,
          None, Refused,
          Builtin,       \* sequence: the principals init seeds, in order
          Part,          \* strings without an underscore
          DefaultToken,  \* their hardcoded tokens
          Plaintext,     \* token texts that occur in principals.token
          TokenId,       \* bound: the ids tokens::generate draws, in order
          Secret,        \* the secrets it draws with them
          Legacy,        \* principals an old database may hold
          MaxCrashes,    \* bound: the process dies
          MaxChanges     \* bound: changes by the operator

Mirror == {"seed", "migrated-legacy"}

TOKEN_PREFIX == "airc"
Empty == ""

\* tokens::generate: the text of a token
NewFormat(id, secret) == <<TOKEN_PREFIX, id>> \o secret

\* no text is empty, and a secret and an id are not
Texts == Seq(Part) \ {<<>>, <<Empty>>}

ASSUME BuiltinArePrincipals ==
    Builtin \in Seq(Principal) /\ Builtin # <<>> /\ Legacy \subseteq Principal
ASSUME DefaultsAreTexts == DefaultToken \in [ToSet(Builtin) -> Plaintext]
ASSUME PlaintextsAreTexts == {TOKEN_PREFIX, Empty} \subseteq Part /\ Plaintext \subseteq Texts
ASSUME GeneratedAreTexts ==
    /\ TokenId \in Seq(Part) /\ Secret \in Seq(Texts) /\ Len(Secret) = Len(TokenId)
    /\ \A k \in DOMAIN TokenId : TokenId[k] # Empty
\* 32 random bytes do not come out as a hardcoded token, and nobody chooses a
\* plaintext that spells the id of a row and the plaintext hashed there
ASSUME GeneratedAreNew ==
    \A k \in DOMAIN TokenId :
        /\ \A p \in ToSet(Builtin) : DefaultToken[p] # NewFormat(TokenId[k], Secret[k])
        /\ \A t \in Plaintext : NewFormat(TokenId[k], t) \notin Plaintext
ASSUME NothingElse == None \notin Seq(Part) \cup Principal \cup Mirror /\ Refused \notin Principal
ASSUME StoreBounds == MaxCrashes \in Nat /\ MaxChanges \in Nat

Tables == <<"principals", "channel_memberships", "messages", "tasks",
            "principal_tokens", "idx_principal", "idx_principal_label">>
Migrations == <<<<"principals", "last_seen_seq">>, <<"principals", "connected_at">>,
                <<"principals", "disconnected_at">>,
                <<"channel_memberships", "last_seen_seq">>>>
Columns == ToSet(Migrations)

VARIABLES
    tables, columns,   \* the schema: tables and indexes, and the columns init migrates
    principals,        \* principals.token, None where there is no row
    rows,              \* principal_tokens; the row at k has token_id TokenId[k]
    stage, step,       \* init: the kind of statement that comes next, and its number
    todo,              \* backfill_principal_tokens: the rows of its query
    token, answer,     \* AuthStore: the token being authenticated, and the outcome
    may,               \* history: outcomes that were right at some time of the attempt
    retired,           \* history: plaintexts that were some principal's
    crashes, changes

database == <<tables, columns, principals, rows>>
init == <<stage, step, todo>>
auth == <<token, answer, may>>
vars == <<database, init, auth, retired, crashes, changes>>

Row == [owner : Principal, secret : Texts, label : Mirror \cup {None}, revoked : BOOLEAN]

Unique(f) == \A p, q \in DOMAIN f : p # q /\ f[p] # None => f[p] # f[q]

TypeOK ==
    /\ tables \subseteq ToSet(Tables) /\ columns \subseteq Columns
    /\ principals \in [Principal -> Plaintext \cup {None}] /\ Unique(principals)
    /\ rows \in Seq(Row) /\ Len(rows) <= Len(TokenId)
    /\ stage \in {"down", "create", "migrate", "seed", "mirror", "select", "backfill", "up"}
    /\ step \in Nat \ {0} /\ todo \subseteq Principal \X Plaintext
    /\ token \in Seq(Part) \cup {None}
    /\ answer \in Principal \cup {None, Refused} /\ may \subseteq Principal \cup {Refused}
    /\ retired \subseteq Principal \X Plaintext
    /\ crashes \in 0..MaxCrashes /\ changes \in 0..MaxChanges

\* no database yet, or one of before principal_tokens, with any of the columns
Init ==
    /\ \/ tables = {} /\ columns = {} /\ principals = [p \in Principal |-> None]
       \/ /\ tables = {Tables[k] : k \in 1..4}
          /\ columns \in SUBSET Columns
          /\ principals \in [Principal -> Plaintext \cup {None}] /\ Unique(principals)
          /\ \A p \in Principal \ Legacy : principals[p] = None
          /\ \A p \in Legacy, k \in DOMAIN TokenId :
               principals[p] # NewFormat(TokenId[k], Secret[k])
    /\ rows = <<>>
    /\ stage = "down" /\ step = 1 /\ todo = {}
    /\ token = None /\ answer = None /\ may = {}
    /\ retired = {} /\ crashes = 0 /\ changes = 0

-----------------------------------------------------------------------------
(* store::init, one action per statement. *)

Start ==
    /\ stage = "down"
    /\ stage' = "create" /\ step' = 1
    /\ UNCHANGED <<database, todo, auth, retired, crashes, changes>>

\* the statements of one kind are numbered from 1 to last
Proceed(last, then) ==
    IF step < last THEN stage' = stage /\ step' = step + 1
                   ELSE stage' = then /\ step' = 1

\* CREATE ... IF NOT EXISTS: a new table has all its columns
Create ==
    /\ stage = "create"
    /\ tables' = tables \cup {Tables[step]}
    /\ columns' = IF Tables[step] \in tables
                    THEN columns ELSE columns \cup {c \in Columns : c[1] = Tables[step]}
    /\ Proceed(Len(Tables), "migrate")
    /\ UNCHANGED <<principals, rows, todo, auth, retired, crashes, changes>>

\* migrate_principals and migrate_channel_memberships: pragma_table_info, then ALTER TABLE
Exists_Unchecked(c) == FALSE  \* faulty variant: ALTER TABLE whether the column is there or not
Exists(c) == c \in columns

Migrate ==
    /\ stage = "migrate"
    /\ ~Exists(Migrations[step]) => Migrations[step] \notin columns
    /\ columns' = columns \cup {Migrations[step]}
    /\ Proceed(Len(Migrations), "seed")
    /\ UNCHANGED <<tables, principals, rows, todo, auth, retired, crashes, changes>>

\* INSERT OR IGNORE INTO principals: neither the id nor the token may be there
Inserts_NewId(p) == principals[p] = None  \* faulty variant: overlooks the token
Inserts_Replace(p) ==  \* faulty variant: INSERT OR REPLACE
    \A q \in Principal \ {p} : principals[q] # DefaultToken[p]
Inserts(p) ==
    /\ principals[p] = None
    /\ \A q \in Principal : principals[q] # DefaultToken[p]

\* seed_principal returns early if it inserted nothing
Mirrored_Always(p) == TRUE  \* faulty variant: no early return
Mirrored(p) == Inserts(p)

SeedPrincipal ==
    /\ stage = "seed"
    /\ LET p == Builtin[step] IN
         /\ principals' = IF Inserts(p) THEN [principals EXCEPT ![p] = DefaultToken[p]]
                                        ELSE principals
         /\ IF Mirrored(p) THEN stage' = "mirror" /\ step' = step
                           ELSE Proceed(Len(Builtin), "select")
    /\ UNCHANGED <<tables, columns, rows, todo, auth, retired, crashes, changes>>

\* INSERT INTO principal_tokens, with a fresh token_id and the foreign key and
\* the unique index on owner and label
InsertToken(p, text, label) ==
    /\ Len(rows) < Len(TokenId) /\ principals[p] # None
    /\ label = None \/ ~\E k \in DOMAIN rows : rows[k].owner = p /\ rows[k].label = label
    /\ rows' = Append(rows, [owner |-> p, secret |-> text, label |-> label, revoked |-> FALSE])

SeedToken ==
    /\ stage = "mirror"
    /\ InsertToken(Builtin[step], DefaultToken[Builtin[step]], "seed")
    /\ IF step < Len(Builtin) THEN stage' = "seed" /\ step' = step + 1
                              ELSE stage' = "select" /\ step' = 1
    /\ UNCHANGED <<tables, columns, principals, todo, auth, retired, crashes, changes>>

\* principals without any row in principal_tokens, a revoked one included
HasToken_Builtin(p) ==  \* faulty variant: takes it that seeding mirrored its own
    p \in ToSet(Builtin) \/ \E k \in DOMAIN rows : rows[k].owner = p
HasToken(p) == \E k \in DOMAIN rows : rows[k].owner = p

SelectBackfill ==
    /\ stage = "select"
    /\ todo' = {<<p, principals[p]>> :
                  p \in {q \in Principal : principals[q] # None /\ ~HasToken(q)}}
    /\ stage' = "backfill"
    /\ UNCHANGED <<database, step, auth, retired, crashes, changes>>

Backfill ==
    /\ stage = "backfill"
    /\ \E r \in todo :
         /\ InsertToken(r[1], r[2], "migrated-legacy")
         /\ todo' = todo \ {r}
    /\ UNCHANGED <<tables, columns, principals, stage, step, auth, retired, crashes, changes>>

Open ==
    /\ stage = "backfill" /\ todo = {}
    /\ stage' = "up"
    /\ UNCHANGED <<database, step, todo, auth, retired, crashes, changes>>

\* the process dies, in init or later
Crash ==
    /\ stage # "down" /\ crashes < MaxCrashes
    /\ stage' = "down" /\ step' = 1 /\ todo' = {}
    /\ token' = None /\ answer' = None /\ may' = {}
    /\ crashes' = crashes + 1
    /\ UNCHANGED <<database, retired, changes>>

-----------------------------------------------------------------------------
(* AuthStore. *)

\* tokens::parse
IsNewFormat(t) ==
    /\ Len(t) >= 3 /\ t[1] = TOKEN_PREFIX
    /\ t[2] # Empty /\ SubSeq(t, 3, Len(t)) # <<Empty>>

Live_Any(k) == TRUE  \* faulty variant: no test of revoked_at
Live(k) == ~rows[k].revoked

\* tokens::verify of the hash in a row
Verify(k, t) == rows[k].secret = SubSeq(t, 3, Len(t))

\* authenticate_new: the token's principals by the new table, at most one
ByNew(t) ==
    IF IsNewFormat(t)
      THEN {rows[k].owner : k \in {j \in DOMAIN rows :
                TokenId[j] = t[2] /\ Live(j) /\ Verify(j, t)}}
      ELSE {}

\* authenticate_legacy: by the old table, at most one
ByLegacy(t) == {p \in Principal : principals[p] = t}

\* a reference: whose token a text is, by what the tables mean
Rightful(t) ==
    {p \in Principal :
        \/ principals[p] = t
        \/ \E k \in DOMAIN rows : /\ rows[k].owner = p /\ ~rows[k].revoked
                                  /\ t = NewFormat(TokenId[k], rows[k].secret)}
Outcome(t) == IF Rightful(t) = {} THEN {Refused} ELSE Rightful(t)

\* texts a client may present: plaintexts, and the id of any row with its secret
\* or with that of the first row
Presentable ==
    Plaintext \cup {NewFormat(TokenId[k], rows[k].secret) : k \in DOMAIN rows}
              \cup {NewFormat(TokenId[k], rows[1].secret) : k \in DOMAIN rows}

\* authenticate, in the first critical section on the database
Authenticate(t) ==
    /\ stage = "up" /\ token = None /\ answer = None
    /\ may' = Outcome(t)
    /\ \/ answer' \in ByNew(t) /\ UNCHANGED token
       \/ ByNew(t) = {} /\ token' = t /\ UNCHANGED answer
    /\ UNCHANGED <<database, init, retired, crashes, changes>>

\* and, if the new table did not know the token, in the second
AuthenticateLegacy ==
    /\ token # None
    /\ \/ answer' \in ByLegacy(token)
       \/ ByLegacy(token) = {} /\ answer' = Refused
    /\ token' = None
    /\ UNCHANGED <<database, init, may, retired, crashes, changes>>

\* try_register goes on with the principal, or sends 464
Conclude ==
    /\ answer # None
    /\ answer' = None /\ may' = {}
    /\ UNCHANGED <<database, init, token, retired, crashes, changes>>

-----------------------------------------------------------------------------
(* The operator, in SQL. *)

Idle == stage \in {"down", "up"} /\ "principals" \in tables /\ changes < MaxChanges
Changed ==
    /\ changes' = changes + 1
    /\ may' = IF token # None THEN may \cup Outcome(token)' ELSE may

\* UNIQUE, and an id that tokens::generate has yet to draw is in no text
Usable(t) ==
    /\ \A p \in Principal : principals[p] # t
    /\ IsNewFormat(t) => t[2] \notin {TokenId[k] : k \in DOMAIN TokenId \ DOMAIN rows}

AddPrincipal(p, t) ==
    /\ Idle /\ principals[p] = None /\ Usable(t)
    /\ principals' = [principals EXCEPT ![p] = t]
    /\ UNCHANGED <<tables, columns, rows, init, token, answer, retired, crashes>>
    /\ Changed

Rotate(p, t) ==
    /\ Idle /\ principals[p] # None /\ Usable(t)
    /\ principals' = [principals EXCEPT ![p] = t]
    /\ retired' = (retired \cup {<<p, principals[p]>>}) \ {<<p, t>>}
    /\ UNCHANGED <<tables, columns, rows, init, token, answer, crashes>>
    /\ Changed

\* a token of tokens::generate
Issue(p) ==
    /\ Idle /\ ToSet(Tables) \subseteq tables
    /\ Len(rows) < Len(TokenId)
    /\ InsertToken(p, Secret[Len(rows) + 1], None)
    /\ UNCHANGED <<tables, columns, principals, init, token, answer, retired, crashes>>
    /\ Changed

Revoke(k) ==
    /\ Idle /\ ~rows[k].revoked
    /\ rows' = [rows EXCEPT ![k].revoked = TRUE]
    /\ UNCHANGED <<tables, columns, principals, init, token, answer, retired, crashes>>
    /\ Changed

-----------------------------------------------------------------------------
InitStep ==
    Start \/ Create \/ Migrate \/ SeedPrincipal \/ SeedToken \/ SelectBackfill \/ Backfill \/ Open

Login == (\E t \in Presentable : Authenticate(t)) \/ AuthenticateLegacy \/ Conclude

Operator ==
    \/ \E p \in Principal, t \in Plaintext : AddPrincipal(p, t) \/ Rotate(p, t)
    \/ \E p \in Principal : Issue(p)
    \/ \E k \in DOMAIN rows : Revoke(k)

Next == InitStep \/ Crash \/ Login \/ Operator

Spec == Init /\ [][Next]_vars

\* a start goes on by itself; main restarts nothing, but an operator does
FairSpec == Spec /\ WF_vars(InitStep)

-----------------------------------------------------------------------------
(* Properties. *)

\* When open returns, whatever the database was and wherever earlier starts were
\* cut off, the schema is complete and every principal has a token row: a crash
\* between the two inserts of seed_principal is repaired by the backfill.
OpenComplete ==
    [][stage # "up" /\ stage' = "up" =>
         /\ tables = ToSet(Tables) /\ columns = Columns
         /\ \A p \in Principal : principals[p] # None =>
              \E k \in DOMAIN rows : rows[k].owner = p]_vars

\* init writes a principal's mirror once, over all its runs, and it hashes the
\* plaintext the principal has, never the hardcoded token of a rotated one; a
\* principal whose tokens were all revoked gets no new one.
MirrorFaithful ==
    [][\A k \in DOMAIN rows' : rows'[k].label \in Mirror /\ k \notin DOMAIN rows =>
         /\ rows'[k].secret = principals[rows'[k].owner]
         /\ \A j \in DOMAIN rows : rows[j].owner # rows'[k].owner]_vars

\* A plaintext that was rotated away from a principal does not log it in again,
\* after any number of restarts and seedings, unless it is given back or is also
\* a generated token that lives on.
RetiredStaysOut ==
    \A r \in retired : r[1] \in Rightful(r[2]) =>
        \E k \in DOMAIN rows : /\ rows[k].label = None /\ ~rows[k].revoked
                               /\ r[2] = NewFormat(TokenId[k], rows[k].secret)

\* The answer of authenticate, which reads the two tables in two critical
\* sections, is one that was right at some time of the attempt: a token revoked
\* or rotated away before it is refused, one valid all the time accepted.
AnswerRightful == answer # None => answer \in may

\* Every start completes: no statement fails, whatever is there already.
StartCompletes == stage = "create" ~> stage = "up"

=============================================================================
