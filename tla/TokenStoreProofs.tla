-------------------------- MODULE TokenStoreProofs --------------------------
(***************************************************************************)
(* Opening the database and logging in, for every set of principals and    *)
(* tokens, every database an earlier version left behind, and any number   *)
(* of crashes and of changes by the operator.                              *)
(***************************************************************************)
EXTENDS TokenStore, SequenceFacts, TLAPS

\* A start executes statements that there are.
StepKnown ==
    /\ stage = "create" => step <= Len(Tables)
    /\ stage = "migrate" => step <= Len(Migrations)
    /\ stage \in {"seed", "mirror"} => step <= Len(Builtin)

TypeInv == TypeOK /\ StepKnown

\* What a start has brought up to date so far is, whatever the database was.
SchemaSoFar ==
    /\ stage = "create" => \A i \in 1..(step - 1) : Tables[i] \in tables
    /\ stage \notin {"down", "create", "up"} => tables = ToSet(Tables)
    /\ stage = "migrate" => \A i \in 1..(step - 1) : Migrations[i] \in columns
    /\ stage \in {"seed", "mirror", "select", "backfill"} => columns = Columns

\* A row belongs to a principal that exists, and a mirror hashes a plaintext.
RowsSound ==
    \A k \in DOMAIN rows : /\ principals[rows[k].owner] # None
                           /\ rows[k].label \in Mirror => rows[k].secret \in Plaintext

\* Between the two inserts of seed_principal the token is there and its mirror is
\* not; backfill_principal_tokens works on what its query would still return.
PendingSound ==
    /\ stage = "mirror" => /\ principals[Builtin[step]] = DefaultToken[Builtin[step]]
                           /\ ~HasToken(Builtin[step])
    /\ stage = "backfill" =>
         todo = {<<p, principals[p]>> : p \in {q \in Principal : principals[q] # None /\ ~HasToken(q)}}

\* What was rotated away from a principal is not its plaintext; it has another.
RetiredReplaced == \A r \in retired : principals[r[1]] \notin {None, r[2]}

\* No plaintext of the old table is a token that is yet to be generated.
PlaintextsDrawn ==
    \A p \in Principal, k \in DOMAIN TokenId \ DOMAIN rows :
        principals[p] # NewFormat(TokenId[k], Secret[k])

\* Between the two critical sections of authenticate, every outcome that is right
\* now is noted; so is refusal, unless the old table alone has known the token.
AttemptSound ==
    token # None =>
        /\ stage = "up" /\ answer = None /\ token \in Seq(Part)
        /\ Outcome(token) \subseteq may
        /\ \/ Refused \in may
           \/ ByNew(token) = {} /\ ByLegacy(token) # {}

StoreInv ==
    /\ TypeInv /\ SchemaSoFar /\ RowsSound /\ PendingSound
    /\ RetiredReplaced /\ PlaintextsDrawn /\ AttemptSound /\ AnswerRightful

-----------------------------------------------------------------------------
(* Tokens and rows *)

\* None is neither a text nor the kind of a mirror.
LEMMA NoneIsNoText == None \notin Seq(Part) /\ None \notin Plaintext /\ None \notin Mirror
BY NothingElse, PlaintextsAreTexts DEF Texts

\* A generated token is parsed into the id and the secret it was made of.
LEMMA NewFormatFacts ==
    ASSUME NEW id \in Part, id # Empty, NEW secret \in Texts
    PROVE  /\ NewFormat(id, secret) \in Seq(Part) /\ IsNewFormat(NewFormat(id, secret))
           /\ NewFormat(id, secret)[2] = id
           /\ SubSeq(NewFormat(id, secret), 3, Len(NewFormat(id, secret))) = secret
<1> DEFINE t == NewFormat(id, secret)
<1>1. secret \in Seq(Part) /\ TOKEN_PREFIX \in Part
    BY PlaintextsAreTexts DEF Texts
<1>a. secret # <<>>
    BY DEF Texts
<1>b. secret # <<Empty>>
    BY DEF Texts
<1>2. Len(secret) \in Nat /\ Len(secret) # 0
    BY <1>1, <1>a, EmptySeq, LenProperties
<1>3. /\ t \in Seq(Part) /\ Len(t) = Len(secret) + 2 /\ t[1] = TOKEN_PREFIX /\ t[2] = id
      /\ SubSeq(t, 3, Len(t)) = secret
    BY <1>1, PairConcat DEF NewFormat
<1> HIDE DEF t
<1>c. Len(t) >= 3
    BY <1>2, <1>3
<1>d. SubSeq(t, 3, Len(t)) # <<Empty>>
    BY <1>3, <1>b, Zenon
<1>4. IsNewFormat(t)
    BY <1>3, <1>c, <1>d, Zenon DEF IsNewFormat
<1> QED
    BY <1>3, <1>4 DEF t

\* A token of the new format is spelled by its own id and secret.
LEMMA Respelled ==
    ASSUME NEW t \in Seq(Part), IsNewFormat(t)
    PROVE  t = NewFormat(t[2], SubSeq(t, 3, Len(t)))
<1>a. Len(t) \in Nat
    OBVIOUS
<1>1. Len(t) >= 3 /\ t[1] = TOKEN_PREFIX
    BY DEF IsNewFormat
<1>2. t = <<t[1], t[2]>> \o SubSeq(t, 3, Len(t))
    BY <1>a, <1>1, PairCut
<1> QED
    BY <1>1, <1>2 DEF NewFormat

\* The ids and the secrets of generated tokens.
LEMMA GeneratedFacts ==
    /\ Len(TokenId) \in Nat /\ DOMAIN TokenId = 1..Len(TokenId)
    /\ \A k \in DOMAIN TokenId : TokenId[k] \in Part /\ TokenId[k] # Empty /\ Secret[k] \in Texts
<1>1. /\ TokenId \in Seq(Part) /\ Secret \in Seq(Texts) /\ Len(Secret) = Len(TokenId)
      /\ \A k \in DOMAIN TokenId : TokenId[k] # Empty
    BY GeneratedAreTexts
<1>2. /\ Len(TokenId) \in Nat /\ DOMAIN TokenId = 1..Len(TokenId)
      /\ \A k \in 1..Len(TokenId) : TokenId[k] \in Part /\ Secret[k] \in Texts
    BY <1>1
<1> QED
    BY <1>1, <1>2

\* A live row spells a token exactly if the look-up by its id finds and verifies it.
LEMMA SpelledIsFound ==
    ASSUME TypeOK, NEW t \in Seq(Part), NEW k \in DOMAIN rows
    PROVE  t = NewFormat(TokenId[k], rows[k].secret) <=>
              IsNewFormat(t) /\ TokenId[k] = t[2] /\ Verify(k, t)
<1>1. rows \in Seq(Row) /\ Len(rows) <= Len(TokenId)
    BY DEF TypeOK
<1>2. Len(rows) \in Nat /\ DOMAIN rows = 1..Len(rows) /\ rows[k] \in Row
    BY <1>1
<1>3. k \in DOMAIN TokenId /\ rows[k].secret \in Texts
    BY <1>1, <1>2, GeneratedFacts DEF Row
<1>4. TokenId[k] \in Part /\ TokenId[k] # Empty
    BY <1>3, GeneratedFacts
<1> QED
    BY <1>3, <1>4, NewFormatFacts, Respelled DEF Verify

\* What the two look-ups find is what the tables mean: the reference Rightful.
LEMMA RightfulIsFound ==
    ASSUME TypeOK, NEW t \in Seq(Part)
    PROVE  Rightful(t) = ByLegacy(t) \cup ByNew(t)
<1>1. rows \in Seq(Row)
    BY DEF TypeOK
<1>2. ByNew(t) = {rows[k].owner : k \in {j \in DOMAIN rows :
                                   ~rows[j].revoked /\ t = NewFormat(TokenId[j], rows[j].secret)}}
    BY SpelledIsFound DEF ByNew, Live
<1>3. \A k \in DOMAIN rows : rows[k] \in Row
    BY <1>1
<1>4. \A k \in DOMAIN rows : rows[k].owner \in Principal
    BY <1>3 DEF Row
<1> QED
    BY <1>2, <1>4 DEF Rightful, ByLegacy

\* What a client may present is a text.
LEMMA PresentableAreTexts ==
    ASSUME TypeOK, NEW t \in Presentable
    PROVE  t \in Seq(Part)
<1>0. rows \in Seq(Row) /\ Len(rows) <= Len(TokenId)
    BY DEF TypeOK
<1>1. Len(rows) \in Nat /\ DOMAIN rows = 1..Len(rows) /\ \A k \in DOMAIN rows : rows[k] \in Row
    BY <1>0
<1>b. Len(TokenId) \in Nat /\ DOMAIN TokenId = 1..Len(TokenId)
    BY GeneratedFacts
<1>2. \A k \in DOMAIN rows : k \in DOMAIN TokenId /\ 1 \in DOMAIN rows
    BY <1>0, <1>1, <1>b
<1>3. \A k \in DOMAIN rows : /\ NewFormat(TokenId[k], rows[k].secret) \in Seq(Part)
                             /\ NewFormat(TokenId[k], rows[1].secret) \in Seq(Part)
    BY <1>1, <1>2, GeneratedFacts, NewFormatFacts DEF Row
<1>4. Plaintext \subseteq Seq(Part)
    BY PlaintextsAreTexts DEF Texts
<1> QED
    BY <1>3, <1>4 DEF Presentable

\* One more row.
LEMMA InsertFacts ==
    ASSUME TypeOK, NEW p \in Principal, NEW text \in Texts, NEW label \in Mirror \cup {None},
           InsertToken(p, text, label)
    PROVE  /\ rows' \in Seq(Row) /\ Len(rows') <= Len(TokenId)
           /\ DOMAIN rows' = DOMAIN rows \cup {Len(rows) + 1} /\ Len(rows) + 1 \notin DOMAIN rows
           /\ Len(rows) + 1 \in DOMAIN TokenId
           /\ \A k \in DOMAIN rows : rows'[k] = rows[k]
           /\ rows'[Len(rows) + 1] = [owner |-> p, secret |-> text, label |-> label, revoked |-> FALSE]
<1> DEFINE r == [owner |-> p, secret |-> text, label |-> label, revoked |-> FALSE]
<1>1. r \in Row
    BY DEF Row
<1>a. rows \in Seq(Row)
    BY DEF TypeOK
<1>b. TokenId \in Seq(Part)
    BY GeneratedAreTexts
<1>2. Len(rows) \in Nat /\ Len(TokenId) \in Nat
    BY <1>a, <1>b
<1>3. rows' = Append(rows, r) /\ Len(rows) < Len(TokenId)
    BY DEF InsertToken
<1> HIDE DEF r
<1> QED
    BY <1>1, <1>2, <1>3, <1>a, <1>b DEF r

\* A row is marked, the others and the rest of it are kept.
LEMMA RevokeFacts ==
    ASSUME TypeOK, NEW k \in DOMAIN rows, rows' = [rows EXCEPT ![k].revoked = TRUE]
    PROVE  /\ rows' \in Seq(Row) /\ Len(rows') = Len(rows) /\ DOMAIN rows' = DOMAIN rows
           /\ \A j \in DOMAIN rows :
                /\ rows'[j].owner = rows[j].owner /\ rows'[j].secret = rows[j].secret
                /\ rows'[j].label = rows[j].label
                /\ ~rows'[j].revoked => ~rows[j].revoked
<1>1. rows \in Seq(Row) /\ Len(rows) \in Nat /\ DOMAIN rows = 1..Len(rows)
    BY DEF TypeOK
<1>2. rows[k] \in Row
    BY <1>1
<1>3. [rows[k] EXCEPT !.revoked = TRUE] \in Row
    BY <1>2 DEF Row
<1>4. /\ rows' = [rows EXCEPT ![k] = [rows[k] EXCEPT !.revoked = TRUE]]
      /\ [rows[k] EXCEPT !.revoked = TRUE].owner = rows[k].owner
      /\ [rows[k] EXCEPT !.revoked = TRUE].secret = rows[k].secret
      /\ [rows[k] EXCEPT !.revoked = TRUE].label = rows[k].label
      /\ [rows[k] EXCEPT !.revoked = TRUE].revoked = TRUE
    BY <1>2 DEF Row
<1> QED
    BY <1>1, <1>3, <1>4

\* A plaintext becomes a principal's: nobody has it yet.
LEMMA PlaintextFacts ==
    ASSUME TypeOK, NEW p \in Principal, NEW t \in Plaintext, \A q \in Principal : principals[q] # t,
           principals' = [principals EXCEPT ![p] = t]
    PROVE  /\ principals' \in [Principal -> Plaintext \cup {None}] /\ Unique(principals')
           /\ principals'[p] = t /\ t # None
           /\ \A q \in Principal \ {p} : principals'[q] = principals[q]
BY NoneIsNoText DEF TypeOK, Unique

-----------------------------------------------------------------------------
(* Types *)

\* The hardcoded tokens are texts of the principals that are seeded.
LEMMA BuiltinFacts ==
    ASSUME NEW i \in 1..Len(Builtin)
    PROVE  /\ Builtin[i] \in Principal /\ Builtin[i] \in ToSet(Builtin)
           /\ DefaultToken[Builtin[i]] \in Plaintext /\ DefaultToken[Builtin[i]] \in Texts
<1>1. Builtin \in Seq(Principal)
    BY BuiltinArePrincipals
<1>2. Builtin[i] \in Principal /\ Builtin[i] \in ToSet(Builtin)
    BY <1>1, ToSetMember
<1> QED
    BY <1>2, DefaultsAreTexts, PlaintextsAreTexts

\* There is a statement of every kind.
LEMMA StatementFacts ==
    /\ Len(Tables) = 7 /\ DOMAIN Tables = 1..7
    /\ Len(Migrations) = 4 /\ DOMAIN Migrations = 1..4
    /\ Len(Builtin) \in Nat \ {0}
<1>1. Len(Tables) = 7 /\ DOMAIN Tables = 1..7
    BY DEF Tables
<1>2. Len(Migrations) = 4 /\ DOMAIN Migrations = 1..4
    BY DEF Migrations
<1>3. Len(Builtin) \in Nat \ {0}
    BY BuiltinArePrincipals, EmptySeq
<1> QED
    BY <1>1, <1>2, <1>3

\* A database without token rows, and no start under way.
LEMMA InitTypeInv == Init => TypeInv
<1> SUFFICES ASSUME Init PROVE TypeInv
    OBVIOUS
<1>1. /\ tables \subseteq ToSet(Tables) /\ columns \subseteq Columns
      /\ principals \in [Principal -> Plaintext \cup {None}]
    BY StatementFacts DEF Init, ToSet
<1>2. Unique(principals)
    BY DEF Init, Unique
<1>3. rows \in Seq(Row) /\ Len(rows) <= Len(TokenId)
    <2>1. rows = <<>> /\ Len(TokenId) \in Nat
        BY GeneratedAreTexts, LenProperties DEF Init
    <2> QED
        BY <2>1
<1> QED
    BY <1>1, <1>2, <1>3, StoreBounds DEF Init, TypeInv, TypeOK, StepKnown

\* A start goes on to a statement that there is.
LEMMA ProceedFacts ==
    ASSUME StepKnown, step \in Nat \ {0}, NEW last \in Nat \ {0}, NEW then, step <= last,
           Proceed(last, then)
    PROVE  /\ step' \in Nat \ {0}
           /\ \/ stage' = stage /\ step' = step + 1 /\ step' <= last
              \/ stage' = then /\ step' = 1 /\ step = last
BY DEF Proceed

\* A start keeps the types: what it inserts are plaintexts and hashes of them.
LEMMA StartTypeInv == StoreInv /\ (InitStep \/ Crash) => TypeInv'
<1> SUFFICES ASSUME StoreInv, InitStep \/ Crash PROVE TypeInv'
    OBVIOUS
<1>0. /\ TypeInv /\ TypeOK /\ StepKnown /\ PendingSound
      /\ \A p \in Principal : principals[p] \in Plaintext \cup {None}
    BY DEF StoreInv, TypeInv, TypeOK
<1>1. CASE Start
    BY <1>0, <1>1, StatementFacts DEF Start, database, auth, TypeInv, TypeOK, StepKnown
<1>2. CASE Create
    <2>1. /\ step \in 1..7 /\ Tables[step] \in ToSet(Tables)
          /\ stage = "create" /\ Proceed(7, "migrate")
        BY <1>0, <1>2, StatementFacts DEF Create, StepKnown, TypeOK, ToSet
    <2>2. tables' \subseteq ToSet(Tables) /\ columns' \subseteq Columns
        BY <1>0, <1>2, <2>1 DEF Create, TypeOK
    <2>3. step' \in Nat \ {0} /\ stage' \in {"create", "migrate"} /\ StepKnown'
        BY <1>0, <2>1, ProceedFacts, StatementFacts DEF StepKnown, TypeOK
    <2> QED
        BY <1>0, <1>2, <2>2, <2>3 DEF Create, auth, TypeInv, TypeOK
<1>3. CASE Migrate
    <2>1. /\ step \in 1..4 /\ Migrations[step] \in Columns
          /\ stage = "migrate" /\ Proceed(4, "seed")
        BY <1>0, <1>3, StatementFacts DEF Migrate, StepKnown, TypeOK, ToSet, Columns
    <2>2. columns' \subseteq Columns
        BY <1>0, <1>3, <2>1 DEF Migrate, TypeOK
    <2>3. step' \in Nat \ {0} /\ stage' \in {"migrate", "seed"} /\ StepKnown'
        BY <1>0, <2>1, ProceedFacts, StatementFacts DEF StepKnown, TypeOK
    <2> QED
        BY <1>0, <1>3, <2>2, <2>3 DEF Migrate, auth, TypeInv, TypeOK
<1>4. CASE SeedPrincipal
    <2>1. stage = "seed" /\ step \in 1..Len(Builtin)
        BY <1>0, <1>4, StatementFacts DEF SeedPrincipal, StepKnown, TypeOK
    <2>2. principals' \in [Principal -> Plaintext \cup {None}] /\ Unique(principals')
        <3> DEFINE p == Builtin[step]
        <3>1. p \in Principal /\ DefaultToken[p] \in Plaintext
            BY <2>1, BuiltinFacts
        <3>2. CASE Inserts(p)
            BY <1>0, <1>4, <3>1, <3>2, PlaintextFacts DEF SeedPrincipal, Inserts
        <3>3. CASE ~Inserts(p)
            BY <1>0, <1>4, <3>3 DEF SeedPrincipal, TypeOK
        <3> QED
            BY <3>2, <3>3
    <2>3. step' \in Nat \ {0} /\ stage' \in {"mirror", "seed", "select"} /\ StepKnown'
        <3>1. CASE Proceed(Len(Builtin), "select")
            BY <1>0, <2>1, <3>1, ProceedFacts, StatementFacts DEF StepKnown, TypeOK
        <3>2. CASE stage' = "mirror" /\ step' = step
            BY <2>1, <3>2 DEF StepKnown
        <3> QED
            BY <1>4, <3>1, <3>2 DEF SeedPrincipal
    <2> QED
        BY <1>0, <1>4, <2>2, <2>3 DEF SeedPrincipal, auth, TypeInv, TypeOK
<1>5. CASE SeedToken
    <2>1. stage = "mirror" /\ step \in 1..Len(Builtin)
        BY <1>0, <1>5, StatementFacts DEF SeedToken, StepKnown, TypeOK
    <2>2. rows' \in Seq(Row) /\ Len(rows') <= Len(TokenId)
        BY <1>0, <1>5, <2>1, BuiltinFacts, InsertFacts DEF SeedToken, Mirror
    <2>3. step' \in Nat \ {0} /\ stage' \in {"seed", "select"} /\ StepKnown'
        BY <1>5, <2>1, StatementFacts DEF SeedToken, StepKnown
    <2> QED
        BY <1>0, <1>5, <2>2, <2>3 DEF SeedToken, auth, TypeInv, TypeOK
<1>6. CASE SelectBackfill
    <2>1. todo' \subseteq Principal \X Plaintext
        BY <1>0, <1>6 DEF SelectBackfill
    <2> QED
        BY <1>0, <1>6, <2>1 DEF SelectBackfill, database, auth, TypeInv, TypeOK, StepKnown
<1>7. CASE Backfill
    <2>1. PICK r \in todo : InsertToken(r[1], r[2], "migrated-legacy") /\ todo' = todo \ {r}
        BY <1>7 DEF Backfill
    <2>2. r[1] \in Principal /\ r[2] \in Texts
        BY <1>0, PlaintextsAreTexts DEF TypeOK
    <2>3. rows' \in Seq(Row) /\ Len(rows') <= Len(TokenId)
        BY <1>0, <2>1, <2>2, InsertFacts DEF Mirror
    <2> QED
        BY <1>0, <1>7, <2>1, <2>3 DEF Backfill, auth, TypeInv, TypeOK, StepKnown
<1>8. CASE Open
    BY <1>0, <1>8 DEF Open, database, auth, TypeInv, TypeOK, StepKnown
<1>9. CASE Crash
    BY <1>0, <1>9, StoreBounds DEF Crash, database, TypeInv, TypeOK, StepKnown
<1> QED
    BY <1>1, <1>2, <1>3, <1>4, <1>5, <1>6, <1>7, <1>8, <1>9 DEF InitStep

\* The tokens and the principals that logging in works with exist.
LEMMA OutcomeFacts ==
    ASSUME TypeOK, NEW t
    PROVE  Outcome(t) \subseteq Principal \cup {Refused} /\ ByNew(t) \subseteq Principal
<1>0. rows \in Seq(Row)
    BY DEF TypeOK
<1>1. \A k \in DOMAIN rows : rows[k] \in Row
    BY <1>0
<1> QED
    BY <1>1 DEF Outcome, Rightful, ByNew, Row

\* What a client presents is a text, and the operator's changes are well-formed.
LEMMA RestTypeInv == StoreInv /\ (Login \/ Operator) => TypeInv'
<1> SUFFICES ASSUME StoreInv, Login \/ Operator PROVE TypeInv'
    OBVIOUS
<1>0. TypeInv /\ TypeOK /\ StepKnown
    BY DEF StoreInv, TypeInv
<1>1. ASSUME NEW t \in Presentable, Authenticate(t) PROVE TypeInv'
    <2>1. t \in Seq(Part)
        BY <1>0, PresentableAreTexts
    <2>2. may' \subseteq Principal \cup {Refused}
        BY <1>0, <1>1, OutcomeFacts DEF Authenticate
    <2>3. answer' \in Principal \cup {None, Refused} /\ token' \in Seq(Part) \cup {None}
        BY <1>0, <1>1, <2>1, OutcomeFacts DEF Authenticate, TypeOK
    <2> QED
        BY <1>0, <1>1, <2>2, <2>3 DEF Authenticate, database, init, TypeInv, TypeOK, StepKnown
<1>2. CASE AuthenticateLegacy
    <2>1. answer' \in Principal \cup {None, Refused}
        BY <1>2 DEF AuthenticateLegacy, ByLegacy
    <2> QED
        BY <1>0, <1>2, <2>1 DEF AuthenticateLegacy, database, init, TypeInv, TypeOK, StepKnown
<1>3. CASE Conclude
    BY <1>0, <1>3 DEF Conclude, database, init, TypeInv, TypeOK, StepKnown
<1>4. ASSUME Changed, changes < MaxChanges,
             UNCHANGED <<tables, columns, init, token, answer, crashes>>,
             principals' \in [Principal -> Plaintext \cup {None}], Unique(principals'),
             rows' \in Seq(Row), Len(rows') <= Len(TokenId), retired' \subseteq Principal \X Plaintext
      PROVE  TypeInv'
    <2>1. Outcome(token)' \subseteq Principal \cup {Refused}
        <3>1. \A k \in DOMAIN rows' : rows'[k] \in Row
            BY <1>4
        <3> QED
            BY <3>1 DEF Outcome, Rightful, Row
    <2>2. may' \subseteq Principal \cup {Refused}
        BY <1>0, <1>4, <2>1 DEF Changed, TypeOK
    <2>3. changes' \in 0..MaxChanges
        BY <1>0, <1>4, StoreBounds DEF Changed, TypeOK
    <2> QED
        BY <1>0, <1>4, <2>2, <2>3 DEF init, TypeInv, TypeOK, StepKnown
<1>5. ASSUME NEW p \in Principal, NEW t \in Plaintext, AddPrincipal(p, t) \/ Rotate(p, t)
      PROVE  TypeInv'
    <2>1. principals' \in [Principal -> Plaintext \cup {None}] /\ Unique(principals')
        BY <1>0, <1>5, PlaintextFacts DEF AddPrincipal, Rotate, Usable
    <2>2. retired' \subseteq Principal \X Plaintext
        BY <1>0, <1>5 DEF AddPrincipal, Rotate, TypeOK
    <2> QED
        BY <1>0, <1>4, <1>5, <2>1, <2>2 DEF AddPrincipal, Rotate, Idle, TypeOK
<1>6. ASSUME NEW p \in Principal, Issue(p) PROVE TypeInv'
    <2>1. Secret[Len(rows) + 1] \in Texts
        <3>1. rows \in Seq(Row)
            BY <1>0 DEF TypeOK
        <3>2. Len(rows) \in Nat /\ Len(rows) < Len(TokenId)
            BY <1>6, <3>1 DEF Issue
        <3> QED
            BY <3>2, GeneratedFacts
    <2>2. rows' \in Seq(Row) /\ Len(rows') <= Len(TokenId)
        BY <1>0, <1>6, <2>1, InsertFacts DEF Issue
    <2> QED
        BY <1>0, <1>4, <1>6, <2>2 DEF Issue, Idle, TypeOK
<1>7. ASSUME NEW k \in DOMAIN rows, Revoke(k) PROVE TypeInv'
    <2>1. rows' \in Seq(Row) /\ Len(rows') = Len(rows)
        BY <1>0, <1>7, RevokeFacts DEF Revoke
    <2> QED
        BY <1>0, <1>4, <1>7, <2>1 DEF Revoke, Idle, TypeOK
<1> QED
    BY <1>1, <1>2, <1>3, <1>5, <1>6, <1>7 DEF Login, Operator

-----------------------------------------------------------------------------
(* Opening the database *)

\* Statements execute in order, and only a start changes the schema.
LEMMA NextSchema == StoreInv /\ [Next]_vars => SchemaSoFar'
<1> SUFFICES ASSUME StoreInv, [Next]_vars PROVE SchemaSoFar'
    OBVIOUS
<1>0. TypeOK /\ StepKnown /\ SchemaSoFar
    BY DEF StoreInv, TypeInv
<1>1. CASE Create
    <2>1. /\ step \in 1..7 /\ stage = "create" /\ Proceed(7, "migrate")
          /\ tables' = tables \cup {Tables[step]} /\ tables' \subseteq ToSet(Tables)
        BY <1>0, <1>1, StatementFacts DEF Create, StepKnown, TypeOK, ToSet
    <2>2. \A i \in 1..step : Tables[i] \in tables'
        BY <1>0, <2>1 DEF SchemaSoFar
    <2>3. CASE step < 7
        BY <2>1, <2>2, <2>3 DEF Proceed, SchemaSoFar
    <2>4. CASE step = 7
        <3>1. stage' = "migrate" /\ step' = 1
            BY <2>1, <2>4 DEF Proceed
        <3>2. tables' = ToSet(Tables)
            BY <2>1, <2>2, <2>4, StatementFacts DEF ToSet
        <3> QED
            BY <3>1, <3>2 DEF SchemaSoFar
    <2> QED
        BY <2>1, <2>3, <2>4
<1>2. CASE Migrate
    <2>1. /\ step \in 1..4 /\ stage = "migrate" /\ Proceed(4, "seed")
          /\ columns' = columns \cup {Migrations[step]} /\ columns' \subseteq Columns
          /\ tables' = tables
        BY <1>0, <1>2, StatementFacts DEF Migrate, StepKnown, TypeOK, ToSet, Columns
    <2>2. tables' = ToSet(Tables) /\ \A i \in 1..step : Migrations[i] \in columns'
        BY <1>0, <2>1 DEF SchemaSoFar
    <2>3. CASE step < 4
        BY <2>1, <2>2, <2>3 DEF Proceed, SchemaSoFar
    <2>4. CASE step = 4
        <3>1. stage' = "seed" /\ step' = 1
            BY <2>1, <2>4 DEF Proceed
        <3>2. columns' = Columns
            BY <2>1, <2>2, <2>4, StatementFacts DEF ToSet, Columns
        <3> QED
            BY <2>2, <3>1, <3>2 DEF SchemaSoFar
    <2> QED
        BY <2>1, <2>3, <2>4
<1>3. ASSUME UNCHANGED <<tables, columns>>,
             stage \in {"seed", "mirror", "select", "backfill"},
             stage' \in {"seed", "mirror", "select", "backfill"}
      PROVE  SchemaSoFar'
    BY <1>0, <1>3 DEF SchemaSoFar
<1>4. CASE SeedPrincipal \/ SeedToken
    BY <1>3, <1>4 DEF SeedPrincipal, SeedToken, Proceed
<1>5. CASE SelectBackfill \/ Backfill
    BY <1>3, <1>5 DEF SelectBackfill, Backfill, database
<1>6. CASE Start
    BY <1>6 DEF Start, SchemaSoFar
<1>7. CASE stage' \in {"down", "up"}
    BY <1>7 DEF SchemaSoFar
<1>8. CASE UNCHANGED <<tables, columns, init>>
    BY <1>0, <1>8 DEF SchemaSoFar, init
<1> QED
    BY <1>1, <1>2, <1>4, <1>5, <1>6, <1>7, <1>8
       DEF Next, InitStep, Open, Crash, Login, Authenticate, AuthenticateLegacy, Conclude,
           Operator, AddPrincipal, Rotate, Issue, Revoke, database, vars

\* The principals that have a token row.
LEMMA InsertOwner ==
    ASSUME TypeOK, NEW p \in Principal, NEW text \in Texts, NEW label \in Mirror \cup {None},
           InsertToken(p, text, label), NEW q
    PROVE  HasToken(q)' <=> HasToken(q) \/ q = p
<1>1. /\ DOMAIN rows' = DOMAIN rows \cup {Len(rows) + 1}
      /\ \A k \in DOMAIN rows : rows'[k].owner = rows[k].owner
      /\ rows'[Len(rows) + 1].owner = p
    <2>1. /\ DOMAIN rows' = DOMAIN rows \cup {Len(rows) + 1}
          /\ \A k \in DOMAIN rows : rows'[k] = rows[k]
          /\ rows'[Len(rows) + 1] = [owner |-> p, secret |-> text, label |-> label, revoked |-> FALSE]
        BY InsertFacts
    <2> QED
        BY <2>1
<1> QED
    BY <1>1 DEF HasToken

\* Rows are inserted for principals that exist, mirrors with a plaintext.
LEMMA NextRows == StoreInv /\ [Next]_vars => RowsSound'
<1> SUFFICES ASSUME StoreInv, [Next]_vars PROVE RowsSound'
    OBVIOUS
<1>0. /\ TypeInv /\ TypeOK /\ StepKnown /\ RowsSound /\ PendingSound
      /\ rows \in Seq(Row) /\ principals \in [Principal -> Plaintext \cup {None}]
    BY DEF StoreInv, TypeInv, TypeOK
<1>a. \A k \in DOMAIN rows : rows[k].owner \in Principal
    <2>1. \A k \in DOMAIN rows : rows[k] \in Row
        BY <1>0
    <2> QED
        BY <2>1 DEF Row
<1>1. ASSUME NEW p \in Principal, NEW text \in Texts, NEW label \in Mirror \cup {None},
             InsertToken(p, text, label), principals' = principals,
             label \in Mirror => text \in Plaintext
      PROVE  RowsSound'
    <2>1. principals[p] # None
        BY <1>1 DEF InsertToken
    <2> QED
        <3>1. /\ DOMAIN rows' = DOMAIN rows \cup {Len(rows) + 1}
              /\ \A k \in DOMAIN rows : rows'[k] = rows[k]
              /\ rows'[Len(rows) + 1] = [owner |-> p, secret |-> text, label |-> label, revoked |-> FALSE]
            BY <1>0, <1>1, InsertFacts
        <3>2. /\ rows'[Len(rows) + 1].owner = p /\ rows'[Len(rows) + 1].secret = text
              /\ rows'[Len(rows) + 1].label = label
            BY <3>1
        <3> QED
            BY <1>0, <1>1, <2>1, <3>1, <3>2 DEF RowsSound
<1>2. ASSUME UNCHANGED rows, NEW p \in Principal, NEW t \in Plaintext,
             principals' = [principals EXCEPT ![p] = t]
      PROVE  RowsSound'
    <2>1. t # None
        BY NoneIsNoText
    <2> QED
        BY <1>0, <1>2, <1>a, <2>1 DEF RowsSound
<1>3. ASSUME UNCHANGED <<rows, principals>> PROVE RowsSound'
    BY <1>0, <1>3 DEF RowsSound
<1>4. CASE SeedPrincipal
    <2>1. step \in 1..Len(Builtin)
        BY <1>0, <1>4, StatementFacts DEF SeedPrincipal, StepKnown, TypeOK
    <2> QED
        BY <1>2, <1>3, <1>4, <2>1, BuiltinFacts DEF SeedPrincipal
<1>5. CASE SeedToken
    <2>1. step \in 1..Len(Builtin)
        BY <1>0, <1>5, StatementFacts DEF SeedToken, StepKnown, TypeOK
    <2> QED
        BY <1>1, <1>5, <2>1, BuiltinFacts DEF SeedToken, Mirror
<1>6. CASE Backfill
    <2>1. PICK r \in todo : InsertToken(r[1], r[2], "migrated-legacy")
        BY <1>6 DEF Backfill
    <2>2. r[1] \in Principal /\ r[2] \in Plaintext /\ r[2] \in Texts
        BY <1>0, PlaintextsAreTexts DEF TypeOK
    <2> QED
        BY <1>1, <1>6, <2>1, <2>2 DEF Backfill, Mirror
<1>7. ASSUME NEW p \in Principal, NEW t \in Plaintext, AddPrincipal(p, t) \/ Rotate(p, t)
      PROVE  RowsSound'
    BY <1>2, <1>7 DEF AddPrincipal, Rotate
<1>8. ASSUME NEW p \in Principal, Issue(p) PROVE RowsSound'
    <2>1. Secret[Len(rows) + 1] \in Texts
        <3>1. Len(rows) \in Nat /\ Len(rows) < Len(TokenId)
            BY <1>0, <1>8 DEF Issue
        <3> QED
            BY <3>1, GeneratedFacts
    <2> QED
        BY <1>1, <1>8, <2>1, NoneIsNoText DEF Issue
<1>9. ASSUME NEW k \in DOMAIN rows, Revoke(k) PROVE RowsSound'
    BY <1>0, <1>9, RevokeFacts DEF Revoke, RowsSound
<1> QED
    BY <1>3, <1>4, <1>5, <1>6, <1>7, <1>8, <1>9
       DEF Next, InitStep, Start, Create, Migrate, SelectBackfill, Open, Crash, Login, Authenticate,
           AuthenticateLegacy, Conclude, Operator, database, vars

\* What a start has read stays true until it acts on it: nobody else writes.
LEMMA NextPending == StoreInv /\ [Next]_vars => PendingSound'
<1> SUFFICES ASSUME StoreInv, [Next]_vars PROVE PendingSound'
    OBVIOUS
<1>0. /\ TypeOK /\ StepKnown /\ RowsSound /\ PendingSound
      /\ rows \in Seq(Row) /\ principals \in [Principal -> Plaintext \cup {None}]
    BY DEF StoreInv, TypeInv, TypeOK
<1>1. ASSUME stage' \notin {"mirror", "backfill"} PROVE PendingSound'
    BY <1>1 DEF PendingSound
<1>2. CASE SeedPrincipal
    <2>1. stage = "seed" /\ step \in 1..Len(Builtin) /\ rows' = rows
        BY <1>0, <1>2, StatementFacts DEF SeedPrincipal, StepKnown, TypeOK
    <2> DEFINE p == Builtin[step]
    <2>2. p \in Principal
        BY <2>1, BuiltinFacts
    <2>3. CASE Inserts(p)
        <3>1. stage' = "mirror" /\ step' = step /\ principals' = [principals EXCEPT ![p] = DefaultToken[p]]
            BY <1>2, <2>3 DEF SeedPrincipal, Mirrored
        <3>2. ~HasToken(p)
            BY <1>0, <2>2, <2>3 DEF Inserts, RowsSound, HasToken
        <3>3. ~HasToken(p)' /\ principals'[p] = DefaultToken[p]
            BY <1>0, <2>1, <2>2, <3>1, <3>2 DEF HasToken
        <3> QED
            BY <3>1, <3>3 DEF PendingSound, HasToken
    <2>4. CASE ~Inserts(p)
        BY <1>1, <1>2, <2>1, <2>4 DEF SeedPrincipal, Mirrored, Proceed
    <2> QED
        BY <2>3, <2>4
<1>3. CASE SelectBackfill
    BY <1>3 DEF SelectBackfill, PendingSound, HasToken, database
<1>4. CASE Backfill
    <2>1. PICK r \in todo : InsertToken(r[1], r[2], "migrated-legacy") /\ todo' = todo \ {r}
        BY <1>4 DEF Backfill
    <2>2. r[1] \in Principal /\ r[2] \in Texts
        BY <1>0, PlaintextsAreTexts DEF TypeOK
    <2>3. \A q : HasToken(q)' <=> HasToken(q) \/ q = r[1]
        BY <1>0, <2>1, <2>2, InsertOwner DEF Mirror
    <2>4. /\ stage = "backfill" /\ UNCHANGED <<stage, step, principals>>
          /\ todo = {<<p, principals[p]>> : p \in {q \in Principal : principals[q] # None /\ ~HasToken(q)}}
        BY <1>0, <1>4 DEF Backfill, PendingSound
    <2>5. r = <<r[1], principals[r[1]]>>
        BY <2>1, <2>4
    <2> HIDE DEF HasToken
    <2>6. todo' = {<<p, principals[p]>> : p \in {q \in Principal : principals[q] # None /\ ~HasToken(q)'}}
        BY <2>1, <2>3, <2>4, <2>5
    <2> QED
        BY <2>4, <2>6 DEF PendingSound
<1>5. CASE \/ Start \/ Create \/ Migrate \/ SeedToken \/ Open \/ Crash
    BY <1>0, <1>1, <1>5 DEF Start, Create, Migrate, SeedToken, Open, Crash, Proceed
<1>6. CASE Operator
    BY <1>1, <1>6 DEF Operator, AddPrincipal, Rotate, Issue, Revoke, Idle, init
<1>7. CASE Login \/ UNCHANGED vars
    <2>1. UNCHANGED <<database, init>>
        BY <1>7 DEF Login, Authenticate, AuthenticateLegacy, Conclude, vars
    <2> QED
        BY <1>0, <2>1 DEF PendingSound, HasToken, database, init
<1> QED
    BY <1>2, <1>3, <1>4, <1>5, <1>6, <1>7 DEF Next, InitStep

-----------------------------------------------------------------------------
(* Logging in *)

\* Seeding never gives a token to a principal that has one, so never an old one back.
LEMMA NextRetired == StoreInv /\ [Next]_vars => RetiredReplaced'
<1> SUFFICES ASSUME StoreInv, [Next]_vars PROVE RetiredReplaced'
    OBVIOUS
<1>0. /\ TypeOK /\ StepKnown /\ RetiredReplaced
      /\ principals \in [Principal -> Plaintext \cup {None}] /\ retired \subseteq Principal \X Plaintext
    BY DEF StoreInv, TypeInv, TypeOK
<1>1. ASSUME NEW p \in Principal, NEW t \in Plaintext, principals[p] = None,
             principals' = [principals EXCEPT ![p] = t], UNCHANGED retired
      PROVE  RetiredReplaced'
    BY <1>0, <1>1 DEF RetiredReplaced
<1>2. ASSUME UNCHANGED <<principals, retired>> PROVE RetiredReplaced'
    BY <1>0, <1>2 DEF RetiredReplaced
<1>3. CASE SeedPrincipal
    <2>1. step \in 1..Len(Builtin)
        BY <1>0, <1>3, StatementFacts DEF SeedPrincipal, StepKnown, TypeOK
    <2> QED
        BY <1>1, <1>2, <1>3, <2>1, BuiltinFacts DEF SeedPrincipal, Inserts
<1>4. ASSUME NEW p \in Principal, NEW t \in Plaintext, AddPrincipal(p, t) PROVE RetiredReplaced'
    BY <1>1, <1>4 DEF AddPrincipal
<1>5. ASSUME NEW p \in Principal, NEW t \in Plaintext, Rotate(p, t) PROVE RetiredReplaced'
    <2>1. /\ principals' = [principals EXCEPT ![p] = t] /\ principals[p] # t
          /\ retired' = (retired \cup {<<p, principals[p]>>}) \ {<<p, t>>}
        BY <1>5 DEF Rotate, Usable
    <2>2. t # None
        BY NoneIsNoText
    <2> SUFFICES ASSUME NEW r \in retired' PROVE principals'[r[1]] \notin {None, r[2]}
        BY DEF RetiredReplaced
    <2>3. r = <<r[1], r[2]>> /\ r[1] \in Principal
        BY <1>0, <2>1
    <2>4. CASE r[1] = p
        BY <1>0, <2>1, <2>2, <2>3, <2>4
    <2>5. CASE r[1] # p
        BY <1>0, <2>1, <2>3, <2>5 DEF RetiredReplaced
    <2> QED
        BY <2>4, <2>5
<1> QED
    BY <1>2, <1>3, <1>4, <1>5
       DEF Next, InitStep, Start, Create, Migrate, SeedToken, SelectBackfill, Backfill, Open, Crash,
           Login, Authenticate, AuthenticateLegacy, Conclude, Operator, Issue, Revoke, database, vars

\* A row more is drawn, never one less.
LEMMA RowsGrow == StoreInv /\ [Next]_vars => DOMAIN rows \subseteq DOMAIN rows'
<1> SUFFICES ASSUME StoreInv, [Next]_vars PROVE DOMAIN rows \subseteq DOMAIN rows'
    OBVIOUS
<1>0. TypeOK /\ rows \in Seq(Row)
    BY DEF StoreInv, TypeInv, TypeOK
<1>1. ASSUME NEW r, rows' = Append(rows, r) PROVE DOMAIN rows \subseteq DOMAIN rows'
    BY <1>0, <1>1
<1>2. ASSUME NEW k \in DOMAIN rows, Revoke(k) PROVE DOMAIN rows \subseteq DOMAIN rows'
    BY <1>0, <1>2, RevokeFacts DEF Revoke
<1> QED
    BY <1>1, <1>2
       DEF Next, InitStep, Start, Create, Migrate, SeedPrincipal, SeedToken, SelectBackfill, Backfill,
           Open, Crash, Login, Authenticate, AuthenticateLegacy, Conclude, Operator, AddPrincipal,
           Rotate, Issue, Revoke, InsertToken, database, vars

\* What becomes a plaintext is not a token that is yet to be generated.
LEMMA NextDrawn == StoreInv /\ [Next]_vars => PlaintextsDrawn'
<1> SUFFICES ASSUME StoreInv, [Next]_vars PROVE PlaintextsDrawn'
    OBVIOUS
<1>0. /\ TypeOK /\ StepKnown /\ PlaintextsDrawn /\ DOMAIN rows \subseteq DOMAIN rows'
      /\ principals \in [Principal -> Plaintext \cup {None}]
    BY RowsGrow DEF StoreInv, TypeInv, TypeOK
<1>1. ASSUME NEW p \in Principal, NEW t \in Plaintext, principals' = [principals EXCEPT ![p] = t],
             \A k \in DOMAIN TokenId \ DOMAIN rows : t # NewFormat(TokenId[k], Secret[k])
      PROVE  PlaintextsDrawn'
    BY <1>0, <1>1 DEF PlaintextsDrawn
<1>2. ASSUME UNCHANGED principals PROVE PlaintextsDrawn'
    BY <1>0, <1>2 DEF PlaintextsDrawn
<1>3. CASE SeedPrincipal
    <2>1. step \in 1..Len(Builtin)
        BY <1>0, <1>3, StatementFacts DEF SeedPrincipal, StepKnown, TypeOK
    <2> QED
        BY <1>1, <1>2, <1>3, <2>1, BuiltinFacts, GeneratedAreNew DEF SeedPrincipal
<1>4. ASSUME NEW p \in Principal, NEW t \in Plaintext, AddPrincipal(p, t) \/ Rotate(p, t)
      PROVE  PlaintextsDrawn'
    <2>1. Usable(t) /\ principals' = [principals EXCEPT ![p] = t]
        BY <1>4 DEF AddPrincipal, Rotate
    <2>2. ASSUME NEW k \in DOMAIN TokenId \ DOMAIN rows PROVE t # NewFormat(TokenId[k], Secret[k])
        <3>1. TokenId[k] \in Part /\ TokenId[k] # Empty /\ Secret[k] \in Texts
            BY GeneratedFacts
        <3>2. IsNewFormat(NewFormat(TokenId[k], Secret[k])) /\ NewFormat(TokenId[k], Secret[k])[2] = TokenId[k]
            BY <3>1, NewFormatFacts
        <3> QED
            BY <2>1, <3>2 DEF Usable
    <2> QED
        BY <1>1, <2>1, <2>2
<1> QED
    BY <1>2, <1>3, <1>4
       DEF Next, InitStep, Start, Create, Migrate, SeedToken, SelectBackfill, Backfill, Open, Crash,
           Login, Authenticate, AuthenticateLegacy, Conclude, Operator, Issue, Revoke, database, vars

\* No row that is inserted while a token is being looked up in the old table spells
\* it: the token was in the old table before the row's id was drawn.
LEMMA IssueSpellsNothing ==
    ASSUME StoreInv, NEW p \in Principal, Issue(p), NEW t \in Seq(Part), ByLegacy(t) # {}, ByNew(t) = {}
    PROVE  ByNew(t)' = {}
<1>0. TypeOK /\ rows \in Seq(Row) /\ PlaintextsDrawn
    BY DEF StoreInv, TypeInv, TypeOK
<1> DEFINE n == Len(rows) + 1
<1>1. n \in DOMAIN TokenId \ DOMAIN rows
    <2>1. Len(rows) \in Nat /\ DOMAIN rows = 1..Len(rows) /\ Len(rows) < Len(TokenId)
        BY <1>0 DEF Issue
    <2> QED
        BY <2>1, GeneratedFacts
<1>2. TokenId[n] \in Part /\ TokenId[n] # Empty /\ Secret[n] \in Texts
    BY <1>1, GeneratedFacts
<1>3. /\ DOMAIN rows' = DOMAIN rows \cup {n} /\ \A k \in DOMAIN rows : rows'[k] = rows[k]
      /\ rows'[n] = [owner |-> p, secret |-> Secret[n], label |-> None, revoked |-> FALSE]
    BY <1>0, <1>2, InsertFacts DEF Issue
<1>4. rows'[n].secret = Secret[n]
    BY <1>3
<1> HIDE DEF n
<1>5. t # NewFormat(TokenId[n], Secret[n])
    BY <1>0, <1>1 DEF ByLegacy, PlaintextsDrawn
<1>6. ~(IsNewFormat(t) /\ TokenId[n] = t[2] /\ rows'[n].secret = SubSeq(t, 3, Len(t)))
    BY <1>4, <1>5, Respelled
<1>7. \A k \in DOMAIN rows : ~(IsNewFormat(t) /\ TokenId[k] = t[2] /\ ~rows[k].revoked
                                /\ rows[k].secret = SubSeq(t, 3, Len(t)))
    BY DEF ByNew, Live, Verify
<1> QED
    BY <1>3, <1>6, <1>7 DEF ByNew, Live, Verify

\* A revocation takes a token away from the new table.
LEMMA RevokeSpellsNothing ==
    ASSUME StoreInv, NEW k \in DOMAIN rows, Revoke(k), NEW t, ByNew(t) = {}
    PROVE  ByNew(t)' = {}
<1>1. /\ DOMAIN rows' = DOMAIN rows
      /\ \A j \in DOMAIN rows : /\ rows'[j].secret = rows[j].secret
                                /\ ~rows'[j].revoked => ~rows[j].revoked
    BY RevokeFacts DEF StoreInv, TypeInv, Revoke
<1> QED
    BY <1>1 DEF ByNew, Live, Verify

\* A text whose rightful owner is nobody is refused rightfully.
LEMMA RefusedIsOutcome ==
    ASSUME TypeOK, NEW t \in Seq(Part), ByNew(t) = {}, ByLegacy(t) = {}
    PROVE  Refused \in Outcome(t)
BY RightfulIsFound DEF Outcome

\* Every change of the operator is noted while a token is being looked up.
LEMMA NextAttempt == StoreInv /\ [Next]_vars => AttemptSound'
<1> SUFFICES ASSUME StoreInv, [Next]_vars, token' # None PROVE AttemptSound'
    BY DEF AttemptSound
<1>0. TypeOK /\ AttemptSound
    BY DEF StoreInv, TypeInv
<1>1. ASSUME NEW t \in Presentable, Authenticate(t) PROVE AttemptSound'
    <2>1. /\ stage' = "up" /\ answer' = None /\ token' = t /\ ByNew(t) = {} /\ may' = Outcome(t)
          /\ UNCHANGED <<rows, principals>>
        BY <1>1 DEF Authenticate, database, init
    <2>2. t \in Seq(Part)
        BY <1>0, PresentableAreTexts
    <2>3. Refused \in may' \/ ByLegacy(t) # {}
        BY <1>0, <2>1, <2>2, RefusedIsOutcome
    <2>4. /\ Outcome(token)' = Outcome(t) /\ ByNew(token)' = ByNew(t) /\ ByLegacy(token)' = ByLegacy(t)
        BY <2>1 DEF Outcome, Rightful, ByNew, ByLegacy, Live, Verify
    <2> QED
        BY <2>1, <2>2, <2>3, <2>4 DEF AttemptSound
<1>2. CASE AuthenticateLegacy \/ Crash
    BY <1>2 DEF AuthenticateLegacy, Crash
<1>3. ASSUME UNCHANGED <<rows, principals, token, answer, may, stage>> PROVE AttemptSound'
    BY <1>0, <1>3 DEF AttemptSound, Outcome, Rightful, ByNew, ByLegacy, Live, Verify
<1>4. CASE InitStep
    <2>1. stage # "up" /\ token' = token
        BY <1>4 DEF InitStep, Start, Create, Migrate, SeedPrincipal, SeedToken, SelectBackfill,
                    Backfill, Open, auth
    <2> QED
        BY <1>0, <2>1 DEF AttemptSound
<1>5. CASE Conclude
    BY <1>0, <1>5 DEF Conclude, AttemptSound
<1>6. CASE Operator
    <2>1. /\ token' = token /\ answer' = answer /\ stage' = stage
          /\ may' = may \cup Outcome(token)'
        BY <1>6 DEF Operator, AddPrincipal, Rotate, Issue, Revoke, init, Changed
    <2>2. token \in Seq(Part) /\ stage = "up" /\ answer = None /\ Outcome(token)' \subseteq may'
        BY <1>0, <2>1 DEF AttemptSound
    <2>3. CASE Refused \in may
        BY <2>1, <2>2, <2>3 DEF AttemptSound
    <2>4. CASE ByNew(token) = {} /\ ByLegacy(token) # {}
        <3>1. PICK t \in Seq(Part) : t = token
            BY <2>2
        <3>2. ByNew(t) = {} /\ ByLegacy(t) # {}
            BY <2>4, <3>1
        <3>3. ByNew(token)' = ByNew(t)' /\ ByLegacy(token)' = ByLegacy(t)' /\ Outcome(token)' = Outcome(t)'
            BY <2>1, <3>1 DEF ByNew, ByLegacy, Outcome, Rightful, Live, Verify
        <3>4. ASSUME NEW p \in Principal, NEW u \in Plaintext, AddPrincipal(p, u) \/ Rotate(p, u)
              PROVE  ByNew(t)' = {} /\ (ByLegacy(t)' = {} => Refused \in Outcome(t)')
            <4>1. rows' = rows
                BY <3>4 DEF AddPrincipal, Rotate
            <4>2. ByNew(t)' = {}
                BY <3>2, <4>1 DEF ByNew, Live, Verify
            <4>3. \A k \in DOMAIN rows : ~(~rows[k].revoked /\ t = NewFormat(TokenId[k], rows[k].secret))
                BY <1>0, <3>2, SpelledIsFound DEF ByNew, Live
            <4>4. Rightful(t)' = ByLegacy(t)'
                BY <4>1, <4>3 DEF Rightful, ByLegacy
            <4> QED
                BY <4>2, <4>4 DEF Outcome
        <3>5. ASSUME NEW p \in Principal, Issue(p) PROVE ByNew(t)' = {} /\ ByLegacy(t)' = ByLegacy(t)
            <4>1. ByNew(t)' = {}
                BY <3>2, <3>5, IssueSpellsNothing
            <4> QED
                BY <3>5, <4>1 DEF Issue, ByLegacy
        <3>6. ASSUME NEW k \in DOMAIN rows, Revoke(k) PROVE ByNew(t)' = {} /\ ByLegacy(t)' = ByLegacy(t)
            <4>1. ByNew(t)' = {}
                BY <3>2, <3>6, RevokeSpellsNothing
            <4> QED
                BY <3>6, <4>1 DEF Revoke, ByLegacy
        <3>7. ByNew(t)' = {} /\ (Refused \in Outcome(t)' \/ ByLegacy(t)' # {})
            BY <1>6, <3>2, <3>4, <3>5, <3>6 DEF Operator
        <3>8. Refused \in may' \/ (ByNew(token)' = {} /\ ByLegacy(token)' # {})
            BY <2>1, <3>3, <3>7
        <3> QED
            BY <2>1, <2>2, <3>8 DEF AttemptSound
    <2> QED
        BY <1>0, <2>1, <2>3, <2>4 DEF AttemptSound
<1>7. CASE UNCHANGED vars
    BY <1>3, <1>7 DEF vars, database, init, auth
<1> QED
    BY <1>1, <1>2, <1>4, <1>5, <1>6, <1>7 DEF Next, Login

\* An answer was right when the first or when the second table was read.
LEMMA NextAnswer == StoreInv /\ [Next]_vars => AnswerRightful'
<1> SUFFICES ASSUME StoreInv, [Next]_vars PROVE AnswerRightful'
    OBVIOUS
<1>0. TypeOK /\ AttemptSound /\ AnswerRightful
    BY DEF StoreInv, TypeInv
<1>1. ASSUME NEW t \in Presentable, Authenticate(t) PROVE AnswerRightful'
    <2>1. Rightful(t) = ByLegacy(t) \cup ByNew(t)
        BY <1>0, PresentableAreTexts, RightfulIsFound
    <2>2. answer' # None => answer' \in Rightful(t)
        BY <1>1, <2>1 DEF Authenticate
    <2> QED
        BY <1>1, <2>2 DEF Authenticate, Outcome, AnswerRightful
<1>2. CASE AuthenticateLegacy
    <2>1. /\ token \in Seq(Part) /\ Outcome(token) \subseteq may /\ may' = may
          /\ Refused \in may \/ ByLegacy(token) # {}
        BY <1>0, <1>2 DEF AuthenticateLegacy, AttemptSound
    <2>2. ByLegacy(token) \subseteq Outcome(token)
        <3>1. ByLegacy(token) \subseteq Rightful(token)
            BY <1>0, <2>1, RightfulIsFound
        <3> QED
            BY <3>1 DEF Outcome
    <2> QED
        BY <1>2, <2>1, <2>2 DEF AuthenticateLegacy, AnswerRightful
<1>3. CASE Conclude \/ Crash
    BY <1>3 DEF Conclude, Crash, AnswerRightful
<1>4. CASE InitStep \/ Operator \/ UNCHANGED vars
    <2>1. answer' = answer /\ may \subseteq may'
        BY <1>4 DEF InitStep, Start, Create, Migrate, SeedPrincipal, SeedToken, SelectBackfill, Backfill,
                    Open, Operator, AddPrincipal, Rotate, Issue, Revoke, Changed, auth, vars
    <2> QED
        BY <1>0, <2>1 DEF AnswerRightful
<1> QED
    BY <1>1, <1>2, <1>3, <1>4 DEF Next, Login

\* The invariant holds in a database of any age, before it is opened.
LEMMA InitStoreInv == Init => StoreInv
<1> SUFFICES ASSUME Init PROVE StoreInv
    OBVIOUS
<1>1. TypeInv
    BY InitTypeInv
<1>2. SchemaSoFar /\ PendingSound /\ RowsSound
    BY DEF Init, SchemaSoFar, PendingSound, RowsSound
<1>3. RetiredReplaced /\ AttemptSound /\ AnswerRightful
    BY DEF Init, RetiredReplaced, AttemptSound, AnswerRightful
<1>4. PlaintextsDrawn
    <2> SUFFICES ASSUME NEW p \in Principal, NEW k \in DOMAIN TokenId
                 PROVE  principals[p] # NewFormat(TokenId[k], Secret[k])
        BY DEF PlaintextsDrawn
    <2>1. NewFormat(TokenId[k], Secret[k]) # None \/ principals[p] # None
        <3>1. CASE principals[p] = None
            BY NoneIsNoText, GeneratedFacts, NewFormatFacts
        <3> QED
            BY <3>1
    <2>2. principals[p] = None \/ p \in Legacy
        BY DEF Init
    <2> QED
        BY <2>1, <2>2 DEF Init
<1> QED
    BY <1>1, <1>2, <1>3, <1>4 DEF StoreInv

\* Every action keeps the invariant.
LEMMA NextStoreInv == StoreInv /\ [Next]_vars => StoreInv'
<1> SUFFICES ASSUME StoreInv, [Next]_vars PROVE StoreInv'
    OBVIOUS
<1>1. TypeInv'
    <2>1. CASE UNCHANGED vars
        BY <2>1 DEF StoreInv, TypeInv, TypeOK, StepKnown, Unique, vars, database, init, auth
    <2> QED
        BY <2>1, StartTypeInv, RestTypeInv DEF Next
<1> QED
    BY <1>1, NextSchema, NextRows, NextPending, NextRetired, NextDrawn, NextAttempt, NextAnswer DEF StoreInv

-----------------------------------------------------------------------------
(* Theorems *)

\* Type correctness of the tables, of the stage a start is in and of the login under
\* way, in which no two principals ever share a plaintext (principals.token UNIQUE).
THEOREM TypeCorrect == Spec => []TypeOK
<1>1. StoreInv => TypeOK
    BY DEF StoreInv, TypeInv
<1> QED
    BY InitStoreInv, NextStoreInv, <1>1, PTL DEF Spec

\* The answer of authenticate was right at some time between its two critical
\* sections, whatever the operator issued, revoked or rotated in between.
THEOREM AnswersAreRightful == Spec => []AnswerRightful
<1>1. StoreInv => AnswerRightful
    BY DEF StoreInv
<1> QED
    BY InitStoreInv, NextStoreInv, <1>1, PTL DEF Spec

\* A token that was rotated away stays out over any number of restarts: seeding does
\* not bring it back, and the mirror that hashes it is found under no id it spells.
THEOREM RotationIsFinal == Spec => []RetiredStaysOut
<1>1. StoreInv => RetiredStaysOut
    <2> SUFFICES ASSUME StoreInv, NEW r \in retired, r[1] \in Rightful(r[2])
                 PROVE  \E k \in DOMAIN rows : /\ rows[k].label = None /\ ~rows[k].revoked
                                               /\ r[2] = NewFormat(TokenId[k], rows[k].secret)
        BY DEF RetiredStaysOut
    <2>1. /\ principals[r[1]] # r[2] /\ r[2] \in Plaintext
          /\ rows \in Seq(Row) /\ Len(rows) <= Len(TokenId) /\ RowsSound
        BY DEF StoreInv, TypeInv, TypeOK, RetiredReplaced
    <2>2. PICK k \in DOMAIN rows : /\ ~rows[k].revoked
                                   /\ r[2] = NewFormat(TokenId[k], rows[k].secret)
        BY <2>1 DEF Rightful
    <2>3. rows[k].label \in Mirror \cup {None} /\ k \in DOMAIN TokenId
        <3>1. Len(rows) \in Nat /\ DOMAIN rows = 1..Len(rows) /\ rows[k] \in Row
            BY <2>1
        <3> QED
            BY <2>1, <3>1, GeneratedFacts DEF Row
    <2>4. rows[k].label \notin Mirror
        BY <2>1, <2>2, <2>3, GeneratedAreNew DEF RowsSound
    <2> QED
        BY <2>2, <2>3, <2>4
<1> QED
    BY InitStoreInv, NextStoreInv, <1>1, PTL DEF Spec

\* When open returns, the schema is complete and every principal has a token row,
\* wherever the earlier starts were cut off.
THEOREM OpenIsComplete == Spec => OpenComplete
<1>1. StoreInv /\ [Next]_vars =>
        [stage # "up" /\ stage' = "up" =>
           /\ tables = ToSet(Tables) /\ columns = Columns
           /\ \A p \in Principal : principals[p] # None =>
                \E k \in DOMAIN rows : rows[k].owner = p]_vars
    <2> SUFFICES ASSUME StoreInv, Next, stage # "up", stage' = "up"
                 PROVE  /\ tables = ToSet(Tables) /\ columns = Columns
                        /\ \A p \in Principal : principals[p] # None =>
                             \E k \in DOMAIN rows : rows[k].owner = p
        OBVIOUS
    <2>1. Open
        BY DEF Next, InitStep, Start, Create, Migrate, SeedPrincipal, SeedToken, SelectBackfill, Backfill,
               Crash, Proceed, Login, Authenticate, AuthenticateLegacy, Conclude, Operator, AddPrincipal,
               Rotate, Issue, Revoke, init
    <2>2. stage = "backfill" /\ todo = {}
        BY <2>1 DEF Open
    <2>3. tables = ToSet(Tables) /\ columns = Columns
        BY <2>2 DEF StoreInv, SchemaSoFar
    <2>4. ASSUME NEW p \in Principal, principals[p] # None PROVE HasToken(p)
        BY <2>2, <2>4 DEF StoreInv, PendingSound
    <2> QED
        BY <2>3, <2>4 DEF HasToken
<1> QED
    BY InitStoreInv, NextStoreInv, <1>1, PTL DEF Spec, OpenComplete

\* Mirrors are written once per principal and hash the plaintext it has, over all
\* starts and cuts between the two inserts.
THEOREM MirrorsAreFaithful == Spec => MirrorFaithful
<1>1. StoreInv /\ [Next]_vars =>
        [\A k \in DOMAIN rows' : rows'[k].label \in Mirror /\ k \notin DOMAIN rows =>
           /\ rows'[k].secret = principals[rows'[k].owner]
           /\ \A j \in DOMAIN rows : rows[j].owner # rows'[k].owner]_vars
    <2> SUFFICES ASSUME StoreInv, Next, NEW k \in DOMAIN rows', rows'[k].label \in Mirror,
                        k \notin DOMAIN rows
                 PROVE  /\ rows'[k].secret = principals[rows'[k].owner]
                        /\ \A j \in DOMAIN rows : rows[j].owner # rows'[k].owner
        OBVIOUS
    <2>0. /\ TypeOK /\ StepKnown /\ PendingSound
          /\ rows \in Seq(Row)
        BY DEF StoreInv, TypeInv, TypeOK
    <2>1. ASSUME NEW p \in Principal, NEW text \in Texts, NEW label \in Mirror \cup {None},
                 InsertToken(p, text, label)
          PROVE  rows'[k].owner = p /\ rows'[k].secret = text /\ rows'[k].label = label
        <3>1. /\ DOMAIN rows' = DOMAIN rows \cup {Len(rows) + 1}
              /\ rows'[Len(rows) + 1] = [owner |-> p, secret |-> text, label |-> label, revoked |-> FALSE]
            BY <2>0, <2>1, InsertFacts
        <3>2. k = Len(rows) + 1
            BY <3>1
        <3> QED
            BY <3>1, <3>2
    <2>2. CASE SeedToken
        <3>1. stage = "mirror" /\ step \in 1..Len(Builtin)
            BY <2>0, <2>2, StatementFacts DEF SeedToken, StepKnown, TypeOK
        <3> DEFINE p == Builtin[step]
        <3>2. rows'[k].owner = p /\ rows'[k].secret = DefaultToken[p]
            BY <2>1, <2>2, <3>1, BuiltinFacts DEF SeedToken, Mirror
        <3>3. principals[p] = DefaultToken[p] /\ ~HasToken(p)
            BY <2>0, <3>1 DEF PendingSound
        <3> QED
            BY <3>2, <3>3 DEF HasToken
    <2>3. CASE Backfill
        <3>1. PICK r \in todo : InsertToken(r[1], r[2], "migrated-legacy")
            BY <2>3 DEF Backfill
        <3>2. r[1] \in Principal /\ r[2] \in Texts
            BY <2>0, PlaintextsAreTexts DEF TypeOK
        <3>3. rows'[k].owner = r[1] /\ rows'[k].secret = r[2]
            BY <2>1, <3>1, <3>2 DEF Mirror
        <3>4. r[2] = principals[r[1]] /\ ~HasToken(r[1])
            BY <2>0, <2>3, <3>1 DEF PendingSound, Backfill
        <3> QED
            BY <3>3, <3>4 DEF HasToken
    <2>4. ASSUME NEW p \in Principal, Issue(p) PROVE FALSE
        <3>1. Len(rows) \in Nat /\ Len(rows) < Len(TokenId)
            BY <2>0, <2>4 DEF Issue
        <3>2. Secret[Len(rows) + 1] \in Texts
            BY <3>1, GeneratedFacts
        <3>3. rows'[k].label = None
            BY <2>1, <2>4, <3>2 DEF Issue
        <3> QED
            BY <3>3, NoneIsNoText
    <2>5. ASSUME NEW j \in DOMAIN rows, Revoke(j) PROVE FALSE
        BY <2>0, <2>5, RevokeFacts DEF Revoke
    <2>6. rows' # rows
        OBVIOUS
    <2> QED
        BY <2>2, <2>3, <2>4, <2>5, <2>6
           DEF Next, InitStep, Start, Create, Migrate, SeedPrincipal, SelectBackfill, Open, Crash,
               Login, Authenticate, AuthenticateLegacy, Conclude, Operator, AddPrincipal, Rotate, database
<1> QED
    BY InitStoreInv, NextStoreInv, <1>1, PTL DEF Spec, MirrorFaithful

=============================================================================
