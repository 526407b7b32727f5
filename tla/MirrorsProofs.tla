--------------------------- MODULE MirrorsProofs ---------------------------
(***************************************************************************)
(* The copies in Mirrors.tla, for any number of agents, processes, tokens  *)
(* and rotations, and for any lifetimes.  First the caches of Credentials, *)
(* then the records of TaskMetadata, at the end their composition.         *)
(***************************************************************************)
EXTENDS Mirrors, TLAPS

-----------------------------------------------------------------------------
(* Verified tokens: no tokeninfo answer is older than the timeout, none    *)
(* was formed for an expired token, so no entry of the cache was made      *)
(* later than one timeout after the expiry.                                *)
AskedInTime ==
  \A t \in Tokens : \A at \in asked[t] :
    at <= now /\ now <= at + Timeout /\ at < Expiry[t]

VerifiedInTime ==
  \A t \in Tokens : verified[t] # Never => verified[t] < Expiry[t] + Timeout

(* Signing keys: the rotations are dated in order, and a key set that does *)
(* not hold the key of the day was formed before that key came.            *)
RotationsInOrder ==
  /\ \A k \in Keys : k <= key => since[k] # Never /\ since[k] <= now
  /\ \A i, j \in Keys : i <= j /\ j <= key => since[i] <= since[j]

FetchedInTime ==
  \A f \in fetching :
    /\ f.key <= key /\ f.at <= now /\ now <= f.at + Timeout
    /\ f.key < key => f.at <= since[f.key + 1]

KeysInTime ==
  /\ keys.key <= key
  /\ keys.at # Never => keys.at <= now
  /\ keys.at # Never /\ keys.key < key => keys.at <= since[keys.key + 1] + Timeout

SignaturesInPast ==
  \A k \in Keys :
    /\ trusted[k] # Never => trusted[k] <= now
    /\ unknown[k] # Never => k <= key

CredInv ==
  /\ CredTypeOK
  /\ AskedInTime /\ VerifiedInTime /\ ExpiredTokensFade
  /\ RotationsInOrder /\ FetchedInTime /\ KeysInTime /\ SignaturesInPast
  /\ RetiredKeysFade /\ NewKeysAreLearned

(* The bounds of the clock and of the rotations, as numbers.               *)
LEMMA Numbers ==
  /\ MaxNow \in Nat /\ MaxKey \in Nat /\ Timeout \in Nat
  /\ TokenTtl \in Nat /\ TokenTtl > 0 /\ KeysTtl \in Nat /\ KeysTtl > 0
  /\ Times \subseteq Nat /\ Never \in Nat /\ Never \notin Times
  /\ Keys \subseteq Nat /\ 0 \in Times /\ 0 \in Keys
  /\ \A t \in Tokens : Expiry[t] \in Nat
  BY CredentialsAssumption DEF Times, Keys, Never

CredNumeric ==
  /\ now \in Nat /\ now # Never /\ key \in Nat /\ key \in Keys
  /\ keys.key \in Keys /\ keys.key \in Nat /\ keys.at \in Nat
  /\ \A t \in Tokens : /\ verified[t] \in Nat /\ accepted[t] \in Nat
                       /\ \A at \in asked[t] : at \in Nat
  /\ \A k \in Keys : since[k] \in Nat /\ trusted[k] \in Nat /\ unknown[k] \in Nat
  /\ \A f \in fetching : f.key \in Keys /\ f.key \in Nat /\ f.at \in Nat
  /\ \A k \in Keys : k < key => k + 1 \in Keys

LEMMA CredNumbers == CredTypeOK => CredNumeric
<1> SUFFICES ASSUME CredTypeOK PROVE CredNumeric
  OBVIOUS
<1> USE Numbers DEF CredTypeOK
<1>1. /\ now \in Nat /\ now # Never /\ key \in Nat /\ key \in Keys
      /\ keys.key \in Keys /\ keys.key \in Nat /\ keys.at \in Nat
  OBVIOUS
<1>2. \A t \in Tokens : /\ verified[t] \in Nat /\ accepted[t] \in Nat
                       /\ \A at \in asked[t] : at \in Nat
  OBVIOUS
<1>3. \A k \in Keys : since[k] \in Nat /\ trusted[k] \in Nat /\ unknown[k] \in Nat
  OBVIOUS
<1>4. \A f \in fetching : f.key \in Keys /\ f.key \in Nat /\ f.at \in Nat
  OBVIOUS
<1>5. \A k \in Keys : k < key => k + 1 \in Keys
  BY DEF Keys
<1> QED
  BY <1>1, <1>2, <1>3, <1>4, <1>5 DEF CredNumeric

LEMMA CredInitInv == CredInit => CredInv
<1> SUFFICES ASSUME CredInit PROVE CredInv
  OBVIOUS
<1> USE Numbers
<1>1. CredTypeOK
  BY DEF CredInit, CredTypeOK, NoKeys
<1>2. AskedInTime /\ VerifiedInTime /\ ExpiredTokensFade
  BY DEF CredInit, AskedInTime, VerifiedInTime, ExpiredTokensFade
<1>3. \A k \in Keys : k <= key => k = 0
  BY DEF CredInit
<1>4. RotationsInOrder
  <2>1. \A k \in Keys : k <= key => since[k] # Never /\ since[k] <= now
    BY <1>3 DEF CredInit
  <2>2. \A i, j \in Keys : i <= j /\ j <= key => since[i] <= since[j]
    BY <1>3 DEF CredInit
  <2> QED
    BY <2>1, <2>2 DEF RotationsInOrder
<1>5. FetchedInTime /\ KeysInTime
  BY DEF CredInit, FetchedInTime, KeysInTime, NoKeys
<1>6. SignaturesInPast /\ RetiredKeysFade /\ NewKeysAreLearned
  BY DEF CredInit, SignaturesInPast, RetiredKeysFade, NewKeysAreLearned
<1> QED
  BY <1>1, <1>2, <1>4, <1>5, <1>6 DEF CredInv

(* What only depends on the keys survives a step of a token, and the other *)
(* way round.                                                              *)
LEMMA KeyPartStays ==
  ASSUME CredInv, UNCHANGED <<now, keyVars>>
  PROVE  /\ RotationsInOrder' /\ FetchedInTime' /\ KeysInTime' /\ SignaturesInPast'
         /\ RetiredKeysFade' /\ NewKeysAreLearned'
BY DEF CredInv, keyVars, RotationsInOrder, FetchedInTime, KeysInTime, SignaturesInPast,
       RetiredKeysFade, NewKeysAreLearned

LEMMA TokenPartStays ==
  ASSUME CredInv, UNCHANGED <<now, tokenVars>>
  PROVE  AskedInTime' /\ VerifiedInTime' /\ ExpiredTokensFade'
BY DEF CredInv, tokenVars, AskedInTime, VerifiedInTime, ExpiredTokensFade

LEMMA TokenStep == CredInv /\ TokenNext => CredInv'
<1> SUFFICES ASSUME CredInv, NEW t \in Tokens,
                    \/ AcceptCached(t) \/ AskGoogle(t) \/ Verified(t)
                    \/ GoogleFails(t) \/ Evict(t)
             PROVE  CredInv'
  BY DEF TokenNext
<1> USE Numbers DEF CredInv, CredTypeOK
<1> CredNumeric
  BY CredNumbers
<1> USE DEF CredNumeric
<1>1. UNCHANGED <<now, keyVars>>
  BY DEF AcceptCached, AskGoogle, Verified, GoogleFails, Evict
<1>2. CASE AcceptCached(t)
  <2>1. CredTypeOK' /\ AskedInTime' /\ VerifiedInTime'
    BY <1>2 DEF AcceptCached, keyVars, AskedInTime, VerifiedInTime
  <2>2. now < Expiry[t] + Timeout + TokenTtl
    BY <1>2 DEF AcceptCached, Cached, VerifiedInTime
  <2>3. ExpiredTokensFade'
    BY <1>2, <2>2 DEF AcceptCached, ExpiredTokensFade
  <2> QED
    BY <1>1, <2>1, <2>3, KeyPartStays
<1>3. CASE AskGoogle(t)
  <2>1. CredTypeOK' /\ VerifiedInTime' /\ ExpiredTokensFade'
    BY <1>3 DEF AskGoogle, keyVars, VerifiedInTime, ExpiredTokensFade
  <2>2. AskedInTime'
    BY <1>3 DEF AskGoogle, AskedInTime
  <2> QED
    BY <1>1, <2>1, <2>2, KeyPartStays
<1>4. CASE Verified(t)
  <2>1. PICK at \in asked[t] : asked' = [asked EXCEPT ![t] = @ \ {at}]
    BY <1>4 DEF Verified
  <2>2. now < Expiry[t] + Timeout
    BY <2>1 DEF AskedInTime
  <2>3. CredTypeOK' /\ AskedInTime'
    BY <1>4, <2>1 DEF Verified, keyVars, AskedInTime
  <2>4. VerifiedInTime' /\ ExpiredTokensFade'
    BY <1>4, <2>2 DEF Verified, VerifiedInTime, ExpiredTokensFade
  <2> QED
    BY <1>1, <2>3, <2>4, KeyPartStays
<1>5. CASE GoogleFails(t)
  <2>1. PICK at \in asked[t] : asked' = [asked EXCEPT ![t] = @ \ {at}]
    BY <1>5 DEF GoogleFails
  <2>2. CredTypeOK' /\ AskedInTime' /\ VerifiedInTime' /\ ExpiredTokensFade'
    BY <1>5, <2>1
       DEF GoogleFails, keyVars, AskedInTime, VerifiedInTime, ExpiredTokensFade
  <2> QED
    BY <1>1, <2>2, KeyPartStays
<1>6. CASE Evict(t)
  <2>1. CredTypeOK' /\ AskedInTime' /\ VerifiedInTime' /\ ExpiredTokensFade'
    BY <1>6 DEF Evict, keyVars, AskedInTime, VerifiedInTime, ExpiredTokensFade
  <2> QED
    BY <1>1, <2>1, KeyPartStays
<1> QED
  BY <1>2, <1>3, <1>4, <1>5, <1>6

(* A message signed by k meets the key set `found`, which was right up to  *)
(* its bound: what passes and what is refused keeps to the same bound.     *)
LEMMA CheckInTime ==
  ASSUME CredInv, NEW k \in Keys, NEW found \in Keys, k <= key, found <= key,
         found < key => now < since[found + 1] + Timeout + KeysTtl,
         Check(k, found), UNCHANGED <<now, key, since>>
  PROVE  /\ trusted' \in [Keys -> Times \cup {Never}]
         /\ unknown' \in [Keys -> Times \cup {Never}]
         /\ SignaturesInPast' /\ RetiredKeysFade' /\ NewKeysAreLearned'
<1> USE Numbers DEF CredInv, CredTypeOK
<1> CredNumeric
  BY CredNumbers
<1> USE DEF CredNumeric
<1>1. CASE k = found
  <2>1. trusted' = [trusted EXCEPT ![k] = now] /\ unknown' = unknown
    BY <1>1 DEF Check
  <2>2. RetiredKeysFade'
    BY <1>1, <2>1 DEF RetiredKeysFade
  <2> QED
    BY <2>1, <2>2 DEF SignaturesInPast, NewKeysAreLearned
<1>2. CASE k # found
  <2>1. /\ trusted' = trusted
        /\ unknown' = IF k = key THEN [unknown EXCEPT ![k] = now] ELSE unknown
    BY <1>2 DEF Check
  <2>2. k = key => now < since[key] + Timeout + KeysTtl
    <3>1. k = key => found < key /\ found + 1 \in Keys /\ found + 1 <= key
      BY <1>2 DEF Keys
    <3>2. k = key => since[found + 1] <= since[key] /\ since[found + 1] \in Nat
                     /\ since[key] \in Nat
      BY <3>1 DEF RotationsInOrder
    <3> QED
      BY <3>1, <3>2
  <2>3. NewKeysAreLearned'
    BY <2>1, <2>2 DEF NewKeysAreLearned
  <2> QED
    BY <2>1, <2>3 DEF SignaturesInPast, RetiredKeysFade
<1> QED
  BY <1>1, <1>2

LEMMA KeyStep == CredInv /\ KeyNext => CredInv'
<1> SUFFICES ASSUME CredInv, KeyNext PROVE CredInv'
  OBVIOUS
<1> USE Numbers DEF CredInv, CredTypeOK
<1> CredNumeric
  BY CredNumbers
<1> USE DEF CredNumeric
<1>1. ASSUME NEW k \in Keys, CheckCached(k) PROVE CredInv'
  <2>1. /\ UNCHANGED <<now, tokenVars, key, since, opening, fetching, keys>>
        /\ k <= key /\ Check(k, keys.key)
    BY <1>1 DEF CheckCached
  <2>2. keys.key < key => now < since[keys.key + 1] + Timeout + KeysTtl
    <3>1. keys.at # Never /\ now < keys.at + KeysTtl
      BY <1>1 DEF CheckCached, Fresh
    <3>2. keys.key < key => keys.at <= since[keys.key + 1] + Timeout
                            /\ since[keys.key + 1] \in Nat
      BY <3>1 DEF KeysInTime, Keys
    <3> QED
      BY <3>1, <3>2
  <2>3. /\ trusted' \in [Keys -> Times \cup {Never}]
        /\ unknown' \in [Keys -> Times \cup {Never}]
        /\ SignaturesInPast' /\ RetiredKeysFade' /\ NewKeysAreLearned'
    BY <2>1, <2>2, CheckInTime DEF KeysInTime
  <2>4. AskedInTime' /\ VerifiedInTime' /\ ExpiredTokensFade'
    BY <2>1, TokenPartStays
  <2>5. RotationsInOrder' /\ FetchedInTime' /\ KeysInTime'
    BY <2>1 DEF RotationsInOrder, FetchedInTime, KeysInTime
  <2>6. CredTypeOK'
    BY <2>1, <2>3 DEF tokenVars
  <2> QED
    BY <2>3, <2>4, <2>5, <2>6
<1>2. ASSUME NEW k \in Keys, KeysArrive(k) PROVE CredInv'
  <2>1. /\ UNCHANGED <<now, tokenVars, key, since, opening>>
        /\ k <= key
    BY <1>2 DEF KeysArrive
  <2>2. PICK f \in fetching : /\ fetching' = fetching \ {f}
                              /\ keys' = [key |-> f.key, at |-> now]
                              /\ Check(k, f.key)
    BY <1>2 DEF KeysArrive
  <2>3. f.key \in Keys /\ f.key <= key /\ f.at \in Nat
    BY DEF FetchedInTime
  <2>4. f.key < key => now <= since[f.key + 1] + Timeout /\ since[f.key + 1] \in Nat
    BY <2>3 DEF FetchedInTime
  <2>5. /\ trusted' \in [Keys -> Times \cup {Never}]
        /\ unknown' \in [Keys -> Times \cup {Never}]
        /\ SignaturesInPast' /\ RetiredKeysFade' /\ NewKeysAreLearned'
    BY <2>1, <2>2, <2>3, <2>4, CheckInTime
  <2>6. AskedInTime' /\ VerifiedInTime' /\ ExpiredTokensFade'
    BY <2>1, TokenPartStays
  <2>7. RotationsInOrder' /\ FetchedInTime' /\ KeysInTime'
    BY <2>1, <2>2, <2>3, <2>4 DEF RotationsInOrder, FetchedInTime, KeysInTime
  <2>8. CredTypeOK'
    BY <2>1, <2>2, <2>3, <2>5 DEF tokenVars
  <2> QED
    BY <2>5, <2>6, <2>7, <2>8
<1>3. CASE OpenDocument
  <2>1. /\ opening' = opening \cup {now}
        /\ UNCHANGED <<now, tokenVars, key, since, fetching, keys, trusted, unknown>>
    BY <1>3 DEF OpenDocument
  <2> QED
    BY <2>1, TokenPartStays
       DEF tokenVars, RotationsInOrder, FetchedInTime, KeysInTime, SignaturesInPast,
           RetiredKeysFade, NewKeysAreLearned
<1>4. CASE FetchKeys
  <2>1. /\ opening' \subseteq opening
        /\ fetching' = fetching \cup {[key |-> key, at |-> now]}
        /\ UNCHANGED <<now, tokenVars, key, since, keys, trusted, unknown>>
    BY <1>4 DEF FetchKeys
  <2>2. FetchedInTime'
    <3> SUFFICES ASSUME NEW f \in fetching'
                 PROVE  /\ f.key <= key /\ f.at <= now /\ now <= f.at + Timeout
                        /\ f.key < key => f.at <= since[f.key + 1]
      BY <2>1 DEF FetchedInTime
    <3>1. CASE f \in fetching
      BY <3>1 DEF FetchedInTime
    <3>2. CASE f = [key |-> key, at |-> now]
      BY <3>2
    <3> QED
      BY <2>1, <3>1, <3>2
  <2>3. CredTypeOK'
    BY <2>1 DEF tokenVars
  <2> QED
    BY <2>1, <2>2, <2>3, TokenPartStays
       DEF RotationsInOrder, KeysInTime, SignaturesInPast, RetiredKeysFade, NewKeysAreLearned
<1>5. CASE FetchFails
  <2>1. /\ opening' \subseteq opening /\ fetching' \subseteq fetching
        /\ UNCHANGED <<now, tokenVars, key, since, keys, trusted, unknown>>
    BY <1>5 DEF FetchFails
  <2> QED
    BY <2>1, TokenPartStays
       DEF tokenVars, RotationsInOrder, FetchedInTime, KeysInTime, SignaturesInPast,
           RetiredKeysFade, NewKeysAreLearned
<1>6. CASE Rotate
  <2>1. /\ key < MaxKey /\ key' = key + 1
        /\ since' = [since EXCEPT ![key + 1] = now]
        /\ UNCHANGED <<now, tokenVars, opening, fetching, keys, trusted, unknown>>
    BY <1>6 DEF Rotate
  <2>2. key + 1 \in Keys /\ key \in Keys /\ key \in Nat
    BY <2>1 DEF Keys
  <2>3. since'[key + 1] = now /\ \A k \in Keys : k <= key => since'[k] = since[k]
    BY <2>1, <2>2
  <2>4. CredTypeOK'
    BY <2>1, <2>2 DEF tokenVars
  <2>5. RotationsInOrder'
    BY <2>1, <2>2, <2>3 DEF RotationsInOrder
  <2>6. FetchedInTime'
    BY <2>1, <2>2, <2>3 DEF FetchedInTime
  <2>7. KeysInTime'
    <3>1. keys.key \in Keys /\ keys.key <= key
      BY DEF KeysInTime
    <3>2. CASE keys.key = key
      BY <2>1, <2>2, <2>3, <3>2 DEF KeysInTime, RotationsInOrder
    <3>3. CASE keys.key < key
      BY <2>1, <2>2, <2>3, <3>1, <3>3 DEF KeysInTime
    <3> QED
      BY <3>1, <3>2, <3>3
  <2>8. SignaturesInPast'
    BY <2>1, <2>2 DEF SignaturesInPast
  <2>9. RetiredKeysFade'
    BY <2>1, <2>2, <2>3 DEF RetiredKeysFade, SignaturesInPast, Keys
  <2>10. NewKeysAreLearned'
    BY <2>1, <2>2, <2>3 DEF NewKeysAreLearned, SignaturesInPast
  <2> QED
    BY <2>1, <2>4, <2>5, <2>6, <2>7, <2>8, <2>9, <2>10, TokenPartStays
<1> QED
  BY <1>1, <1>2, <1>3, <1>4, <1>5, <1>6 DEF KeyNext

LEMMA TickStep == CredInv /\ Tick => CredInv'
<1> SUFFICES ASSUME CredInv, Tick PROVE CredInv'
  OBVIOUS
<1> USE Numbers DEF CredInv, CredTypeOK
<1> CredNumeric
  BY CredNumbers
<1> USE DEF CredNumeric
<1>1. /\ now' = now + 1 /\ now' \in Times /\ UNCHANGED <<tokenVars, keyVars>>
  BY DEF Tick, Times
<1>2. CredTypeOK'
  BY <1>1 DEF tokenVars, keyVars
<1>3. AskedInTime'
  BY <1>1 DEF Tick, tokenVars, AskedInTime
<1>4. VerifiedInTime' /\ ExpiredTokensFade'
  BY <1>1 DEF tokenVars, VerifiedInTime, ExpiredTokensFade
<1>5. FetchedInTime'
  BY <1>1 DEF Tick, keyVars, FetchedInTime
<1>6. RotationsInOrder'
  BY <1>1 DEF keyVars, RotationsInOrder
<1>7. KeysInTime' /\ RetiredKeysFade' /\ NewKeysAreLearned'
  BY <1>1 DEF keyVars, KeysInTime, RetiredKeysFade, NewKeysAreLearned
<1>8. SignaturesInPast'
  BY <1>1 DEF keyVars, SignaturesInPast
<1> QED
  BY <1>2, <1>3, <1>4, <1>5, <1>6, <1>7, <1>8

LEMMA CredStep == CredInv /\ [CredNext]_credVars => CredInv'
<1> SUFFICES ASSUME CredInv, [CredNext]_credVars PROVE CredInv'
  OBVIOUS
<1>1. CASE UNCHANGED credVars
  BY <1>1, KeyPartStays, TokenPartStays DEF credVars, tokenVars, keyVars, CredInv, CredTypeOK
<1> QED
  BY <1>1, TokenStep, KeyStep, TickStep DEF CredNext

-----------------------------------------------------------------------------
(* Task records: what every copy can be traced back to, and what still has *)
(* to come of it.                                                          *)
Current(a) == [body |-> attempt[a], by |-> attempt[a], status |-> status[a]]

RecordsAreReached ==
  /\ \A a \in Agents : NoRecord \in reached[a]
  /\ \A p \in Processes, a \in Agents : mirror[p][a] \in reached[a]

DriverIsCurrent ==
  \A a \in Agents : Driven(a) =>
    /\ attempt[a] # 0 /\ Current(a) \in reached[a]
    /\ mirror[driver[a]][a] = Current(a)

(* A request says what its driver has just done.                           *)
SentIsCurrent ==
  \A a \in Agents : \A w \in sent[a] :
    /\ Driven(a) /\ w.by = attempt[a] /\ w.status = status[a]
    /\ w.kind = "set" <=> status[a] = "pending"

(* Without faults nothing is late, and the document of an agent follows    *)
(* its driver: one request behind, then level.                             *)
DocumentFollows ==
  faults = 0 => \A a \in Agents :
    /\ late[a] = {} /\ doc[a] \in reached[a]
    /\ Driven(a) /\ (sent[a] = {} \/ status[a] # "pending") =>
         doc[a].body = attempt[a]
    /\ driver[a] = Ended => doc[a] = Current(a)

MetadataInv ==
  /\ TypeOK
  /\ RecordsAreReached /\ DriverIsCurrent /\ SentIsCurrent /\ DocumentFollows

LEMMA MetadataInitInv == Init => MetadataInv
<1> SUFFICES ASSUME Init PROVE MetadataInv
  OBVIOUS
<1>1. TypeOK
  BY MetadataAssumption DEF Init, TypeOK, Record, NoRecord, Status, Attempts, Write
<1>2. \A a \in Agents : ~Driven(a) /\ driver[a] # Ended
  BY MetadataAssumption DEF Init, Driven, None, Ended
<1>3. RecordsAreReached /\ SentIsCurrent
  BY DEF Init, RecordsAreReached, SentIsCurrent
<1>4. DriverIsCurrent /\ DocumentFollows
  BY <1>2 DEF Init, DriverIsCurrent, DocumentFollows
<1> QED
  BY <1>1, <1>3, <1>4 DEF MetadataInv

(* A driver assigns or marks a record: the record and its request are      *)
(* replaced together, in the process the driver runs in.                   *)
LEMMA AssignStep ==
  ASSUME MetadataInv, NEW a \in Agents, NEW p \in Processes, Assign(a, p)
  PROVE  MetadataInv'
<1> USE DEF MetadataInv, TypeOK
<1> DEFINE n == attempt[a] + 1
           r == [body |-> n, by |-> n, status |-> "pending"]
<1>1. /\ ~Driven(a) /\ attempt[a] < MaxAttempts
      /\ attempt' = [attempt EXCEPT ![a] = n]
      /\ mirror' = [mirror EXCEPT ![p][a] = r]
      /\ sent' = [sent EXCEPT ![a] = {[kind |-> "set", by |-> n, status |-> "pending"]}]
      /\ reached' = [reached EXCEPT ![a] = @ \cup {r}]
      /\ driver' = [driver EXCEPT ![a] = p]
      /\ status' = [status EXCEPT ![a] = "pending"]
      /\ UNCHANGED <<doc, late, faults>>
  BY DEF Assign, Reach
<1>2. n \in Attempts /\ n # 0 /\ r \in Record
  BY <1>1, MetadataAssumption DEF Attempts, Record, Status
<1>3. TypeOK'
  <2>1. sent' \in [Agents -> SUBSET Write]
    BY <1>1, <1>2 DEF Write, Status
  <2>2. mirror' \in [Processes -> [Agents -> Record]] /\ reached' \in [Agents -> SUBSET Record]
    BY <1>1, <1>2
  <2>3. status' \in [Agents -> Status]
    BY <1>1 DEF Status
  <2> QED
    BY <1>1, <1>2, <2>1, <2>2, <2>3
<1>4. RecordsAreReached'
  BY <1>1 DEF RecordsAreReached
<1>5. DriverIsCurrent'
  <2> SUFFICES ASSUME NEW b \in Agents, Driven(b)'
               PROVE  /\ attempt'[b] # 0 /\ Current(b)' \in reached'[b]
                      /\ mirror'[driver'[b]][b] = Current(b)'
    BY DEF DriverIsCurrent
  <2>1. CASE b = a
    BY <1>1, <1>2, <2>1 DEF Current
  <2>2. CASE b # a
    BY <1>1, <2>2 DEF Current, Driven, DriverIsCurrent
  <2> QED
    BY <2>1, <2>2
<1>6. SentIsCurrent'
  BY <1>1 DEF SentIsCurrent, Driven
<1>7. DocumentFollows'
  <2>1. driver'[a] # Ended
    BY <1>1, MetadataAssumption
  <2> QED
    BY <1>1, <2>1 DEF DocumentFollows, Driven, Current
<1> QED
  BY <1>3, <1>4, <1>5, <1>6, <1>7

LEMMA Remarked ==
  ASSUME NEW m \in Record, NEW n \in Attempts, NEW s \in Status, m.body = n
  PROVE  [m EXCEPT !.by = n, !.status = s] = [body |-> n, by |-> n, status |-> s]
<1>1. PICK q : q = [m EXCEPT !.by = n, !.status = s]
  OBVIOUS
<1>2. q = [body |-> n, by |-> n, status |-> s]
  BY <1>1 DEF Record
<1> QED
  BY <1>1, <1>2

LEMMA MarkStep ==
  ASSUME MetadataInv, NEW a \in Agents, NEW s \in Status, Mark(a, s)
  PROVE  MetadataInv'
<1> USE DEF MetadataInv, TypeOK
<1> DEFINE n == attempt[a]
           r == [body |-> n, by |-> n, status |-> s]
<1>1. /\ Driven(a) /\ sent[a] = {} /\ s # "pending"
      /\ status' = [status EXCEPT ![a] = s]
      /\ sent' = [sent EXCEPT ![a] = {[kind |-> "update", by |-> n, status |-> s]}]
      /\ reached' = [reached EXCEPT ![a] = @ \cup {r}]
      /\ UNCHANGED <<driver, attempt, doc, late, faults>>
  BY DEF Mark, Reach, Outcomes
<1>2. n \in Attempts /\ n # 0 /\ r \in Record /\ driver[a] \in Processes
  BY <1>1 DEF Attempts, Record, DriverIsCurrent, Driven
<1>3. mirror' = [mirror EXCEPT ![driver[a]][a] = r]
  <2>1. mirror[driver[a]][a] = Current(a) /\ Current(a) # NoRecord
    BY <1>1, <1>2 DEF DriverIsCurrent, Current, NoRecord
  <2>2. [mirror[driver[a]][a] EXCEPT !.by = n, !.status = s] = r
    <3>1. mirror[driver[a]][a] \in Record /\ mirror[driver[a]][a].body = n
      BY <1>2, <2>1 DEF Current
    <3> QED
      BY <1>2, <3>1, Remarked
  <2> QED
    BY <1>2, <2>1, <2>2 DEF Mark
<1>4. TypeOK'
  <2>1. sent' \in [Agents -> SUBSET Write]
    BY <1>1, <1>2 DEF Write, Status
  <2>2. mirror' \in [Processes -> [Agents -> Record]] /\ reached' \in [Agents -> SUBSET Record]
    BY <1>1, <1>2, <1>3
  <2> QED
    BY <1>1, <1>2, <2>1, <2>2
<1>5. RecordsAreReached'
  BY <1>1, <1>3 DEF RecordsAreReached
<1>6. DriverIsCurrent'
  <2> SUFFICES ASSUME NEW b \in Agents, Driven(b)'
               PROVE  /\ attempt'[b] # 0 /\ Current(b)' \in reached'[b]
                      /\ mirror'[driver'[b]][b] = Current(b)'
    BY DEF DriverIsCurrent
  <2>1. CASE b = a
    BY <1>1, <1>2, <1>3, <2>1 DEF Current
  <2>2. CASE b # a
    BY <1>1, <1>3, <2>2 DEF Current, Driven, DriverIsCurrent
  <2> QED
    BY <2>1, <2>2
<1>7. SentIsCurrent'
  BY <1>1 DEF SentIsCurrent, Driven
<1>8. DocumentFollows'
  <2>1. driver[a] # Ended
    BY <1>2, MetadataAssumption
  <2> QED
    BY <1>1, <2>1 DEF DocumentFollows, Driven, Current
<1> QED
  BY <1>4, <1>5, <1>6, <1>7, <1>8

(* A request lands or fails: its driver goes on, or is done.               *)
LEMMA RequestLandsStep ==
  ASSUME MetadataInv, NEW a \in Agents, RequestLands(a)
  PROVE  MetadataInv'
<1> USE DEF MetadataInv, TypeOK
<1>1. PICK w \in sent[a] : Apply(a, w)
  BY DEF RequestLands
<1>2. /\ sent' = [sent EXCEPT ![a] = {}]
      /\ driver' = [driver EXCEPT ![a] = IF status[a] \in Outcomes THEN Ended ELSE @]
      /\ UNCHANGED <<attempt, status, mirror, late, faults, reached>>
  BY DEF RequestLands, Release
<1>3. /\ Driven(a) /\ w.by = attempt[a] /\ w.status = status[a]
      /\ w.kind = "set" <=> status[a] = "pending"
  BY <1>1 DEF SentIsCurrent
<1>4. doc' \in [Agents -> Record] /\ \A b \in Agents \ {a} : doc'[b] = doc[b]
  <2>1. w \in Write /\ w.by \in Attempts /\ w.status \in Status
    BY <1>1 DEF Write
  <2> QED
    BY <1>1, <2>1 DEF Apply, Record
<1>5. faults = 0 => doc'[a] = Current(a)
  <2> SUFFICES ASSUME faults = 0 PROVE doc'[a] = Current(a)
    OBVIOUS
  <2>1. CASE w.kind = "set"
    BY <1>1, <1>3, <2>1 DEF Apply, Current
  <2>2. CASE w.kind # "set"
    <3>1. doc[a].body = attempt[a] /\ attempt[a] # 0 /\ doc[a] \in Record
      BY <1>3, <2>2 DEF DocumentFollows, DriverIsCurrent
    <3>2. doc[a] # NoRecord
      BY <3>1 DEF NoRecord
    <3> QED
      BY <1>1, <1>3, <2>2, <3>1, <3>2 DEF Apply, Current, Record
  <2> QED
    BY <2>1, <2>2
<1>6. TypeOK'
  BY <1>2, <1>4
<1>7. RecordsAreReached' /\ SentIsCurrent'
  BY <1>2 DEF RecordsAreReached, SentIsCurrent, Driven
<1>8. DriverIsCurrent'
  BY <1>2, MetadataAssumption DEF DriverIsCurrent, Driven, Current
<1>9. DocumentFollows'
  <2> SUFFICES ASSUME faults' = 0, NEW b \in Agents
               PROVE  /\ late'[b] = {} /\ doc'[b] \in reached'[b]
                      /\ Driven(b)' /\ (sent'[b] = {} \/ status'[b] # "pending") =>
                           doc'[b].body = attempt'[b]
                      /\ driver'[b] = Ended => doc'[b] = Current(b)'
    BY DEF DocumentFollows
  <2>1. CASE b = a
    BY <1>2, <1>3, <1>5, <2>1 DEF DocumentFollows, DriverIsCurrent, Current
  <2>2. CASE b # a
    BY <1>2, <1>4, <2>2 DEF DocumentFollows, Driven, Current
  <2> QED
    BY <2>1, <2>2
<1> QED
  BY <1>6, <1>7, <1>8, <1>9

LEMMA RequestFailsStep ==
  ASSUME MetadataInv, NEW a \in Agents, RequestFails(a)
  PROVE  MetadataInv'
<1> USE DEF MetadataInv, TypeOK
<1>1. /\ faults < MaxFaults /\ faults' = faults + 1
      /\ sent' = [sent EXCEPT ![a] = {}]
      /\ driver' = [driver EXCEPT ![a] = IF status[a] \in Outcomes THEN Ended ELSE @]
      /\ UNCHANGED <<attempt, status, mirror, doc, late, reached>>
  BY DEF RequestFails, Release
<1>2. faults' # 0 /\ faults' \in 0 .. MaxFaults
  BY <1>1, MetadataAssumption
<1>3. TypeOK'
  BY <1>1, <1>2
<1>4. RecordsAreReached' /\ SentIsCurrent' /\ DocumentFollows'
  BY <1>1, <1>2 DEF RecordsAreReached, SentIsCurrent, DocumentFollows, Driven
<1>5. DriverIsCurrent'
  BY <1>1, MetadataAssumption DEF DriverIsCurrent, Driven, Current
<1> QED
  BY <1>3, <1>4, <1>5

LEMMA CrashStep ==
  ASSUME MetadataInv, NEW p \in Processes, Crash(p)
  PROVE  MetadataInv'
<1> USE DEF MetadataInv, TypeOK
<1> DEFINE dead == {a \in Agents : driver[a] = p}
<1>1. /\ mirror' = [mirror EXCEPT ![p] = [a \in Agents |-> NoRecord]]
      /\ driver' = [a \in Agents |-> IF a \in dead THEN None ELSE driver[a]]
      /\ sent' = [a \in Agents |-> IF a \in dead THEN {} ELSE sent[a]]
      /\ UNCHANGED <<attempt, status, doc, reached>>
  BY DEF Crash
<1>2. \/ UNCHANGED <<late, faults>>
      \/ /\ faults < MaxFaults /\ faults' = faults + 1
         /\ late' = [a \in Agents |-> IF a \in dead THEN late[a] \cup sent[a] ELSE late[a]]
  BY DEF Crash
<1>3. late' \in [Agents -> SUBSET Write] /\ faults' \in 0 .. MaxFaults
  BY <1>2, MetadataAssumption
<1>4. faults' = 0 => faults = 0 /\ late' = late
  BY <1>2
<1>5. NoRecord \in Record
  BY MetadataAssumption DEF NoRecord, Record, Attempts, Status
<1>6. TypeOK'
  <2>1. mirror' \in [Processes -> [Agents -> Record]]
    BY <1>1, <1>5
  <2>2. driver' \in [Agents -> Processes \cup {None, Ended}]
    BY <1>1
  <2>3. sent' \in [Agents -> SUBSET Write]
    BY <1>1
  <2> QED
    BY <1>1, <1>3, <2>1, <2>2, <2>3
<1>7. RecordsAreReached'
  BY <1>1 DEF RecordsAreReached
<1>8. \A a \in Agents : Driven(a)' => Driven(a) /\ driver'[a] = driver[a] /\ driver[a] # p
  BY <1>1, MetadataAssumption DEF Driven
<1>9. DriverIsCurrent'
  <2> SUFFICES ASSUME NEW a \in Agents, Driven(a)'
               PROVE  /\ attempt'[a] # 0 /\ Current(a)' \in reached'[a]
                      /\ mirror'[driver'[a]][a] = Current(a)'
    BY DEF DriverIsCurrent
  <2>1. driver'[a] = driver[a] /\ driver[a] # p /\ driver[a] \in Processes /\ Driven(a)
    BY <1>8 DEF Driven
  <2>2. mirror'[driver[a]] = mirror[driver[a]]
    BY <1>1, <2>1
  <2> QED
    BY <1>1, <2>1, <2>2 DEF DriverIsCurrent, Current
<1>10. SentIsCurrent'
  BY <1>1 DEF SentIsCurrent, Driven
<1>11. DocumentFollows'
  <2> SUFFICES ASSUME faults' = 0, NEW a \in Agents
               PROVE  /\ late'[a] = {} /\ doc'[a] \in reached'[a]
                      /\ Driven(a)' /\ (sent'[a] = {} \/ status'[a] # "pending") =>
                           doc'[a].body = attempt'[a]
                      /\ driver'[a] = Ended => doc'[a] = Current(a)'
    BY DEF DocumentFollows
  <2>1. faults = 0 /\ late' = late
    BY <1>4
  <2>2. Driven(a)' => sent'[a] = sent[a]
    BY <1>1, <1>8
  <2>3. driver'[a] = Ended => driver[a] = Ended
    BY <1>1 DEF None, Ended
  <2> QED
    BY <1>1, <1>8, <2>1, <2>2, <2>3 DEF DocumentFollows, Current
<1> QED
  BY <1>6, <1>7, <1>9, <1>10, <1>11

LEMMA LateLandsStep ==
  ASSUME MetadataInv, NEW a \in Agents, LateLands(a)
  PROVE  MetadataInv'
<1> USE DEF MetadataInv, TypeOK
<1>1. PICK w \in late[a] : Apply(a, w) /\ late' = [late EXCEPT ![a] = @ \ {w}]
  BY DEF LateLands
<1>2. UNCHANGED <<driver, attempt, status, mirror, sent, faults, reached>>
  BY DEF LateLands
<1>3. faults # 0
  BY <1>1 DEF DocumentFollows
<1>4. doc' \in [Agents -> Record]
  <2>1. w \in Write /\ w.by \in Attempts /\ w.status \in Status
    BY <1>1 DEF Write
  <2> QED
    BY <1>1, <2>1 DEF Apply, Record
<1>5. TypeOK'
  BY <1>1, <1>2, <1>4
<1> QED
  BY <1>2, <1>3, <1>5
     DEF RecordsAreReached, DriverIsCurrent, SentIsCurrent, DocumentFollows, Driven, Current

LEMMA MetadataStep == MetadataInv /\ [Next]_vars => MetadataInv'
<1> SUFFICES ASSUME MetadataInv, [Next]_vars PROVE MetadataInv'
  OBVIOUS
<1>1. CASE UNCHANGED vars
  BY <1>1 DEF vars, MetadataInv, TypeOK, RecordsAreReached, DriverIsCurrent, SentIsCurrent,
              DocumentFollows, Driven, Current
<1>2. CASE Next
  BY <1>2, AssignStep, MarkStep, RequestLandsStep, RequestFailsStep, CrashStep, LateLandsStep
     DEF Next
<1> QED
  BY <1>1, <1>2

(* The invariant says what the three properties promise.                   *)
LEMMA MetadataConsequences ==
  ASSUME MetadataInv
  PROVE  AnswersWereTrue /\ DriverKnows /\ OutcomeIsReadable
<1> USE DEF MetadataInv, TypeOK
<1>1. AnswersWereTrue
  BY DEF AnswersWereTrue, Get, RecordsAreReached, DocumentFollows
<1>2. DriverKnows
  <2> SUFFICES ASSUME NEW a \in Agents, Driven(a)
               PROVE  a \in Listed(driver[a]) /\ Get(driver[a], a) = Current(a)
    BY DEF DriverKnows, Current
  <2>1. mirror[driver[a]][a] = Current(a) /\ Current(a) # NoRecord
    BY DEF DriverIsCurrent, Current, NoRecord
  <2> QED
    BY <2>1 DEF Listed, Get
<1>3. OutcomeIsReadable
  BY DEF OutcomeIsReadable, Get, DocumentFollows, Current
<1> QED
  BY <1>1, <1>2, <1>3

-----------------------------------------------------------------------------
(* The composition: its steps are steps of one copy and leave the others.  *)
MirrorsInv == MetadataInv /\ CredInv

LEMMA MirrorsInitInv == MirrorsInit => MirrorsInv
  BY MetadataInitInv, CredInitInv DEF MirrorsInit, MirrorsInv

LEMMA MirrorsStep == MirrorsInv /\ [MirrorsNext]_mirrorVars => MirrorsInv'
<1> SUFFICES ASSUME MirrorsInv, [MirrorsNext]_mirrorVars PROVE MirrorsInv'
  OBVIOUS
<1>1. [Next]_vars /\ [CredNext]_credVars
  BY DEF MirrorsNext, mirrorVars, CredNext
<1> QED
  BY <1>1, MetadataStep, CredStep DEF MirrorsInv

(* In every behaviour the records, the tokens and the keys keep their      *)
(* invariants, for any number of processes, agents, tokens and rotations.  *)
THEOREM MirrorsInvariant == MirrorsSpec => []MirrorsInv
<1> QED
  BY MirrorsInitInv, MirrorsStep, PTL DEF MirrorsSpec

(* TaskMetadataStore and the two caches stay within their types.           *)
THEOREM MirrorsTypes == MirrorsSpec => [](TypeOK /\ CredTypeOK)
<1>1. MirrorsInv => TypeOK /\ CredTypeOK
  BY DEF MirrorsInv, MetadataInv, CredInv
<1> QED
  BY <1>1, MirrorsInvariant, PTL

(* get_assignment and list_assignments: without faults every answer is a   *)
(* record the assignment really had, and the process at work always knows  *)
(* its own.                                                                *)
THEOREM AnswersTrue == MirrorsSpec => []AnswersAreTrue
<1>1. MirrorsInv => AnswersAreTrue
  BY MetadataConsequences DEF MirrorsInv, AnswersAreTrue
<1> QED
  BY <1>1, MirrorsInvariant, PTL

(* An outcome that was written is read by every process without a record   *)
(* of its own, whichever processes died before it.                         *)
THEOREM OutcomeReadable == MirrorsSpec => []OutcomeIsReadable
<1>1. MirrorsInv => OutcomeIsReadable
  BY MetadataConsequences DEF MirrorsInv
<1> QED
  BY <1>1, MirrorsInvariant, PTL

(* verify_google_token: an expired token may still be accepted, from the   *)
(* cache, but for one cache life and one request at most, for any          *)
(* lifetimes and however requests overlap.                                 *)
THEOREM ExpiredFade == MirrorsSpec => []ExpiredTokensFade
<1>1. MirrorsInv => ExpiredTokensFade
  BY DEF MirrorsInv, CredInv
<1> QED
  BY <1>1, MirrorsInvariant, PTL

(* _get_jwks: a rotation of the signing key is followed within one cache   *)
(* life and one request, in both directions, also when key sets arrive in  *)
(* another order than they were formed.                                    *)
THEOREM RotationFollowed == MirrorsSpec => []KeysFollowRotation
<1>1. MirrorsInv => KeysFollowRotation
  BY DEF MirrorsInv, CredInv, KeysFollowRotation
<1> QED
  BY <1>1, MirrorsInvariant, PTL

=============================================================================
