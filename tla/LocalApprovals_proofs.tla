------------------------ MODULE LocalApprovals_proofs ------------------------
(***************************************************************************)
(* Proofs about LocalApprovals, for every number of hooks, calls, actions  *)
(* and requests, and every TTL.                                            *)
(***************************************************************************)
EXTENDS LocalApprovals, TLAPS

Empty == [calls |-> {}, anon |-> 0]

\* What a record says about the calls that it has let through.
Accounts(rec, g) ==
  /\ rec.status \notin {"none", "used"} => g = Empty
  /\ rec.status = "used" =>
       IF rec.usedBy = NoCall THEN g.calls = {} /\ g.anon <= 1
       ELSE g.calls \subseteq {rec.usedBy} /\ g.anon = 0

AtMostOne(g) == /\ \A c, d \in g.calls : c = d
                /\ g.anon <= 1
                /\ g.anon = 1 => g.calls = {}

\* The store s agrees with the grants g, the last id n and the answers t.
StoreGood(s, g, n, t) ==
  \A r \in Ids :
    /\ AtMostOne(g[r])
    /\ Accounts(s[r], g[r])
    /\ r > n => s[r] = NoRec /\ g[r] = Empty
    /\ s[r].status \in {"approved", "used"} => t[r] \in {"resumes", "retry"}

\* Hooks under way hold, or were let through by, a request of their action.
HooksGood(s, p, c, f, i, n, t) ==
  \A h \in Hooks :
    /\ p[h] \in Holding \cup {"allowed"} =>
         i[h] \in Ids /\ i[h] <= n /\ (s[i[h]].status # "none" => s[i[h]].fp = f[h])
    /\ p[h] = "allowed" =>
         /\ s[i[h]].status \in {"used", "none"}
         /\ t[i[h]] \in {"resumes", "retry"}
         /\ s[i[h]].status = "used" => s[i[h]].usedBy = c[h]

\* No two pending records of one action.
NoTwins(s) == \A q, r \in Ids :
  s[q].status = "pending" /\ s[r].status = "pending" /\ s[q].fp = s[r].fp => q = r

IInv == /\ TypeOK
        /\ NoTwins(reqs)
        /\ StoreGood(reqs, grants, lastId, told)
        /\ HooksGood(reqs, pc, call, fp, rid, lastId, told)

-----------------------------------------------------------------------------
(* Lemmas about the store as a value.                                      *)

\* Ageing the store leaves a record alone, expires an open one or removes it.
LEMMA ExpireCases ==
  ASSUME NEW s, s \in [Ids -> Record], NEW r \in Ids
  PROVE  \/ Expire(s)[r] = NoRec
         \/ Expire(s)[r] = s[r]
         \/ /\ s[r].status \in {"pending", "approved"}
            /\ Expire(s)[r] = Closed(s[r], "expired")
  BY DEF Expire, Lapsed

LEMMA ClosedFacts ==
  ASSUME NEW rec \in Record, NEW how \in Status
  PROVE  /\ Closed(rec, how) \in Record
         /\ Closed(rec, how).status = how
         /\ Closed(rec, how).fp = rec.fp
         /\ Closed(rec, how).usedBy = rec.usedBy
  BY DEF Closed, Record

LEMMA NoRecFacts == NoRec \in Record /\ NoRec.status = "none"
  BY DEF NoRec, Record, Status

LEMMA ExpireType ==
  ASSUME NEW s, s \in [Ids -> Record]
  PROVE  Expire(s) \in [Ids -> Record]
<1>1. ASSUME NEW r \in Ids PROVE Expire(s)[r] \in Record
  BY ExpireCases, ClosedFacts, NoRecFacts DEF Status
<1>2. Expire(s) = [r \in Ids |-> Expire(s)[r]]
  BY DEF Expire
<1>3. QED BY <1>1, <1>2

\* Ageing keeps the store in agreement with the histories.
LEMMA ExpireStore ==
  ASSUME NEW s, NEW g, NEW n, NEW t,
         s \in [Ids -> Record], StoreGood(s, g, n, t)
  PROVE  StoreGood(Expire(s), g, n, t)
<1> SUFFICES ASSUME NEW r \in Ids
             PROVE  /\ AtMostOne(g[r])
                    /\ Accounts(Expire(s)[r], g[r])
                    /\ r > n => Expire(s)[r] = NoRec /\ g[r] = Empty
                    /\ Expire(s)[r].status \in {"approved", "used"} =>
                         t[r] \in {"resumes", "retry"}
  BY DEF StoreGood
<1>1. /\ AtMostOne(g[r]) /\ Accounts(s[r], g[r])
      /\ r > n => s[r] = NoRec /\ g[r] = Empty
      /\ s[r].status \in {"approved", "used"} => t[r] \in {"resumes", "retry"}
  BY DEF StoreGood
<1>2. s[r] \in Record
  OBVIOUS
<1>3. CASE Expire(s)[r] = NoRec
  BY <1>1, <1>3, NoRecFacts DEF Accounts
<1>4. CASE Expire(s)[r] = s[r]
  BY <1>1, <1>4
<1>5. CASE /\ s[r].status \in {"pending", "approved"}
           /\ Expire(s)[r] = Closed(s[r], "expired")
  BY <1>1, <1>2, <1>5, ClosedFacts, NoRecFacts DEF Accounts, Status
<1>6. QED BY <1>3, <1>4, <1>5, ExpireCases

LEMMA ExpireHooks ==
  ASSUME NEW s, NEW p, NEW c, NEW f, NEW i, NEW n, NEW t,
         s \in [Ids -> Record], HooksGood(s, p, c, f, i, n, t)
  PROVE  HooksGood(Expire(s), p, c, f, i, n, t)
<1> SUFFICES ASSUME NEW h \in Hooks, p[h] \in Holding \cup {"allowed"}
             PROVE  /\ i[h] \in Ids /\ i[h] <= n
                    /\ Expire(s)[i[h]].status # "none" => Expire(s)[i[h]].fp = f[h]
                    /\ p[h] = "allowed" =>
                         /\ Expire(s)[i[h]].status \in {"used", "none"}
                         /\ t[i[h]] \in {"resumes", "retry"}
                         /\ Expire(s)[i[h]].status = "used" => Expire(s)[i[h]].usedBy = c[h]
  BY DEF HooksGood
<1>1. /\ i[h] \in Ids /\ i[h] <= n
      /\ s[i[h]].status # "none" => s[i[h]].fp = f[h]
      /\ p[h] = "allowed" =>
           /\ s[i[h]].status \in {"used", "none"}
           /\ t[i[h]] \in {"resumes", "retry"}
           /\ s[i[h]].status = "used" => s[i[h]].usedBy = c[h]
  BY DEF HooksGood
<1>2. s[i[h]] \in Record
  BY <1>1
<1>3. CASE Expire(s)[i[h]] = NoRec
  BY <1>1, <1>3, NoRecFacts
<1>4. CASE Expire(s)[i[h]] = s[i[h]]
  BY <1>1, <1>4
<1>5. CASE /\ s[i[h]].status \in {"pending", "approved"}
           /\ Expire(s)[i[h]] = Closed(s[i[h]], "expired")
  BY <1>1, <1>2, <1>5, ClosedFacts DEF Status
<1>6. QED BY <1>1, <1>3, <1>4, <1>5, ExpireCases

LEMMA SpendFacts ==
  ASSUME NEW rec \in Record, NEW c \in Calls \cup {NoCall}, Opens(rec, c)
  PROVE  /\ Spend(rec, c) \in Record
         /\ Spend(rec, c).status = "used"
         /\ Spend(rec, c).usedBy = c
         /\ Spend(rec, c).fp = rec.fp
         /\ rec.status = "used" => Spend(rec, c) = rec
  BY DEF Opens, Spend, Closed, Record, Status

\* The grants once request r has let call c through.
GrantTo(g, r, c) == [g EXCEPT ![r] = Credit(@, c)]

Grants == [Ids -> [calls : SUBSET Calls, anon : Nat]]

LEMMA GrantType ==
  ASSUME NEW g \in Grants, NEW r \in Ids, NEW c \in Calls \cup {NoCall}
  PROVE  GrantTo(g, r, c) \in Grants
<1>1. g[r].calls \in SUBSET Calls /\ g[r].anon \in Nat
  BY DEF Grants
<1>2. Credit(g[r], c) \in [calls : SUBSET Calls, anon : Nat]
  BY <1>1 DEF Credit
<1>3. QED BY <1>2 DEF GrantTo, Grants

\* Spending a record that opens for c keeps store and grants in agreement.
LEMMA GrantStore ==
  ASSUME NEW s, NEW g \in Grants, NEW n \in Nat, NEW t, NEW r \in Ids,
         NEW c \in Calls \cup {NoCall},
         s \in [Ids -> Record], StoreGood(s, g, n, t), Opens(s[r], c)
  PROVE  /\ r <= n
         /\ [s EXCEPT ![r] = Spend(@, c)] \in [Ids -> Record]
         /\ StoreGood([s EXCEPT ![r] = Spend(@, c)], GrantTo(g, r, c), n, t)
<1> DEFINE s2 == [s EXCEPT ![r] = Spend(@, c)]
           g2 == GrantTo(g, r, c)
<1>1. /\ AtMostOne(g[r]) /\ Accounts(s[r], g[r])
      /\ r > n => s[r] = NoRec
      /\ s[r].status \in {"approved", "used"} => t[r] \in {"resumes", "retry"}
  BY DEF StoreGood
<1>2. s[r].status \in {"approved", "used"}
  BY DEF Opens
<1>3. r <= n
  BY <1>1, <1>2, NoRecFacts DEF Ids
<1>4. s2 \in [Ids -> Record] /\ s2[r] = Spend(s[r], c)
  BY SpendFacts
<1>5. AtMostOne(g2[r]) /\ Accounts(s2[r], g2[r])
  <2>1. Spend(s[r], c).status = "used" /\ Spend(s[r], c).usedBy = c
    BY SpendFacts
  <2>2. g[r] \in [calls : SUBSET Calls, anon : Nat]
    BY DEF Grants
  <2>3. CASE c = NoCall
    <3>1. g2[r].calls = g[r].calls /\ g2[r].anon = g[r].anon + 1
      BY <2>2, <2>3 DEF GrantTo, Grants, Credit
    <3>2. s[r].status = "approved"
      BY <2>3 DEF Opens
    <3>3. g[r].calls = {} /\ g[r].anon = 0
      BY <1>1, <3>2 DEF Accounts, Empty
    <3>4. QED BY <1>4, <2>1, <2>3, <3>1, <3>3 DEF AtMostOne, Accounts
  <2>4. CASE c # NoCall
    <3>1. g2[r].calls = g[r].calls \cup {c} /\ g2[r].anon = g[r].anon
      BY <2>2, <2>4 DEF GrantTo, Grants, Credit
    <3>2. g[r].calls \subseteq {c} /\ g[r].anon = 0
      BY <1>1, <1>2, <2>4 DEF Accounts, Empty, Opens
    <3>3. QED BY <1>4, <2>1, <2>4, <3>1, <3>2 DEF AtMostOne, Accounts
  <2>5. QED BY <2>3, <2>4
<1>6. ASSUME NEW q \in Ids, q # r
      PROVE  s2[q] = s[q] /\ g2[q] = g[q]
  BY <1>6 DEF GrantTo, Grants
<1>7. StoreGood(s2, g2, n, t)
  BY <1>1, <1>2, <1>3, <1>5, <1>6 DEF StoreGood, Ids
<1>8. QED BY <1>3, <1>4, <1>7

\* A hook of call c[h] is let through by record r of its own action.
LEMMA GrantHooks ==
  ASSUME NEW s, NEW p, NEW f, NEW c, NEW i, NEW n \in Nat, NEW t,
         NEW h \in Hooks, NEW r \in Ids, r <= n,
         s \in [Ids -> Record], c[h] \in Calls \cup {NoCall},
         p \in [Hooks -> PCs], i \in [Hooks -> Ids \cup {0}],
         Opens(s[r], c[h]), s[r].fp = f[h], t[r] \in {"resumes", "retry"},
         HooksGood(s, p, c, f, i, n, t)
  PROVE  HooksGood([s EXCEPT ![r] = Spend(@, c[h])], [p EXCEPT ![h] = "allowed"],
                   c, f, [i EXCEPT ![h] = r], n, t)
<1> DEFINE s2 == [s EXCEPT ![r] = Spend(@, c[h])]
           p2 == [p EXCEPT ![h] = "allowed"]
           i2 == [i EXCEPT ![h] = r]
<1> SUFFICES ASSUME NEW k \in Hooks, p2[k] \in Holding \cup {"allowed"}
             PROVE  /\ i2[k] \in Ids /\ i2[k] <= n
                    /\ s2[i2[k]].status # "none" => s2[i2[k]].fp = f[k]
                    /\ p2[k] = "allowed" =>
                         /\ s2[i2[k]].status \in {"used", "none"}
                         /\ t[i2[k]] \in {"resumes", "retry"}
                         /\ s2[i2[k]].status = "used" => s2[i2[k]].usedBy = c[k]
  BY DEF HooksGood
<1>1. /\ s2[r] = Spend(s[r], c[h]) /\ s2[r].status = "used"
      /\ s2[r].usedBy = c[h] /\ s2[r].fp = s[r].fp
      /\ s[r].status = "used" => s2[r] = s[r]
  BY SpendFacts
<1>2. CASE k = h
  BY <1>1, <1>2
<1>3. CASE k # h
  <2>1. p2[k] = p[k] /\ i2[k] = i[k]
    BY <1>3
  <2>2. /\ i[k] \in Ids /\ i[k] <= n
        /\ s[i[k]].status # "none" => s[i[k]].fp = f[k]
        /\ p[k] = "allowed" =>
             /\ s[i[k]].status \in {"used", "none"}
             /\ t[i[k]] \in {"resumes", "retry"}
             /\ s[i[k]].status = "used" => s[i[k]].usedBy = c[k]
    BY <2>1 DEF HooksGood
  <2>3. CASE i[k] # r
    BY <2>1, <2>2, <2>3
  <2>4. CASE i[k] = r
    BY <1>1, <2>1, <2>2, <2>4 DEF Opens
  <2>5. QED BY <2>3, <2>4
<1>4. QED BY <1>2, <1>3

LEMMA ExpireTwins ==
  ASSUME NEW s, s \in [Ids -> Record], NoTwins(s)
  PROVE  NoTwins(Expire(s))
<1>1. ASSUME NEW r \in Ids, Expire(s)[r].status = "pending"
      PROVE  Expire(s)[r] = s[r]
  BY <1>1, ExpireCases, NoRecFacts, ClosedFacts DEF Status
<1>2. QED BY <1>1 DEF NoTwins

\* Changing one record to one that is not pending makes no twins.
LEMMA SettleTwins ==
  ASSUME NEW s, s \in [Ids -> Record], NoTwins(s), NEW r \in Ids,
         NEW rec, rec.status # "pending"
  PROVE  NoTwins([s EXCEPT ![r] = rec])
  BY DEF NoTwins

\* Hooks that left their hold, or changed nothing of theirs, stay good.
LEMMA HooksWeaken ==
  ASSUME NEW s, NEW p, NEW c, NEW f, NEW i, NEW n, NEW t,
         NEW p2, NEW c2, NEW f2, NEW i2, HooksGood(s, p, c, f, i, n, t),
         \A k \in Hooks : p2[k] \in Holding \cup {"allowed"} =>
           /\ p[k] \in Holding \cup {"allowed"}
           /\ p2[k] = "allowed" => p[k] = "allowed"
           /\ i2[k] = i[k] /\ c2[k] = c[k] /\ f2[k] = f[k]
  PROVE  HooksGood(s, p2, c2, f2, i2, n, t)
  BY DEF HooksGood

\* The store after one more ageing, with everything it agrees with.
LEMMA Aged2 ==
  ASSUME NEW s, NEW g, NEW n, NEW t, NEW p, NEW c, NEW f, NEW i,
         s \in [Ids -> Record], NoTwins(s), StoreGood(s, g, n, t),
         HooksGood(s, p, c, f, i, n, t)
  PROVE  /\ Expire(s) \in [Ids -> Record]
         /\ NoTwins(Expire(s))
         /\ StoreGood(Expire(s), g, n, t)
         /\ HooksGood(Expire(s), p, c, f, i, n, t)
  BY ExpireType, ExpireTwins, ExpireStore, ExpireHooks

LEMMA InitInv == Init => IInv
<1> SUFFICES ASSUME Init PROVE IInv
  OBVIOUS
<1>1. TypeOK
  BY NoRecFacts DEF Init, TypeOK, PCs
<1>2. NoTwins(reqs)
  BY NoRecFacts DEF Init, NoTwins
<1>3. StoreGood(reqs, grants, lastId, told)
  BY NoRecFacts DEF Init, StoreGood, AtMostOne, Accounts, Empty
<1>4. HooksGood(reqs, pc, call, fp, rid, lastId, told)
  BY DEF Init, HooksGood, Holding
<1>5. QED BY <1>1, <1>2, <1>3, <1>4 DEF IInv

\* What each action starts from: the aged store agrees with everything.
Now(s) == /\ s \in [Ids -> Record]
          /\ NoTwins(s)
          /\ StoreGood(s, grants, lastId, told)
          /\ HooksGood(s, pc, call, fp, rid, lastId, told)

LEMMA NowInv == IInv => Now(reqs) /\ Now(Expire(reqs)) /\ Now(Expire(Expire(reqs)))
<1> SUFFICES ASSUME IInv PROVE Now(reqs) /\ Now(Expire(reqs)) /\ Now(Expire(Expire(reqs)))
  OBVIOUS
<1>1. Now(reqs)
  BY DEF IInv, Now, TypeOK
<1>2. Now(Expire(reqs))
  BY <1>1, Aged2 DEF Now
<1>3. Now(Expire(Expire(reqs)))
  BY <1>2, Aged2 DEF Now
<1>4. QED BY <1>1, <1>2, <1>3

\* A hook step that only ages the store and moves one hook out of a hold.
LEMMA MoveInv ==
  ASSUME IInv, NEW h \in Hooks, NEW w \in PCs \ {"allowed"},
         w \in Holding => pc[h] \in Holding,
         reqs' \in [Ids -> Record], NoTwins(reqs'),
         StoreGood(reqs', grants, lastId, told),
         HooksGood(reqs', pc, call, fp, rid, lastId, told),
         pc' = [pc EXCEPT ![h] = w],
         UNCHANGED <<lastId, call, fp, rid, left, told, grants>>
  PROVE  IInv'
<1>1. TypeOK'
  BY DEF IInv, TypeOK
<1>2. \A k \in Hooks : pc'[k] \in Holding \cup {"allowed"} =>
           /\ pc[k] \in Holding \cup {"allowed"}
           /\ pc'[k] = "allowed" => pc[k] = "allowed"
  BY DEF IInv, TypeOK
<1>3. HooksGood(reqs', pc', call, fp, rid, lastId, told)
  BY <1>2, HooksWeaken
<1>4. QED BY <1>1, <1>3 DEF IInv

LEMMA GrantedInv ==
  ASSUME IInv, NEW h \in Hooks, NEW r \in Ids, NEW s, Now(s),
         Opens(s[r], call[h]), s[r].fp = fp[h],
         reqs' = Expire([s EXCEPT ![r] = Spend(@, call[h])]),
         Grant(h, r), UNCHANGED <<lastId, call, fp, left, told>>
  PROVE  IInv'
<1> DEFINE s2 == [s EXCEPT ![r] = Spend(@, call[h])]
<1>1. /\ s \in [Ids -> Record] /\ StoreGood(s, grants, lastId, told) /\ NoTwins(s)
      /\ HooksGood(s, pc, call, fp, rid, lastId, told)
  BY DEF Now
<1>2. /\ call[h] \in Calls \cup {NoCall} /\ grants \in Grants /\ lastId \in Nat
      /\ pc \in [Hooks -> PCs] /\ rid \in [Hooks -> Ids \cup {0}]
  BY DEF IInv, TypeOK, Grants
<1>3. grants' = GrantTo(grants, r, call[h])
  BY DEF Grant, GrantTo
<1>4. /\ r <= lastId /\ s2 \in [Ids -> Record]
      /\ StoreGood(s2, grants', lastId, told)
  BY <1>1, <1>2, <1>3, GrantStore
<1>5. told[r] \in {"resumes", "retry"}
  BY <1>1 DEF StoreGood, Opens
<1>6. HooksGood(s2, pc', call, fp, rid', lastId, told)
  BY <1>1, <1>2, <1>4, <1>5, GrantHooks DEF Grant
<1>7. NoTwins(s2)
  BY <1>1, <1>2, SpendFacts, SettleTwins
<1>8. /\ Expire(s2) \in [Ids -> Record] /\ NoTwins(Expire(s2))
      /\ StoreGood(Expire(s2), grants', lastId, told)
      /\ HooksGood(Expire(s2), pc', call, fp, rid', lastId, told)
  BY <1>4, <1>6, <1>7, Aged2
<1>9. TypeOK'
  <2>1. grants' \in Grants
    BY <1>2, <1>3, GrantType
  <2>2. pc' \in [Hooks -> PCs] /\ rid' \in [Hooks -> Ids \cup {0}]
    BY <1>2 DEF Grant, PCs
  <2>3. QED BY <1>8, <2>1, <2>2 DEF IInv, TypeOK, Grants
<1>10. QED BY <1>8, <1>9 DEF IInv

LEMMA ConsumeInv ==
  ASSUME IInv, NEW h \in Hooks, ConsumeHit(h) \/ ConsumeMiss(h)
  PROVE  IInv'
<1> DEFINE s == Expire(reqs)
<1>1. Now(s) /\ Now(Expire(s))
  BY NowInv
<1>2. CASE ConsumeHit(h)
  <2>1. PICK r \in Oldest(Matching(s, fp[h], call[h])) :
          /\ reqs' = Expire([s EXCEPT ![r] = Spend(@, call[h])])
          /\ Grant(h, r)
    BY <1>2 DEF ConsumeHit
  <2>2. r \in Ids /\ s[r].fp = fp[h] /\ Opens(s[r], call[h])
    BY DEF Oldest, Matching
  <2>3. QED BY <1>1, <1>2, <2>1, <2>2, GrantedInv DEF ConsumeHit
<1>3. CASE ConsumeMiss(h)
  BY <1>1, <1>3, MoveInv DEF ConsumeMiss, Now, PCs, Holding
<1>4. QED BY <1>2, <1>3

LEMMA PollInv ==
  ASSUME IInv, NEW h \in Hooks,
         PollGranted(h) \/ PollRefused(h) \/ PollAgain(h)
  PROVE  IInv'
<1> DEFINE s == Expire(reqs)
<1>1. Now(s) /\ Now(Expire(s))
  BY NowInv
<1>2. CASE PollGranted(h)
  <2>1. pc[h] = "asleep"
    BY <1>2 DEF PollGranted
  <2>2. rid[h] \in Ids /\ (s[rid[h]].status # "none" => s[rid[h]].fp = fp[h])
    BY <1>1, <2>1 DEF Now, HooksGood, Holding
  <2>3. Opens(s[rid[h]], call[h])
    BY <1>2 DEF PollGranted
  <2>4. s[rid[h]].fp = fp[h]
    BY <2>2, <2>3 DEF Opens
  <2>5. QED BY <1>1, <1>2, <2>2, <2>3, <2>4, GrantedInv DEF PollGranted
<1>3. CASE PollRefused(h)
  BY <1>1, <1>3, MoveInv DEF PollRefused, Now, PCs, Holding
<1>4. CASE PollAgain(h)
  BY <1>1, <1>4, MoveInv DEF PollAgain, Now, PCs, Holding
<1>5. QED BY <1>2, <1>3, <1>4

LEMMA RequestInv ==
  ASSUME IInv, NEW h \in Hooks, Request(h)
  PROVE  IInv'
<1> DEFINE s    == Expire(reqs)
           mine == PendingFor(s, fp[h])
<1>1. Now(s)
  BY NowInv
<1>2. /\ lastId \in Nat /\ pc \in [Hooks -> PCs] /\ fp \in [Hooks -> Fps \cup {NoFp}]
      /\ rid \in [Hooks -> Ids \cup {0}] /\ left \in [Hooks -> Nat]
      /\ MaxReqs \in Nat /\ HoldFor \in Nat
  BY ConstantsAssumption DEF IInv, TypeOK
<1>3. PICK r \in IF mine # {} THEN Oldest(mine) ELSE {lastId + 1} \cap Ids :
        /\ reqs' = Expire([s EXCEPT ![r] =
             [status |-> "pending", fp |-> fp[h], usedBy |-> @.usedBy,
              age |-> @.age, valid |-> @.valid, waiting |-> HoldFor]])
        /\ lastId' = IF mine # {} THEN lastId ELSE r
        /\ rid'  = [rid EXCEPT ![h] = r]
  BY DEF Request
<1> DEFINE rec == [status |-> "pending", fp |-> fp[h], usedBy |-> s[r].usedBy,
                   age |-> s[r].age, valid |-> s[r].valid, waiting |-> HoldFor]
           s2  == [s EXCEPT ![r] = rec]
<1>4. /\ r \in Ids
      /\ mine # {} => r \in mine /\ lastId' = lastId
      /\ mine = {} => r = lastId + 1 /\ lastId' = r
  <2>1. CASE mine # {}
    BY <1>3, <2>1 DEF Oldest, PendingFor
  <2>2. CASE mine = {}
    BY <1>3, <2>2
  <2>3. QED BY <2>1, <2>2
<1>5. /\ s \in [Ids -> Record] /\ NoTwins(s) /\ StoreGood(s, grants, lastId, told)
      /\ HooksGood(s, pc, call, fp, rid, lastId, told)
  BY <1>1 DEF Now
<1>6. s2 \in [Ids -> Record] /\ s2[r] = rec
  BY <1>2, <1>4, <1>5 DEF Record, Status
<1>7. /\ r <= lastId' /\ lastId <= lastId' /\ lastId' \in Nat
  <2>1. CASE mine # {}
    <3>1. s[r] # NoRec
      BY <1>4, <2>1, NoRecFacts DEF PendingFor
    <3>2. QED BY <1>2, <1>4, <1>5, <2>1, <3>1 DEF StoreGood, Ids
  <2>2. CASE mine = {}
    BY <1>2, <1>4, <2>2
  <2>3. QED BY <2>1, <2>2
<1>8. grants[r] = Empty
  BY <1>2, <1>4, <1>5, NoRecFacts DEF StoreGood, Accounts, PendingFor
<1>9. StoreGood(s2, grants, lastId', told)
  <2> SUFFICES ASSUME NEW q \in Ids
               PROVE  /\ AtMostOne(grants[q])
                      /\ Accounts(s2[q], grants[q])
                      /\ q > lastId' => s2[q] = NoRec /\ grants[q] = Empty
                      /\ s2[q].status \in {"approved", "used"} =>
                           told[q] \in {"resumes", "retry"}
    BY DEF StoreGood
  <2>1. CASE q = r
    BY <1>2, <1>5, <1>6, <1>7, <1>8, <2>1 DEF StoreGood, Accounts, Ids
  <2>2. CASE q # r
    <3>1. s2[q] = s[q]
      BY <2>2
    <3>2. q > lastId' => q > lastId
      BY <1>2, <1>7 DEF Ids
    <3>3. QED BY <1>5, <3>1, <3>2 DEF StoreGood
  <2>3. QED BY <2>1, <2>2
<1>10. NoTwins(s2)
  <2>1. ASSUME NEW q \in Ids, q # r, s[q].status = "pending"
        PROVE  s[q].fp # fp[h]
    <3>1. CASE mine # {}
      BY <1>4, <1>5, <2>1, <3>1 DEF NoTwins, PendingFor
    <3>2. CASE mine = {}
      BY <2>1, <3>2 DEF PendingFor
    <3>3. QED BY <3>1, <3>2
  <2>2. QED BY <1>5, <1>6, <2>1 DEF NoTwins
<1>11. HooksGood(s2, pc', call, fp, rid', lastId', told)
  <2> SUFFICES ASSUME NEW k \in Hooks, pc'[k] \in Holding \cup {"allowed"}
               PROVE  /\ rid'[k] \in Ids /\ rid'[k] <= lastId'
                      /\ s2[rid'[k]].status # "none" => s2[rid'[k]].fp = fp[k]
                      /\ pc'[k] = "allowed" =>
                           /\ s2[rid'[k]].status \in {"used", "none"}
                           /\ told[rid'[k]] \in {"resumes", "retry"}
                           /\ s2[rid'[k]].status = "used" => s2[rid'[k]].usedBy = call[k]
    BY DEF HooksGood
  <2>1. pc' = [pc EXCEPT ![h] = IF HoldFor = 0 THEN "denied" ELSE "holding"]
    BY DEF Request
  <2>2. CASE k = h
    BY <1>2, <1>3, <1>4, <1>6, <1>7, <2>1, <2>2
  <2>3. CASE k # h
    <3>1. pc'[k] = pc[k] /\ rid'[k] = rid[k]
      BY <1>2, <1>3, <2>1, <2>3
    <3>2. /\ rid[k] \in Ids /\ rid[k] <= lastId
          /\ s[rid[k]].status # "none" => s[rid[k]].fp = fp[k]
          /\ pc[k] = "allowed" =>
               /\ s[rid[k]].status \in {"used", "none"}
               /\ told[rid[k]] \in {"resumes", "retry"}
               /\ s[rid[k]].status = "used" => s[rid[k]].usedBy = call[k]
      BY <1>5, <3>1 DEF HooksGood
    <3>3. rid[k] <= lastId'
      BY <1>2, <1>7, <3>2 DEF Ids
    <3>4. CASE rid[k] # r
      BY <3>1, <3>2, <3>3, <3>4
    <3>5. CASE rid[k] = r
      <4>1. mine # {} /\ r \in mine
        BY <1>2, <1>4, <3>2, <3>5
      <4>2. s[r].status = "pending" /\ s[r].fp = fp[h]
        BY <4>1 DEF PendingFor
      <4>3. QED BY <1>6, <3>1, <3>2, <3>3, <3>5, <4>2
    <3>6. QED BY <3>4, <3>5
  <2>4. QED BY <2>2, <2>3
<1>12. /\ reqs' \in [Ids -> Record] /\ NoTwins(reqs')
       /\ StoreGood(reqs', grants, lastId', told)
       /\ HooksGood(reqs', pc', call, fp, rid', lastId', told)
  BY <1>3, <1>6, <1>9, <1>10, <1>11, Aged2
<1>13. TypeOK'
  BY <1>2, <1>3, <1>4, <1>7, <1>12 DEF IInv, TypeOK, Request, PCs
<1>14. QED BY <1>12, <1>13 DEF IInv, Request

LEMMA GiveUpInv ==
  ASSUME IInv, NEW h \in Hooks, GiveUp(h)
  PROVE  IInv'
<1> DEFINE s2 == [reqs EXCEPT ![rid[h]].waiting = 0]
<1>1. Now(reqs)
  BY NowInv
<1>2. rid[h] \in Ids /\ reqs[rid[h]] \in Record
  BY <1>1 DEF Now, HooksGood, GiveUp, Holding
<1>3. ASSUME NEW q \in Ids
      PROVE  /\ s2[q] \in Record
             /\ s2[q].status = reqs[q].status /\ s2[q].fp = reqs[q].fp
             /\ s2[q].usedBy = reqs[q].usedBy
             /\ reqs[q] = NoRec => s2[q] = NoRec
  BY <1>1, <1>2 DEF Now, Record, NoRec
<1>4. s2 \in [Ids -> Record]
  BY <1>1, <1>3 DEF Now
<1>5. NoTwins(s2)
  BY <1>1, <1>3 DEF Now, NoTwins
<1>6. StoreGood(s2, grants, lastId, told)
  BY <1>1, <1>3 DEF Now, StoreGood, Accounts
<1>7. HooksGood(s2, pc, call, fp, rid, lastId, told)
  BY <1>1, <1>3 DEF Now, HooksGood
<1>8. /\ Expire(s2) \in [Ids -> Record] /\ NoTwins(Expire(s2))
      /\ StoreGood(Expire(s2), grants, lastId, told)
      /\ HooksGood(Expire(s2), pc, call, fp, rid, lastId, told)
  BY <1>4, <1>5, <1>6, <1>7, Aged2
<1>9. QED BY <1>8, MoveInv DEF GiveUp, PCs, Holding

LEMMA ResolveInv ==
  ASSUME IInv, NEW h \in Hooks, ResolvePeek(h) \/ ResolveClose(h)
  PROVE  IInv'
<1>1. Now(reqs)
  BY NowInv
<1>2. CASE ResolvePeek(h)
  <2>1. reqs' = reqs
    BY <1>2 DEF ResolvePeek, store
  <2>2. QED BY <1>1, <1>2, <2>1, MoveInv DEF ResolvePeek, Now, PCs, Holding, store
<1>3. CASE ResolveClose(h)
  <2> DEFINE s2 == [r \in Ids |-> IF r \in PendingFor(reqs, fp[h])
                                  THEN Closed(reqs[r], "resolved") ELSE reqs[r]]
  <2>1. ASSUME NEW q \in Ids
        PROVE  /\ s2[q] \in Record
               /\ \/ s2[q] = reqs[q]
                  \/ /\ reqs[q].status = "pending" /\ s2[q].status = "resolved"
                     /\ s2[q].fp = reqs[q].fp
    BY <1>1, ClosedFacts DEF Now, PendingFor, Status
  <2>2. s2 \in [Ids -> Record]
    BY <2>1
  <2>3. NoTwins(s2)
    BY <1>1, <2>1 DEF Now, NoTwins
  <2>4. StoreGood(s2, grants, lastId, told)
    BY <1>1, <2>1, NoRecFacts DEF Now, StoreGood, Accounts
  <2>5. HooksGood(s2, pc, call, fp, rid, lastId, told)
    BY <1>1, <2>1 DEF Now, HooksGood
  <2>6. /\ Expire(s2) \in [Ids -> Record] /\ NoTwins(Expire(s2))
        /\ StoreGood(Expire(s2), grants, lastId, told)
        /\ HooksGood(Expire(s2), pc, call, fp, rid, lastId, told)
    BY <2>2, <2>3, <2>4, <2>5, Aged2
  <2>7. QED BY <1>3, <2>6, MoveInv DEF ResolveClose, PCs, Holding
<1>4. QED BY <1>2, <1>3

\* Steps that leave the store alone and only move a hook between calls.
LEMMA ProcessInv ==
  ASSUME IInv, NEW h \in Hooks,
         ScreenBlocked(h) \/ ScreenAllowed(h) \/ Sleep(h) \/ Exit(h) \/ Kill(h)
  PROVE  IInv'
<1>1. Now(reqs)
  BY NowInv
<1>2. CASE Sleep(h)
  BY <1>1, <1>2, MoveInv DEF Sleep, Now, PCs, Holding, store
<1>3. CASE Kill(h)
  BY <1>1, <1>3, MoveInv DEF Kill, Now, PCs, Holding, store
<1>4. CASE ScreenBlocked(h) \/ ScreenAllowed(h) \/ Exit(h)
  <2>1. PICK c \in Calls \cup {NoCall}, f \in Fps \cup {NoFp},
             w \in {"blocked", "running", "idle"} :
          /\ pc' = [pc EXCEPT ![h] = w]
          /\ call' = [call EXCEPT ![h] = c]
          /\ fp' = [fp EXCEPT ![h] = f]
    BY <1>4 DEF ScreenBlocked, ScreenAllowed, Screen, Exit
  <2>2. /\ UNCHANGED <<reqs, lastId, told, grants>>
        /\ \/ UNCHANGED <<rid, left>>
           \/ rid' = [rid EXCEPT ![h] = 0] /\ left' = [left EXCEPT ![h] = 0]
    BY <1>4 DEF ScreenBlocked, ScreenAllowed, Screen, Exit, store
  <2>3. TypeOK'
    BY <2>1, <2>2 DEF IInv, TypeOK, PCs
  <2>4. ASSUME NEW k \in Hooks, pc'[k] \in Holding \cup {"allowed"}
        PROVE  /\ pc[k] = pc'[k] /\ rid'[k] = rid[k]
               /\ call'[k] = call[k] /\ fp'[k] = fp[k]
    BY <2>1, <2>2, <2>4 DEF IInv, TypeOK, Holding
  <2>5. HooksGood(reqs, pc', call', fp', rid', lastId, told)
    BY <1>1, <2>4, HooksWeaken DEF Now
  <2>6. QED BY <2>2, <2>3, <2>5 DEF IInv
<1>5. QED BY <1>2, <1>3, <1>4

LEMMA DecideInv ==
  ASSUME IInv, NEW r \in Ids, NEW approve \in BOOLEAN, Decide(r, approve)
  PROVE  IInv'
<1> DEFINE s   == Expire(reqs)
           rec == IF approve THEN [Closed(s[r], "approved") EXCEPT !.valid = ApprovedTTL]
                  ELSE Closed(s[r], "denied")
           s2  == [s EXCEPT ![r] = rec]
<1>1. Now(s)
  BY NowInv
<1>2. /\ s[r].status = "pending" /\ s[r] \in Record
      /\ reqs' = Expire(s2)
  BY <1>1 DEF Decide, Now
<1>3. /\ rec \in Record /\ rec.fp = s[r].fp
      /\ rec.status = IF approve THEN "approved" ELSE "denied"
  BY <1>2, ConstantsAssumption DEF Closed, Record, Status
<1>4. s2 \in [Ids -> Record] /\ s2[r] = rec
  BY <1>1, <1>3 DEF Now
<1>5. /\ told' \in [Ids -> {"none", "denied", "resumes", "retry"}]
      /\ approve => told'[r] \in {"resumes", "retry"}
      /\ \A q \in Ids : q # r => told'[q] = told[q]
  BY DEF Decide, IInv, TypeOK
<1>6. NoTwins(s2)
  <2>1. rec.status # "pending"
    BY <1>3
  <2>2. s \in [Ids -> Record] /\ NoTwins(s)
    BY <1>1 DEF Now
  <2> HIDE DEF rec, s
  <2>3. QED BY <2>1, <2>2, SettleTwins
<1>7. StoreGood(s2, grants, lastId, told')
  <2>1. ASSUME NEW q \in Ids, q # r PROVE s2[q] = s[q]
    BY <2>1
  <2>2. AtMostOne(grants[r]) /\ grants[r] = Empty /\ ~ (r > lastId)
    BY <1>1, <1>2, NoRecFacts DEF Now, StoreGood, Accounts
  <2>3. QED BY <1>1, <1>3, <1>4, <1>5, <2>1, <2>2 DEF Now, StoreGood, Accounts
<1>8. HooksGood(s2, pc, call, fp, rid, lastId, told')
  <2> SUFFICES ASSUME NEW k \in Hooks, pc[k] \in Holding \cup {"allowed"}
               PROVE  /\ rid[k] \in Ids /\ rid[k] <= lastId
                      /\ s2[rid[k]].status # "none" => s2[rid[k]].fp = fp[k]
                      /\ pc[k] = "allowed" =>
                           /\ s2[rid[k]].status \in {"used", "none"}
                           /\ told'[rid[k]] \in {"resumes", "retry"}
                           /\ s2[rid[k]].status = "used" => s2[rid[k]].usedBy = call[k]
    BY DEF HooksGood
  <2>1. /\ rid[k] \in Ids /\ rid[k] <= lastId
        /\ s[rid[k]].status # "none" => s[rid[k]].fp = fp[k]
        /\ pc[k] = "allowed" =>
             /\ s[rid[k]].status \in {"used", "none"}
             /\ told[rid[k]] \in {"resumes", "retry"}
             /\ s[rid[k]].status = "used" => s[rid[k]].usedBy = call[k]
    BY <1>1 DEF Now, HooksGood
  <2>2. CASE rid[k] = r
    BY <1>2, <1>3, <1>4, <2>1, <2>2
  <2>3. CASE rid[k] # r
    BY <1>5, <2>1, <2>3
  <2>4. QED BY <2>2, <2>3
<1>9. /\ Expire(s2) \in [Ids -> Record] /\ NoTwins(Expire(s2))
      /\ StoreGood(Expire(s2), grants, lastId, told')
      /\ HooksGood(Expire(s2), pc, call, fp, rid, lastId, told')
  BY <1>4, <1>6, <1>7, <1>8, Aged2
<1>10. QED BY <1>2, <1>5, <1>9 DEF IInv, TypeOK, Decide, hookv

LEMMA AgedFacts ==
  ASSUME NEW rec \in Record
  PROVE  /\ Aged(rec) \in Record
         /\ Aged(rec).status = rec.status /\ Aged(rec).fp = rec.fp
         /\ Aged(rec).usedBy = rec.usedBy
         /\ rec = NoRec => Aged(rec) = NoRec
<1>1. CASE rec.status = "pending"
  <2> DEFINE a == IF rec.age > PendingTTL THEN rec.age ELSE rec.age + 1
             w == IF rec.waiting > 0 THEN rec.waiting - 1 ELSE 0
  <2>1. a \in Nat /\ w \in Nat
    BY DEF Record
  <2>2. Aged(rec) = [rec EXCEPT !.age = a, !.waiting = w]
    BY <1>1 DEF Aged
  <2> HIDE DEF a, w
  <2>3. Aged(rec) = [status |-> rec.status, fp |-> rec.fp, usedBy |-> rec.usedBy,
                     age |-> a, valid |-> rec.valid, waiting |-> w]
    BY <2>2 DEF Record
  <2>4. Aged(rec) \in Record
    BY <2>1, <2>3 DEF Record
  <2>5. rec # NoRec
    BY <1>1, NoRecFacts
  <2>6. QED BY <2>3, <2>4, <2>5
<1>2. CASE rec.status = "approved"
  BY <1>2 DEF Aged, Record, NoRec
<1>3. CASE rec.status \notin {"pending", "approved"}
  BY <1>3 DEF Aged
<1>4. QED BY <1>1, <1>2, <1>3

LEMMA TimeInv ==
  ASSUME IInv, Touch \/ Tick
  PROVE  IInv'
<1>1. Now(reqs) /\ Now(Expire(Expire(reqs)))
  BY NowInv
<1>2. CASE Touch
  BY <1>1, <1>2 DEF Touch, hookv, IInv, TypeOK, Now
<1>3. CASE Tick
  <2>1. ASSUME NEW q \in Ids
        PROVE  /\ reqs'[q] \in Record
               /\ reqs'[q].status = reqs[q].status /\ reqs'[q].fp = reqs[q].fp
               /\ reqs'[q].usedBy = reqs[q].usedBy
               /\ reqs[q] = NoRec => reqs'[q] = NoRec
    BY <1>1, <1>3, AgedFacts DEF Tick, Now
  <2>2. reqs' \in [Ids -> Record]
    BY <1>3, <2>1 DEF Tick
  <2>3. left' \in [Hooks -> Nat]
    BY <1>3 DEF Tick, IInv, TypeOK
  <2>4. NoTwins(reqs')
    BY <1>1, <2>1 DEF Now, NoTwins
  <2>5. StoreGood(reqs', grants, lastId, told)
    BY <1>1, <2>1 DEF Now, StoreGood, Accounts
  <2>6. HooksGood(reqs', pc, call, fp, rid, lastId, told)
    BY <1>1, <2>1 DEF Now, HooksGood
  <2>7. QED BY <1>3, <2>2, <2>3, <2>4, <2>5, <2>6 DEF Tick, IInv, TypeOK
<1>4. QED BY <1>2, <1>3

-----------------------------------------------------------------------------
(* The theorems.                                                           *)

\* Every step, and every stutter, keeps the inductive invariant.
LEMMA StepInv == IInv /\ [Next]_vars => IInv'
<1> SUFFICES ASSUME IInv, [Next]_vars PROVE IInv'
  OBVIOUS
<1>1. ASSUME NEW h \in Hooks, ScreenBlocked(h) \/ ScreenAllowed(h) \/ Sleep(h)
                              \/ Exit(h) \/ Kill(h)
      PROVE  IInv'
  BY <1>1, ProcessInv
<1>2. ASSUME NEW h \in Hooks, HookStep(h)
      PROVE  IInv'
  BY <1>1, <1>2, ConsumeInv, RequestInv, PollInv, GiveUpInv, ResolveInv DEF HookStep
<1>3. ASSUME NEW r \in Ids, NEW approve \in BOOLEAN, Decide(r, approve)
      PROVE  IInv'
  BY <1>3, DecideInv
<1>4. CASE Touch \/ Tick
  BY <1>4, TimeInv
<1>5. CASE UNCHANGED vars
  BY <1>5 DEF vars, IInv, TypeOK
<1>6. QED BY <1>1, <1>2, <1>3, <1>4, <1>5 DEF Next

THEOREM Invariance == Spec => []IInv
<1>1. QED BY InitInv, StepInv, PTL DEF Spec

\* The variables keep their types.
THEOREM TypeCorrect == Spec => []TypeOK
<1>1. IInv => TypeOK
  BY DEF IInv
<1>2. QED BY <1>1, Invariance, PTL

\* consume() and wait(): one approval lets one tool call through, however the
\* hooks, the person and the clock interleave.
THEOREM OneCallPerApproval == Spec => []SpentByOneCall
<1>1. IInv => SpentByOneCall
  BY DEF IInv, StoreGood, AtMostOne, SpentByOneCall
<1>2. QED BY <1>1, Invariance, PTL

\* A blocked call goes through only on a person's approval of that action.
THEOREM ApprovalNeeded == Spec => []AllowedByApproval
<1>1. IInv => AllowedByApproval
  BY DEF IInv, HooksGood, AllowedByApproval
<1>2. QED BY <1>1, Invariance, PTL

\* request(): identical calls share their pending request.
THEOREM OneRequestPerAction == Spec => []OnePendingPerAction
<1>1. IInv => OnePendingPerAction
  BY DEF IInv, NoTwins, OnePendingPerAction
<1>2. QED BY <1>1, Invariance, PTL

-----------------------------------------------------------------------------
(* What one step may do to a record.                                       *)

\* From rec to nxt: settled records stay, an approval is spent only while
\* valid, and a record appears only under an id not handed out yet.
Follows(rec, nxt, r) ==
  /\ rec.status \in {"denied", "used", "expired", "resolved"} =>
       nxt.status \in {rec.status, "none"}
  /\ rec.status = "approved" =>
       /\ nxt.status \in {"approved", "used", "expired", "none"}
       /\ nxt.status = "approved" => nxt.valid = rec.valid
       /\ nxt.status = "used" => rec.valid >= 0
  /\ rec.status = "none" /\ nxt.status # "none" => r > lastId

LEMMA FollowsTransitive ==
  ASSUME NEW a \in Record, NEW b \in Record, NEW c \in Record, NEW r \in Ids,
         a.status # "none" => ~ (r > lastId),
         Follows(a, b, r), Follows(b, c, r)
  PROVE  Follows(a, c, r)
<1>1. a.status \in Status /\ b.status \in Status
  BY DEF Record
<1>2. QED BY <1>1 DEF Follows, Status

\* What is on record was handed out.
LEMMA HandedOut ==
  IInv => \A r \in Ids : reqs[r].status # "none" => ~ (r > lastId)
  BY NoRecFacts DEF IInv, StoreGood

LEMMA FollowsReflexive ==
  ASSUME NEW a \in Record, NEW r \in Ids
  PROVE  Follows(a, a, r)
  BY DEF Follows

LEMMA ExpireFollows ==
  ASSUME NEW s, s \in [Ids -> Record], NEW r \in Ids
  PROVE  Follows(s[r], Expire(s)[r], r)
<1>1. s[r] \in Record
  OBVIOUS
<1>2. CASE Expire(s)[r] = NoRec
  BY <1>2, NoRecFacts DEF Follows
<1>3. CASE Expire(s)[r] = s[r]
  BY <1>1, <1>3, FollowsReflexive
<1>4. CASE /\ s[r].status \in {"pending", "approved"}
           /\ Expire(s)[r] = Closed(s[r], "expired")
  BY <1>1, <1>4, ClosedFacts DEF Follows, Status
<1>5. QED BY <1>2, <1>3, <1>4, ExpireCases

\* What is approved in an aged store has not lapsed.
LEMMA ApprovedIsValid ==
  ASSUME NEW s, s \in [Ids -> Record], NEW r \in Ids,
         Expire(s)[r].status = "approved"
  PROVE  Expire(s)[r].valid >= 0
<1>1. s[r] \in Record
  OBVIOUS
<1>2. ASSUME Lapsed(s[r])
      PROVE  Expire(s)[r] \in {NoRec, Closed(s[r], "expired")}
  BY <1>2 DEF Expire
<1>3. Closed(s[r], "expired").status # "approved" /\ NoRec.status # "approved"
  BY <1>1, ClosedFacts, NoRecFacts DEF Status
<1>4. ~ Lapsed(s[r])
  BY <1>2, <1>3
<1>5. Expire(s)[r] = s[r]
  BY <1>3, ExpireCases
<1>6. QED BY <1>1, <1>4, <1>5 DEF Lapsed, Record

\* Before and after an ageing and a change of the aged store, age it again.
LEMMA ChangeFollows ==
  ASSUME IInv, NEW s2, s2 \in [Ids -> Record],
         \A r \in Ids : Follows(Expire(reqs)[r], s2[r], r)
  PROVE  \A r \in Ids : Follows(reqs[r], Expire(s2)[r], r)
<1> SUFFICES ASSUME NEW r \in Ids PROVE Follows(reqs[r], Expire(s2)[r], r)
  OBVIOUS
<1>1. /\ Follows(reqs[r], Expire(reqs)[r], r)
      /\ Follows(s2[r], Expire(s2)[r], r)
  BY ExpireFollows DEF IInv, TypeOK
<1>2. /\ reqs[r] \in Record /\ Expire(reqs)[r] \in Record
      /\ s2[r] \in Record /\ Expire(s2)[r] \in Record
  BY ExpireType DEF IInv, TypeOK
<1>3. Follows(reqs[r], s2[r], r)
  BY <1>1, <1>2, HandedOut, FollowsTransitive
<1>4. QED BY <1>1, <1>2, <1>3, HandedOut, FollowsTransitive

\* Spending what opens for a call, consume() and wait().
LEMMA GrantFollows ==
  ASSUME IInv, NEW q \in Ids, NEW c \in Calls \cup {NoCall},
         Opens(Expire(reqs)[q], c),
         reqs' = Expire([Expire(reqs) EXCEPT ![q] = Spend(@, c)])
  PROVE  \A r \in Ids : Follows(reqs[r], reqs'[r], r)
<1> DEFINE s  == Expire(reqs)
           s2 == [s EXCEPT ![q] = Spend(@, c)]
<1>1. reqs \in [Ids -> Record] /\ s \in [Ids -> Record]
  BY ExpireType DEF IInv, TypeOK
<1>2. /\ Spend(s[q], c) \in Record /\ Spend(s[q], c).status = "used"
      /\ s[q].status = "used" => Spend(s[q], c) = s[q]
  BY <1>1, SpendFacts
<1>3. s[q].status = "approved" => s[q].valid >= 0
  BY <1>1, ApprovedIsValid
<1>4. s2 \in [Ids -> Record]
  BY <1>1, <1>2
<1>5. s[q].status \in {"approved", "used"}
  BY DEF Opens
<1> HIDE DEF s
<1>6. ASSUME NEW r \in Ids PROVE Follows(s[r], s2[r], r)
  <2>1. CASE r = q
    BY <1>1, <1>2, <1>3, <1>5, <2>1 DEF Follows
  <2>2. CASE r # q
    BY <1>1, <2>2, FollowsReflexive
  <2>3. QED BY <2>1, <2>2
<1>7. \A r \in Ids : Follows(reqs[r], Expire(s2)[r], r)
  BY <1>1, <1>4, <1>6, ChangeFollows DEF s
<1>8. QED BY <1>7 DEF s

LEMMA RequestFollows ==
  ASSUME IInv, NEW h \in Hooks, Request(h)
  PROVE  \A r \in Ids : Follows(reqs[r], reqs'[r], r)
<1> DEFINE s    == Expire(reqs)
           mine == PendingFor(s, fp[h])
<1>1. PICK q \in IF mine # {} THEN Oldest(mine) ELSE {lastId + 1} \cap Ids :
        reqs' = Expire([s EXCEPT ![q] =
             [status |-> "pending", fp |-> fp[h], usedBy |-> @.usedBy,
              age |-> @.age, valid |-> @.valid, waiting |-> HoldFor]])
  BY DEF Request
<1> DEFINE rec == [status |-> "pending", fp |-> fp[h], usedBy |-> s[q].usedBy,
                   age |-> s[q].age, valid |-> s[q].valid, waiting |-> HoldFor]
           s2  == [s EXCEPT ![q] = rec]
<1>2. /\ reqs \in [Ids -> Record] /\ s \in [Ids -> Record] /\ fp[h] \in Fps \cup {NoFp}
      /\ lastId \in Nat /\ HoldFor \in Nat
  BY ExpireType, ConstantsAssumption DEF IInv, TypeOK
<1>3. q \in Ids /\ (s[q].status = "pending" \/ q > lastId)
  <2>1. CASE mine # {}
    BY <1>1, <2>1 DEF Oldest, PendingFor
  <2>2. CASE mine = {}
    BY <1>1, <1>2, <2>2
  <2>3. QED BY <2>1, <2>2
<1>4. s[q].status \in {"pending", "none"}
  <2>1. CASE s[q].status = "pending"
    BY <2>1
  <2>2. CASE q > lastId
    <3>1. s[q] = NoRec
      BY <1>3, <2>2, NowInv DEF Now, StoreGood
    <3>2. QED BY <3>1, NoRecFacts
  <2>3. QED BY <1>3, <2>1, <2>2
<1>5. s2 \in [Ids -> Record] /\ rec.status = "pending"
  BY <1>2, <1>3 DEF Record, Status
<1>6. reqs' = Expire(s2)
  BY <1>1
<1> HIDE DEF s, rec, mine
<1>7. ASSUME NEW r \in Ids PROVE Follows(s[r], s2[r], r)
  <2>1. CASE r = q
    BY <1>2, <1>3, <1>4, <1>5, <2>1 DEF Follows
  <2>2. CASE r # q
    BY <1>2, <2>2, FollowsReflexive
  <2>3. QED BY <2>1, <2>2
<1>8. QED BY <1>2, <1>5, <1>6, <1>7, ChangeFollows DEF s

LEMMA DecideFollows ==
  ASSUME IInv, NEW q \in Ids, NEW approve \in BOOLEAN, Decide(q, approve)
  PROVE  \A r \in Ids : Follows(reqs[r], reqs'[r], r)
<1> DEFINE s   == Expire(reqs)
           rec == IF approve THEN [Closed(s[q], "approved") EXCEPT !.valid = ApprovedTTL]
                  ELSE Closed(s[q], "denied")
           s2  == [s EXCEPT ![q] = rec]
<1>1. reqs \in [Ids -> Record] /\ s \in [Ids -> Record]
  BY ExpireType DEF IInv, TypeOK
<1>2. s[q].status = "pending" /\ reqs' = Expire(s2)
  BY DEF Decide
<1>3. rec \in Record
  BY <1>1, ConstantsAssumption DEF Closed, Record, Status
<1>4. s2 \in [Ids -> Record]
  BY <1>1, <1>3
<1> HIDE DEF s, rec
<1>5. ASSUME NEW r \in Ids PROVE Follows(s[r], s2[r], r)
  <2>1. CASE r = q
    BY <1>1, <1>2, <1>3, <2>1 DEF Follows
  <2>2. CASE r # q
    BY <1>1, <2>2, FollowsReflexive
  <2>3. QED BY <2>1, <2>2
<1>6. QED BY <1>1, <1>2, <1>4, <1>5, ChangeFollows DEF s

\* A change of the store as it was, then an ageing.
LEMMA EditFollows ==
  ASSUME IInv, NEW s2, s2 \in [Ids -> Record],
         \A r \in Ids : Follows(reqs[r], s2[r], r)
  PROVE  \A r \in Ids : Follows(reqs[r], Expire(s2)[r], r)
<1> SUFFICES ASSUME NEW r \in Ids PROVE Follows(reqs[r], Expire(s2)[r], r)
  OBVIOUS
<1>1. Follows(reqs[r], s2[r], r) /\ Follows(s2[r], Expire(s2)[r], r)
  BY ExpireFollows
<1>2. reqs[r] \in Record /\ s2[r] \in Record /\ Expire(s2)[r] \in Record
  BY ExpireType DEF IInv, TypeOK
<1>3. QED BY <1>1, <1>2, HandedOut, FollowsTransitive

\* Steps that only age the store, or close what waits in it.
LEMMA AgeingFollows ==
  ASSUME IInv, NEW h \in Hooks,
         \/ ConsumeMiss(h) \/ PollRefused(h) \/ PollAgain(h)
         \/ GiveUp(h) \/ ResolveClose(h)
  PROVE  \A r \in Ids : Follows(reqs[r], reqs'[r], r)
<1>1. reqs \in [Ids -> Record] /\ Expire(reqs) \in [Ids -> Record]
  BY ExpireType DEF IInv, TypeOK
<1>2. CASE ConsumeMiss(h) \/ PollRefused(h) \/ PollAgain(h)
  <2>1. reqs' = Expire(Expire(reqs))
    BY <1>2 DEF ConsumeMiss, PollRefused, PollAgain
  <2>2. \A r \in Ids : Follows(reqs[r], Expire(reqs)[r], r)
    BY <1>1, ExpireFollows
  <2>3. QED BY <1>1, <2>1, <2>2, EditFollows
<1>3. CASE GiveUp(h)
  <2> DEFINE s2 == [reqs EXCEPT ![rid[h]].waiting = 0]
  <2>1. ASSUME NEW r \in Ids
        PROVE  /\ s2[r] \in Record
               /\ s2[r].status = reqs[r].status /\ s2[r].valid = reqs[r].valid
    <3>1. CASE r = rid[h]
      <4>1. s2[r] = [reqs[r] EXCEPT !.waiting = 0]
        BY <1>1, <3>1
      <4>2. reqs[r] \in Record
        BY <1>1
      <4>3. QED BY <4>1, <4>2 DEF Record
    <3>2. CASE r # rid[h]
      BY <1>1, <3>2
    <3>3. QED BY <3>1, <3>2
  <2>2. s2 \in [Ids -> Record]
    BY <1>1, <2>1
  <2>3. reqs' = Expire(s2)
    BY <1>3 DEF GiveUp
  <2> HIDE DEF s2
  <2>4. ASSUME NEW r \in Ids PROVE Follows(reqs[r], s2[r], r)
    BY <1>1, <2>1, FollowsReflexive DEF Follows
  <2>5. QED BY <1>1, <2>2, <2>3, <2>4, EditFollows
<1>4. CASE ResolveClose(h)
  <2> DEFINE s2 == [r \in Ids |-> IF r \in PendingFor(reqs, fp[h])
                                  THEN Closed(reqs[r], "resolved") ELSE reqs[r]]
  <2>1. ASSUME NEW r \in Ids
        PROVE  s2[r] \in Record /\ (s2[r] = reqs[r] \/ reqs[r].status = "pending")
    BY <1>1, ClosedFacts DEF PendingFor, Status
  <2>2. s2 \in [Ids -> Record]
    BY <2>1
  <2>3. reqs' = Expire(s2)
    BY <1>4 DEF ResolveClose
  <2> HIDE DEF s2
  <2>4. ASSUME NEW r \in Ids PROVE Follows(reqs[r], s2[r], r)
    BY <1>1, <2>1, FollowsReflexive DEF Follows
  <2>5. QED BY <1>1, <2>2, <2>3, <2>4, EditFollows
<1>5. QED BY <1>2, <1>3, <1>4

\* Every step either follows the rule record by record, or keeps every status.
LEMMA StepFollows ==
  ASSUME IInv, [Next]_vars
  PROVE  \/ \A r \in Ids : Follows(reqs[r], reqs'[r], r)
         \/ \A r \in Ids : reqs'[r].status = reqs[r].status
<1>1. reqs \in [Ids -> Record]
  BY DEF IInv, TypeOK
<1>2. ASSUME NEW h \in Hooks, ConsumeHit(h)
      PROVE  \A r \in Ids : Follows(reqs[r], reqs'[r], r)
  <2>1. PICK q \in Oldest(Matching(Expire(reqs), fp[h], call[h])) :
          reqs' = Expire([Expire(reqs) EXCEPT ![q] = Spend(@, call[h])])
    BY <1>2 DEF ConsumeHit
  <2>2. q \in Ids /\ Opens(Expire(reqs)[q], call[h])
    BY <2>1 DEF Oldest, Matching
  <2>3. call[h] \in Calls \cup {NoCall}
    BY DEF IInv, TypeOK
  <2>4. QED BY <2>1, <2>2, <2>3, GrantFollows
<1>3. ASSUME NEW h \in Hooks, PollGranted(h)
      PROVE  \A r \in Ids : Follows(reqs[r], reqs'[r], r)
  <2>1. /\ reqs' = Expire([Expire(reqs) EXCEPT ![rid[h]] = Spend(@, call[h])])
        /\ Opens(Expire(reqs)[rid[h]], call[h]) /\ pc[h] = "asleep"
    BY <1>3 DEF PollGranted
  <2>2. rid[h] \in Ids
    BY <2>1 DEF IInv, HooksGood, Holding
  <2>3. call[h] \in Calls \cup {NoCall}
    BY DEF IInv, TypeOK
  <2>4. QED BY <2>1, <2>2, <2>3, GrantFollows
<1>4. ASSUME NEW h \in Hooks,
             \/ Request(h) \/ ConsumeMiss(h) \/ PollRefused(h) \/ PollAgain(h)
             \/ GiveUp(h) \/ ResolveClose(h)
      PROVE  \A r \in Ids : Follows(reqs[r], reqs'[r], r)
  BY <1>4, RequestFollows, AgeingFollows
<1>5. ASSUME NEW h \in Hooks,
             \/ ScreenBlocked(h) \/ ScreenAllowed(h) \/ Sleep(h) \/ ResolvePeek(h)
             \/ Exit(h) \/ Kill(h)
      PROVE  reqs' = reqs
  BY <1>5 DEF ScreenBlocked, ScreenAllowed, Screen, Sleep, ResolvePeek, Exit, Kill, store
<1>6. ASSUME NEW q \in Ids, NEW approve \in BOOLEAN, Decide(q, approve)
      PROVE  \A r \in Ids : Follows(reqs[r], reqs'[r], r)
  BY <1>6, DecideFollows
<1>7. CASE Touch
  <2>1. reqs' = Expire(Expire(reqs)) /\ Expire(reqs) \in [Ids -> Record]
    BY <1>1, <1>7, ExpireType DEF Touch
  <2>2. \A r \in Ids : Follows(reqs[r], Expire(reqs)[r], r)
    BY <1>1, ExpireFollows
  <2>3. QED BY <1>1, <2>1, <2>2, EditFollows
<1>8. CASE Tick
  <2>1. \A r \in Ids : reqs'[r].status = reqs[r].status
    BY <1>1, <1>8, AgedFacts DEF Tick
  <2>2. QED BY <2>1
<1>9. CASE UNCHANGED vars
  BY <1>9 DEF vars
<1>10. QED BY <1>2, <1>3, <1>4, <1>5, <1>6, <1>7, <1>8, <1>9 DEF Next, HookStep

\* consume() and wait() spend an approval only before APPROVED_TTL is over.
THEOREM NeverSpentLate == Spec => SpentWhileValid
<1>1. ASSUME IInv, [Next]_vars
      PROVE  \A r \in Ids :
               reqs[r].status = "approved" /\ reqs'[r].status = "used"
                 => reqs[r].valid >= 0
  BY <1>1, StepFollows DEF Follows
<1>2. QED BY <1>1, Invariance, PTL DEF Spec, SpentWhileValid

\* No interleaving reopens what a person, a call or the clock has settled.
THEOREM SettledStaysSettled == Spec => DecisionIsFinal
<1> DEFINE Final == \A r \in Ids :
       LET was == reqs[r].status
           is  == reqs'[r].status
       IN  /\ was \in {"denied", "used", "expired", "resolved"} => is \in {was, "none"}
           /\ was = "approved" => is \in {"approved", "used", "expired", "none"}
           /\ was = "none" /\ is # "none" => r > lastId
<1>1. ASSUME IInv, [Next]_vars
      PROVE  Final
  BY <1>1, StepFollows DEF Follows
<1>2. QED BY <1>1, Invariance, PTL DEF Spec, DecisionIsFinal
=============================================================================
