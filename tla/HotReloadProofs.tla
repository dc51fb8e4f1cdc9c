--------------------------- MODULE HotReloadProofs ---------------------------
(***************************************************************************)
(* Proofs about HotReload, for any number of handlers, connections,         *)
(* configurations and words.  None of the properties is inductive: they     *)
(* rest on IInv, which says what the read-write lock excludes and how far   *)
(* a reload that holds it has come.                                         *)
(***************************************************************************)
EXTENDS HotReload, TLAPS

\* The lock: who is inside, and that a store excludes every reader.
LockInv ==
  /\ readers = {p \in Sharers : pc[p] = "shared"}
  /\ \A r \in Reloaders : pc[r] \in {"drain", "store"} <=> writer = r
  /\ InStore => readers = {}

\* A reload past NewClient holds the number of a client that was built.
FreshInv ==
  \A r \in Reloaders : pc[r] \in {"lock", "drain", "store"} => fresh[r] \in 1..Len(clients)

\* During the store the client is already swapped, and the words not yet
\* stored are those of the client before it; otherwise they agree.
StoreInv ==
  /\ ClientMatchesConfig
  /\ InStore =>
       /\ oldClients /= <<>>
       /\ \A r \in Reloaders : pc[r] = "store" => fresh[r] = ssClient
       /\ \A w \in Words : config[w] = IF w \in todo THEN oldClients[Len(oldClients)]
                                                     ELSE ssClient

\* Requests begin in the past, and a reader that is already loading when a
\* reload stores began before that reload was installed.
SinceInv ==
  /\ \A p \in Readers \cup Dialers : since[p] <= Len(oldClients) + 1
  /\ InStore => \A g \in Readers : pc[g] = "load" => since[g] <= Len(oldClients)

\* A reader has done at most the loads of handleConfig, and none before it
\* returned from GetConfig.
SeenInv ==
  \A g \in Readers : /\ Len(seen[g]) <= Len(LoadOrder)
                     /\ pc[g] /= "load" => seen[g] = <<>>

IInv == TypeOK /\ LockInv /\ FreshInv /\ StoreInv /\ SinceInv /\ SeenInv
          /\ NoLostClient /\ FreshDial /\ NoStaleField

-----------------------------------------------------------------------------
(* Facts about the words and the sets of goroutines.                        *)

\* handleConfig loads words of the struct, three of them PluginOpts.
LEMMA LoadOrderFacts ==
  /\ LoadOrder \in Seq(Words)
  /\ Len(LoadOrder) = Len(StringWords) + 3
  /\ \A n \in 1..Len(LoadOrder) : LoadOrder[n] \in Words
<1>1. ASSUME NEW S, NEW w \in S
      PROVE  <<w, w, w>> \in Seq(S) /\ Len(<<w, w, w>>) = 3
  OBVIOUS
<1>2. <<"opts", "opts", "opts">> \in Seq(Words) /\ Len(<<"opts", "opts", "opts">>) = 3
  BY <1>1, WordAssumption
<1> QED
  BY <1>2, WordAssumption DEF LoadOrder

\* The handlers of reloads never take the read lock.
LEMMA ProcFacts ==
  /\ Reloaders \cap Sharers = {} /\ NoReloader \notin Reloaders
  /\ Reloaders \subseteq Procs /\ Readers \subseteq Procs /\ Dialers \subseteq Procs
  /\ Sharers \subseteq Procs /\ LiveDialers \subseteq Dialers
BY ProcAssumption DEF Sharers, Procs, Dialers

-----------------------------------------------------------------------------
\* Every step keeps the types; NewClient's number reaches Swap in range.
LEMMA TypeStep ==
  ASSUME TypeOK, FreshInv, SeenInv, [Next]_vars
  PROVE  TypeOK'
<1> USE ProcFacts DEF TypeOK, Goto
<1>1. ASSUME NEW r \in Reloaders, NEW c \in Configs, RejectReload(r, c)
      PROVE  TypeOK'
  BY <1>1 DEF RejectReload, mgrVars, lockVars, useVars
<1>2. ASSUME NEW r \in Reloaders, NEW c \in Configs, HandleReload(r, c)
      PROVE  TypeOK'
  BY <1>2 DEF HandleReload, mgrVars, lockVars, useVars
<1>3. ASSUME NEW r \in Reloaders, NewClient(r)
      PROVE  TypeOK'
  BY <1>3 DEF NewClient, lockVars, useVars
<1>4. ASSUME NEW r \in Reloaders, NewClientFails(r)
      PROVE  TypeOK'
  BY <1>4 DEF NewClientFails, mgrVars, lockVars, useVars
<1>5. ASSUME NEW r \in Reloaders, Lock(r)
      PROVE  TypeOK'
  BY <1>5 DEF Lock, mgrVars, reqVars, useVars
<1>6. ASSUME NEW r \in Reloaders, Swap(r)
      PROVE  TypeOK'
  BY <1>6 DEF Swap, lockVars, useVars, FreshInv
<1>7. ASSUME NEW r \in Reloaders, NEW w \in Words, StoreWord(r, w)
      PROVE  TypeOK'
  BY <1>7 DEF StoreWord, lockVars, useVars
<1>8. ASSUME NEW r \in Reloaders, Unlock(r)
      PROVE  TypeOK'
  BY <1>8 DEF Unlock, mgrVars, useVars
<1>9. ASSUME NEW p \in Sharers, RLock(p)
      PROVE  TypeOK'
  BY <1>9 DEF RLock, mgrVars, reqVars, useVars
<1>10. ASSUME NEW p \in Sharers, Park(p)
       PROVE  TypeOK'
  BY <1>10 DEF Park, mgrVars, lockVars, reqVars, useVars
<1>11. ASSUME NEW d \in Dialers, AcceptLive(d) \/ AcceptCaptured(d)
       PROVE  TypeOK'
  <2>1. since' = [since EXCEPT ![d] = Len(oldClients) + 1]
    BY <1>11 DEF AcceptLive, AcceptCaptured, Begin, Installed
  <2>2. since' \in [Readers \cup Dialers -> Nat]
    BY <2>1
  <2>3. CASE AcceptLive(d)
    BY <2>2, <2>3 DEF AcceptLive, Begin, mgrVars, lockVars, reqVars
  <2>4. CASE AcceptCaptured(d)
    BY <2>2, <2>4 DEF AcceptCaptured, Begin, mgrVars, lockVars, reqVars
  <2> QED
    BY <1>11, <2>3, <2>4
<1>12. ASSUME NEW d \in LiveDialers, GetSSClient(d)
       PROVE  TypeOK'
  BY <1>12 DEF GetSSClient, mgrVars, reqVars
<1>13. ASSUME NEW d \in Dialers, DialOk(d) \/ Close(d)
       PROVE  TypeOK'
  <2>1. CASE DialOk(d)
    BY <2>1 DEF DialOk, mgrVars, lockVars, reqVars, useVars
  <2>2. CASE Close(d)
    BY <2>2 DEF Close, mgrVars, lockVars, reqVars
  <2> QED
    BY <1>13, <2>1, <2>2
<1>14. ASSUME NEW g \in Readers, HandleConfig(g)
       PROVE  TypeOK'
  BY <1>14 DEF HandleConfig, Begin, Installed, mgrVars, lockVars, reqVars
<1>15. ASSUME NEW g \in Readers, GetConfig(g)
       PROVE  TypeOK'
  BY <1>15 DEF GetConfig, mgrVars, reqVars, useVars
<1>16. ASSUME NEW g \in Readers, Load(g)
       PROVE  TypeOK'
  BY <1>16, LoadOrderFacts DEF Load, SeenInv, Answerable, mgrVars, lockVars, reqVars
<1>17. ASSUME NEW g \in Readers, FinishConfig(g)
       PROVE  TypeOK'
  BY <1>17 DEF FinishConfig, mgrVars, lockVars, reqVars
<1>18. CASE UNCHANGED vars
  BY <1>18 DEF vars, mgrVars, lockVars, reqVars, useVars
<1> QED
  BY <1>1, <1>2, <1>3, <1>4, <1>5, <1>6, <1>7, <1>8, <1>9, <1>10, <1>11, <1>12,
     <1>13, <1>14, <1>15, <1>16, <1>17, <1>18
  DEF Next, Reload, Dialing, Reading, Sharers

\* Readers are inside only without a store, and one writer at a time.
\* Readers are inside only without a store, and one writer at a time.
LEMMA LockStep ==
  ASSUME TypeOK, LockInv, [Next]_vars
  PROVE  LockInv'
<1> USE ProcFacts DEF TypeOK, Goto, LockInv, InStore
<1>1. ASSUME NEW r \in Reloaders, NEW c \in Configs, RejectReload(r, c)
      PROVE  LockInv'
  BY <1>1 DEF RejectReload, lockVars, mgrVars, useVars
<1>2. ASSUME NEW r \in Reloaders, NEW c \in Configs, HandleReload(r, c)
      PROVE  LockInv'
  BY <1>2 DEF HandleReload, lockVars, mgrVars, useVars
<1>3. ASSUME NEW r \in Reloaders, NewClient(r)
      PROVE  LockInv'
  BY <1>3 DEF NewClient, lockVars, useVars
<1>4. ASSUME NEW r \in Reloaders, NewClientFails(r)
      PROVE  LockInv'
  BY <1>4 DEF NewClientFails, lockVars, mgrVars, useVars
<1>5. ASSUME NEW r \in Reloaders, Lock(r)
      PROVE  LockInv'
  BY <1>5 DEF Lock, mgrVars, reqVars, useVars
<1>6. ASSUME NEW r \in Reloaders, Swap(r)
      PROVE  LockInv'
  BY <1>6 DEF Swap, lockVars, useVars
<1>7. ASSUME NEW r \in Reloaders, NEW w \in Words, StoreWord(r, w)
      PROVE  LockInv'
  BY <1>7 DEF StoreWord, lockVars, useVars
<1>8. ASSUME NEW r \in Reloaders, Unlock(r)
      PROVE  LockInv'
  BY <1>8 DEF Unlock, mgrVars, useVars
<1>9. ASSUME NEW p \in Sharers, RLock(p)
      PROVE  LockInv'
  BY <1>9 DEF RLock, mgrVars, reqVars, useVars
<1>10. ASSUME NEW p \in Sharers, Park(p)
       PROVE  LockInv'
  BY <1>10 DEF Park, mgrVars, lockVars, reqVars, useVars
<1>11. ASSUME NEW d \in LiveDialers, AcceptLive(d)
       PROVE  LockInv'
  BY <1>11 DEF AcceptLive, Begin, mgrVars, lockVars, reqVars
<1>12. ASSUME NEW d \in LiveDialers, GetSSClient(d)
       PROVE  LockInv'
  BY <1>12 DEF GetSSClient, mgrVars, reqVars
<1>13. ASSUME NEW d \in CapturedDialers, AcceptCaptured(d)
       PROVE  LockInv'
  BY <1>13 DEF AcceptCaptured, Begin, mgrVars, lockVars, reqVars
<1>14. ASSUME NEW d \in Dialers, DialOk(d)
       PROVE  LockInv'
  BY <1>14 DEF DialOk, mgrVars, lockVars, reqVars, useVars
<1>15. ASSUME NEW d \in Dialers, Close(d)
       PROVE  LockInv'
  BY <1>15 DEF Close, mgrVars, lockVars, reqVars
<1>16. ASSUME NEW g \in Readers, HandleConfig(g)
       PROVE  LockInv'
  BY <1>16 DEF HandleConfig, Begin, mgrVars, lockVars, reqVars
<1>17. ASSUME NEW g \in Readers, GetConfig(g)
       PROVE  LockInv'
  BY <1>17 DEF GetConfig, mgrVars, reqVars, useVars
<1>18. ASSUME NEW g \in Readers, Load(g)
       PROVE  LockInv'
  BY <1>18 DEF Load, mgrVars, lockVars, reqVars
<1>19. ASSUME NEW g \in Readers, FinishConfig(g)
       PROVE  LockInv'
  BY <1>19 DEF FinishConfig, mgrVars, lockVars, reqVars
<1>20. CASE UNCHANGED vars
  BY <1>20 DEF vars, mgrVars, lockVars, reqVars, useVars
<1> QED
  BY <1>1, <1>2, <1>3, <1>4, <1>5, <1>6, <1>7, <1>8, <1>9, <1>10, <1>11,
     <1>12, <1>13, <1>14, <1>15, <1>16, <1>17, <1>18, <1>19, <1>20
  DEF Next, Reload, Dialing, Reading, Sharers

\* A client once built keeps its number, and the number stays in range.
LEMMA FreshStep ==
  ASSUME TypeOK, FreshInv, [Next]_vars
  PROVE  FreshInv'
<1> USE ProcFacts DEF TypeOK, Goto, FreshInv
<1>1. ASSUME NEW r \in Reloaders, NEW c \in Configs, RejectReload(r, c)
      PROVE  FreshInv'
  BY <1>1 DEF RejectReload, lockVars, mgrVars, useVars
<1>2. ASSUME NEW r \in Reloaders, NEW c \in Configs, HandleReload(r, c)
      PROVE  FreshInv'
  BY <1>2 DEF HandleReload, lockVars, mgrVars, useVars
<1>3. ASSUME NEW r \in Reloaders, NewClient(r)
      PROVE  FreshInv'
  BY <1>3 DEF NewClient, lockVars, useVars
<1>4. ASSUME NEW r \in Reloaders, NewClientFails(r)
      PROVE  FreshInv'
  BY <1>4 DEF NewClientFails, lockVars, mgrVars, useVars
<1>5. ASSUME NEW r \in Reloaders, Lock(r)
      PROVE  FreshInv'
  BY <1>5 DEF Lock, mgrVars, reqVars, useVars
<1>6. ASSUME NEW r \in Reloaders, Swap(r)
      PROVE  FreshInv'
  BY <1>6 DEF Swap, lockVars, useVars
<1>7. ASSUME NEW r \in Reloaders, NEW w \in Words, StoreWord(r, w)
      PROVE  FreshInv'
  BY <1>7 DEF StoreWord, lockVars, useVars
<1>8. ASSUME NEW r \in Reloaders, Unlock(r)
      PROVE  FreshInv'
  BY <1>8 DEF Unlock, mgrVars, useVars
<1>9. ASSUME NEW p \in Sharers, RLock(p)
      PROVE  FreshInv'
  BY <1>9 DEF RLock, mgrVars, reqVars, useVars
<1>10. ASSUME NEW p \in Sharers, Park(p)
       PROVE  FreshInv'
  BY <1>10 DEF Park, mgrVars, lockVars, reqVars, useVars
<1>11. ASSUME NEW d \in LiveDialers, AcceptLive(d)
       PROVE  FreshInv'
  BY <1>11 DEF AcceptLive, Begin, mgrVars, lockVars, reqVars
<1>12. ASSUME NEW d \in LiveDialers, GetSSClient(d)
       PROVE  FreshInv'
  BY <1>12 DEF GetSSClient, mgrVars, reqVars
<1>13. ASSUME NEW d \in CapturedDialers, AcceptCaptured(d)
       PROVE  FreshInv'
  BY <1>13 DEF AcceptCaptured, Begin, mgrVars, lockVars, reqVars
<1>14. ASSUME NEW d \in Dialers, DialOk(d)
       PROVE  FreshInv'
  BY <1>14 DEF DialOk, mgrVars, lockVars, reqVars, useVars
<1>15. ASSUME NEW d \in Dialers, Close(d)
       PROVE  FreshInv'
  BY <1>15 DEF Close, mgrVars, lockVars, reqVars
<1>16. ASSUME NEW g \in Readers, HandleConfig(g)
       PROVE  FreshInv'
  BY <1>16 DEF HandleConfig, Begin, mgrVars, lockVars, reqVars
<1>17. ASSUME NEW g \in Readers, GetConfig(g)
       PROVE  FreshInv'
  BY <1>17 DEF GetConfig, mgrVars, reqVars, useVars
<1>18. ASSUME NEW g \in Readers, Load(g)
       PROVE  FreshInv'
  BY <1>18 DEF Load, mgrVars, lockVars, reqVars
<1>19. ASSUME NEW g \in Readers, FinishConfig(g)
       PROVE  FreshInv'
  BY <1>19 DEF FinishConfig, mgrVars, lockVars, reqVars
<1>20. CASE UNCHANGED vars
  BY <1>20 DEF vars, mgrVars, lockVars, reqVars, useVars
<1> QED
  BY <1>1, <1>2, <1>3, <1>4, <1>5, <1>6, <1>7, <1>8, <1>9, <1>10, <1>11,
     <1>12, <1>13, <1>14, <1>15, <1>16, <1>17, <1>18, <1>19, <1>20
  DEF Next, Reload, Dialing, Reading, Sharers

\* The words are stored one by one between the swap and the unlock.
LEMMA StoreStep ==
  ASSUME TypeOK, LockInv, FreshInv, StoreInv, [Next]_vars
  PROVE  StoreInv'
<1> USE ProcFacts DEF TypeOK, Goto, LockInv, StoreInv, ClientMatchesConfig, InStore
<1>1. ASSUME NEW r \in Reloaders, NEW c \in Configs, RejectReload(r, c)
      PROVE  StoreInv'
  BY <1>1 DEF RejectReload, lockVars, mgrVars, useVars
<1>2. ASSUME NEW r \in Reloaders, NEW c \in Configs, HandleReload(r, c)
      PROVE  StoreInv'
  BY <1>2 DEF HandleReload, lockVars, mgrVars, useVars
<1>3. ASSUME NEW r \in Reloaders, NewClient(r)
      PROVE  StoreInv'
  BY <1>3 DEF NewClient, lockVars, useVars
<1>4. ASSUME NEW r \in Reloaders, NewClientFails(r)
      PROVE  StoreInv'
  BY <1>4 DEF NewClientFails, lockVars, mgrVars, useVars
<1>5. ASSUME NEW r \in Reloaders, Lock(r)
      PROVE  StoreInv'
  BY <1>5 DEF Lock, mgrVars, reqVars, useVars
<1>6. ASSUME NEW r \in Reloaders, Swap(r)
      PROVE  StoreInv'
  <2>1. ~InStore
    BY <1>6 DEF Swap
  <2>2. \A w \in Words : config'[w] = ssClient /\ oldClients'[Len(oldClients')] = ssClient
    BY <1>6, <2>1 DEF Swap
  <2>3. oldClients' /= <<>> /\ todo' = Words /\ pc'[r] = "store"
    BY <1>6 DEF Swap
  <2>4. \A q \in Reloaders : pc'[q] = "store" => fresh'[q] = ssClient'
    BY <1>6, <2>1 DEF Swap
  <2> QED
    BY <2>2, <2>3, <2>4
<1>7. ASSUME NEW r \in Reloaders, NEW w \in Words, StoreWord(r, w)
      PROVE  StoreInv'
  BY <1>7 DEF StoreWord, lockVars, useVars
<1>8. ASSUME NEW r \in Reloaders, Unlock(r)
      PROVE  StoreInv'
  BY <1>8 DEF Unlock, mgrVars, useVars
<1>9. ASSUME NEW p \in Sharers, RLock(p)
      PROVE  StoreInv'
  BY <1>9 DEF RLock, mgrVars, reqVars, useVars
<1>10. ASSUME NEW p \in Sharers, Park(p)
       PROVE  StoreInv'
  BY <1>10 DEF Park, mgrVars, lockVars, reqVars, useVars
<1>11. ASSUME NEW d \in LiveDialers, AcceptLive(d)
       PROVE  StoreInv'
  BY <1>11 DEF AcceptLive, Begin, mgrVars, lockVars, reqVars
<1>12. ASSUME NEW d \in LiveDialers, GetSSClient(d)
       PROVE  StoreInv'
  BY <1>12 DEF GetSSClient, mgrVars, reqVars
<1>13. ASSUME NEW d \in CapturedDialers, AcceptCaptured(d)
       PROVE  StoreInv'
  BY <1>13 DEF AcceptCaptured, Begin, mgrVars, lockVars, reqVars
<1>14. ASSUME NEW d \in Dialers, DialOk(d)
       PROVE  StoreInv'
  BY <1>14 DEF DialOk, mgrVars, lockVars, reqVars, useVars
<1>15. ASSUME NEW d \in Dialers, Close(d)
       PROVE  StoreInv'
  BY <1>15 DEF Close, mgrVars, lockVars, reqVars
<1>16. ASSUME NEW g \in Readers, HandleConfig(g)
       PROVE  StoreInv'
  BY <1>16 DEF HandleConfig, Begin, mgrVars, lockVars, reqVars
<1>17. ASSUME NEW g \in Readers, GetConfig(g)
       PROVE  StoreInv'
  BY <1>17 DEF GetConfig, mgrVars, reqVars, useVars
<1>18. ASSUME NEW g \in Readers, Load(g)
       PROVE  StoreInv'
  BY <1>18 DEF Load, mgrVars, lockVars, reqVars
<1>19. ASSUME NEW g \in Readers, FinishConfig(g)
       PROVE  StoreInv'
  BY <1>19 DEF FinishConfig, mgrVars, lockVars, reqVars
<1>20. CASE UNCHANGED vars
  BY <1>20 DEF vars, mgrVars, lockVars, reqVars, useVars
<1> QED
  BY <1>1, <1>2, <1>3, <1>4, <1>5, <1>6, <1>7, <1>8, <1>9, <1>10, <1>11,
     <1>12, <1>13, <1>14, <1>15, <1>16, <1>17, <1>18, <1>19, <1>20
  DEF Next, Reload, Dialing, Reading, Sharers

\* A reader that is loading when a reload stores began before its swap.
LEMMA SinceStep ==
  ASSUME TypeOK, LockInv, SinceInv, [Next]_vars
  PROVE  SinceInv'
<1> USE ProcFacts DEF TypeOK, Goto, LockInv, SinceInv, InStore, Installed
<1>1. ASSUME NEW r \in Reloaders, NEW c \in Configs, RejectReload(r, c)
      PROVE  SinceInv'
  BY <1>1 DEF RejectReload, lockVars, mgrVars, useVars
<1>2. ASSUME NEW r \in Reloaders, NEW c \in Configs, HandleReload(r, c)
      PROVE  SinceInv'
  BY <1>2 DEF HandleReload, lockVars, mgrVars, useVars
<1>3. ASSUME NEW r \in Reloaders, NewClient(r)
      PROVE  SinceInv'
  BY <1>3 DEF NewClient, lockVars, useVars
<1>4. ASSUME NEW r \in Reloaders, NewClientFails(r)
      PROVE  SinceInv'
  BY <1>4 DEF NewClientFails, lockVars, mgrVars, useVars
<1>5. ASSUME NEW r \in Reloaders, Lock(r)
      PROVE  SinceInv'
  BY <1>5 DEF Lock, mgrVars, reqVars, useVars
<1>6. ASSUME NEW r \in Reloaders, Swap(r)
      PROVE  SinceInv'
  BY <1>6 DEF Swap, lockVars, useVars
<1>7. ASSUME NEW r \in Reloaders, NEW w \in Words, StoreWord(r, w)
      PROVE  SinceInv'
  BY <1>7 DEF StoreWord, lockVars, useVars
<1>8. ASSUME NEW r \in Reloaders, Unlock(r)
      PROVE  SinceInv'
  BY <1>8 DEF Unlock, mgrVars, useVars
<1>9. ASSUME NEW p \in Sharers, RLock(p)
      PROVE  SinceInv'
  BY <1>9 DEF RLock, mgrVars, reqVars, useVars
<1>10. ASSUME NEW p \in Sharers, Park(p)
       PROVE  SinceInv'
  BY <1>10 DEF Park, mgrVars, lockVars, reqVars, useVars
<1>11. ASSUME NEW d \in LiveDialers, AcceptLive(d)
       PROVE  SinceInv'
  BY <1>11 DEF AcceptLive, Begin, mgrVars, lockVars, reqVars
<1>12. ASSUME NEW d \in LiveDialers, GetSSClient(d)
       PROVE  SinceInv'
  BY <1>12 DEF GetSSClient, mgrVars, reqVars
<1>13. ASSUME NEW d \in CapturedDialers, AcceptCaptured(d)
       PROVE  SinceInv'
  BY <1>13 DEF AcceptCaptured, Begin, mgrVars, lockVars, reqVars
<1>14. ASSUME NEW d \in Dialers, DialOk(d)
       PROVE  SinceInv'
  BY <1>14 DEF DialOk, mgrVars, lockVars, reqVars, useVars
<1>15. ASSUME NEW d \in Dialers, Close(d)
       PROVE  SinceInv'
  BY <1>15 DEF Close, mgrVars, lockVars, reqVars
<1>16. ASSUME NEW g \in Readers, HandleConfig(g)
       PROVE  SinceInv'
  BY <1>16 DEF HandleConfig, Begin, mgrVars, lockVars, reqVars
<1>17. ASSUME NEW g \in Readers, GetConfig(g)
       PROVE  SinceInv'
  <2>1. g \in readers
    BY <1>17 DEF GetConfig, Sharers
  <2>2. ~InStore'
    BY <1>17, <2>1 DEF GetConfig
  <2> QED
    BY <1>17, <2>2 DEF GetConfig, mgrVars, useVars
<1>18. ASSUME NEW g \in Readers, Load(g)
       PROVE  SinceInv'
  BY <1>18 DEF Load, mgrVars, lockVars, reqVars
<1>19. ASSUME NEW g \in Readers, FinishConfig(g)
       PROVE  SinceInv'
  BY <1>19 DEF FinishConfig, mgrVars, lockVars, reqVars
<1>20. CASE UNCHANGED vars
  BY <1>20 DEF vars, mgrVars, lockVars, reqVars, useVars
<1> QED
  BY <1>1, <1>2, <1>3, <1>4, <1>5, <1>6, <1>7, <1>8, <1>9, <1>10, <1>11,
     <1>12, <1>13, <1>14, <1>15, <1>16, <1>17, <1>18, <1>19, <1>20
  DEF Next, Reload, Dialing, Reading, Sharers

\* handleConfig does its loads in order and stops after the last.
LEMMA SeenStep ==
  ASSUME TypeOK, SeenInv, [Next]_vars
  PROVE  SeenInv'
<1> USE ProcFacts DEF TypeOK, Goto, SeenInv
<1>1. ASSUME NEW r \in Reloaders, NEW c \in Configs, RejectReload(r, c)
      PROVE  SeenInv'
  BY <1>1 DEF RejectReload, lockVars, mgrVars, useVars
<1>2. ASSUME NEW r \in Reloaders, NEW c \in Configs, HandleReload(r, c)
      PROVE  SeenInv'
  BY <1>2 DEF HandleReload, lockVars, mgrVars, useVars
<1>3. ASSUME NEW r \in Reloaders, NewClient(r)
      PROVE  SeenInv'
  BY <1>3 DEF NewClient, lockVars, useVars
<1>4. ASSUME NEW r \in Reloaders, NewClientFails(r)
      PROVE  SeenInv'
  BY <1>4 DEF NewClientFails, lockVars, mgrVars, useVars
<1>5. ASSUME NEW r \in Reloaders, Lock(r)
      PROVE  SeenInv'
  BY <1>5 DEF Lock, mgrVars, reqVars, useVars
<1>6. ASSUME NEW r \in Reloaders, Swap(r)
      PROVE  SeenInv'
  BY <1>6 DEF Swap, lockVars, useVars
<1>7. ASSUME NEW r \in Reloaders, NEW w \in Words, StoreWord(r, w)
      PROVE  SeenInv'
  BY <1>7 DEF StoreWord, lockVars, useVars
<1>8. ASSUME NEW r \in Reloaders, Unlock(r)
      PROVE  SeenInv'
  BY <1>8 DEF Unlock, mgrVars, useVars
<1>9. ASSUME NEW p \in Sharers, RLock(p)
      PROVE  SeenInv'
  BY <1>9 DEF RLock, mgrVars, reqVars, useVars
<1>10. ASSUME NEW p \in Sharers, Park(p)
       PROVE  SeenInv'
  BY <1>10 DEF Park, mgrVars, lockVars, reqVars, useVars
<1>11. ASSUME NEW d \in LiveDialers, AcceptLive(d)
       PROVE  SeenInv'
  BY <1>11 DEF AcceptLive, Begin, mgrVars, lockVars, reqVars
<1>12. ASSUME NEW d \in LiveDialers, GetSSClient(d)
       PROVE  SeenInv'
  BY <1>12 DEF GetSSClient, mgrVars, reqVars
<1>13. ASSUME NEW d \in CapturedDialers, AcceptCaptured(d)
       PROVE  SeenInv'
  BY <1>13 DEF AcceptCaptured, Begin, mgrVars, lockVars, reqVars
<1>14. ASSUME NEW d \in Dialers, DialOk(d)
       PROVE  SeenInv'
  BY <1>14 DEF DialOk, mgrVars, lockVars, reqVars, useVars
<1>15. ASSUME NEW d \in Dialers, Close(d)
       PROVE  SeenInv'
  BY <1>15 DEF Close, mgrVars, lockVars, reqVars
<1>16. ASSUME NEW g \in Readers, HandleConfig(g)
       PROVE  SeenInv'
  BY <1>16 DEF HandleConfig, Begin, mgrVars, lockVars, reqVars
<1>17. ASSUME NEW g \in Readers, GetConfig(g)
       PROVE  SeenInv'
  BY <1>17 DEF GetConfig, mgrVars, reqVars, useVars
<1>18. ASSUME NEW g \in Readers, Load(g)
       PROVE  SeenInv'
  <2>1. Len(seen[g]) < Len(LoadOrder)
    BY <1>18, LoadOrderFacts DEF Load, Answerable
  <2> QED
    BY <1>18, <2>1, LoadOrderFacts DEF Load, mgrVars, lockVars, reqVars
<1>19. ASSUME NEW g \in Readers, FinishConfig(g)
       PROVE  SeenInv'
  BY <1>19 DEF FinishConfig, mgrVars, lockVars, reqVars
<1>20. CASE UNCHANGED vars
  BY <1>20 DEF vars, mgrVars, lockVars, reqVars, useVars
<1> QED
  BY <1>1, <1>2, <1>3, <1>4, <1>5, <1>6, <1>7, <1>8, <1>9, <1>10, <1>11,
     <1>12, <1>13, <1>14, <1>15, <1>16, <1>17, <1>18, <1>19, <1>20
  DEF Next, Reload, Dialing, Reading, Sharers

-----------------------------------------------------------------------------
(* The history of installed clients only grows.                             *)

\* Only Swap changes the current client or the old ones.
LEMMA HistoryStep ==
  ASSUME [Next]_vars
  PROVE  \/ UNCHANGED <<ssClient, oldClients>>
         \/ \E r \in Reloaders : Swap(r)
BY DEF Next, Reload, Dialing, Reading, RejectReload, HandleReload, NewClient,
       NewClientFails, Lock, StoreWord, Unlock, RLock, Park, AcceptLive,
       GetSSClient, AcceptCaptured, DialOk, Close, HandleConfig, GetConfig,
       Load, FinishConfig, vars, mgrVars

\* A client that was current since some time stays so: at Swap the client
\* that was current becomes the last of the old ones.
LEMMA CurrentSinceKept ==
  ASSUME TypeOK, [Next]_vars, NEW k, NEW s, CurrentSince(k, s)
  PROVE  CurrentSince(k, s)'
<1>1. CASE UNCHANGED <<ssClient, oldClients>>
  BY <1>1 DEF CurrentSince, Installed
<1>2. ASSUME NEW r \in Reloaders, Swap(r)
      PROVE  CurrentSince(k, s)'
  <2>1. oldClients' = Append(oldClients, ssClient)
    BY <1>2 DEF Swap
  <2>2. PICK i \in 1..Len(Installed) : i >= s /\ Installed[i] = k
    BY DEF CurrentSince
  <2>3. i \in 1..Len(Installed') /\ Installed'[i] = Installed[i]
    BY <2>1 DEF TypeOK, Installed
  <2> QED
    BY <2>2, <2>3 DEF CurrentSince
<1> QED
  BY <1>1, <1>2, HistoryStep

\* The current client is current since any time in the past.
LEMMA SSClientIsCurrent ==
  ASSUME TypeOK, NEW s, s <= Len(oldClients) + 1
  PROVE  CurrentSince(ssClient, s)
<1>1. Len(oldClients) + 1 \in 1..Len(Installed)
  BY DEF TypeOK, Installed
<1>2. Installed[Len(oldClients) + 1] = ssClient
  BY <1>1 DEF TypeOK, Installed
<1> QED
  BY <1>1, <1>2 DEF CurrentSince

\* So is the client before it, for a time before the current one was installed.
LEMMA LastOldIsCurrent ==
  ASSUME TypeOK, oldClients /= <<>>, NEW s, s <= Len(oldClients)
  PROVE  CurrentSince(oldClients[Len(oldClients)], s)
<1>1. Len(oldClients) \in 1..Len(Installed)
  BY DEF TypeOK, Installed
<1>2. Installed[Len(oldClients)] = oldClients[Len(oldClients)]
  BY <1>1 DEF TypeOK, Installed
<1> QED
  BY <1>1, <1>2 DEF CurrentSince

\* Steps that leave the history and the reloads that wait with a client alone.
LostQuiet ==
  /\ UNCHANGED <<clients, ssClient, oldClients>>
  /\ \A r \in Reloaders : (pc'[r] \in {"lock", "drain"}) <=> Waiting(r)
  /\ \A r \in Reloaders : Waiting(r) => fresh'[r] = fresh[r]

\* Only NewClient and Swap concern the history of clients.
LEMMA LostQuietStep ==
  ASSUME TypeOK, [Next]_vars
  PROVE  LostQuiet \/ \E q \in Reloaders : NewClient(q) \/ Swap(q)
<1> USE ProcFacts DEF TypeOK, Goto, LostQuiet, Waiting, Dialers, Sharers
<1>1. ASSUME NEW r \in Reloaders, NEW c \in Configs, RejectReload(r, c)
      PROVE  LostQuiet \/ \E q \in Reloaders : NewClient(q) \/ Swap(q)
  BY <1>1 DEF RejectReload, lockVars, mgrVars, useVars
<1>2. ASSUME NEW r \in Reloaders, NEW c \in Configs, HandleReload(r, c)
      PROVE  LostQuiet \/ \E q \in Reloaders : NewClient(q) \/ Swap(q)
  BY <1>2 DEF HandleReload, lockVars, mgrVars, useVars
<1>3. ASSUME NEW r \in Reloaders, NewClient(r)
      PROVE  LostQuiet \/ \E q \in Reloaders : NewClient(q) \/ Swap(q)
  BY <1>3
<1>4. ASSUME NEW r \in Reloaders, NewClientFails(r)
      PROVE  LostQuiet \/ \E q \in Reloaders : NewClient(q) \/ Swap(q)
  BY <1>4 DEF NewClientFails, lockVars, mgrVars, useVars
<1>5. ASSUME NEW r \in Reloaders, Lock(r)
      PROVE  LostQuiet \/ \E q \in Reloaders : NewClient(q) \/ Swap(q)
  BY <1>5 DEF Lock, mgrVars, reqVars, useVars
<1>6. ASSUME NEW r \in Reloaders, Swap(r)
      PROVE  LostQuiet \/ \E q \in Reloaders : NewClient(q) \/ Swap(q)
  BY <1>6
<1>7. ASSUME NEW r \in Reloaders, NEW w \in Words, StoreWord(r, w)
      PROVE  LostQuiet \/ \E q \in Reloaders : NewClient(q) \/ Swap(q)
  BY <1>7 DEF StoreWord, lockVars, useVars
<1>8. ASSUME NEW r \in Reloaders, Unlock(r)
      PROVE  LostQuiet \/ \E q \in Reloaders : NewClient(q) \/ Swap(q)
  BY <1>8, ProcAssumption DEF Unlock, mgrVars, useVars
<1>9. ASSUME NEW p \in Sharers, RLock(p)
      PROVE  LostQuiet \/ \E q \in Reloaders : NewClient(q) \/ Swap(q)
  BY <1>9, ProcAssumption DEF RLock, mgrVars, reqVars, useVars
<1>10. ASSUME NEW p \in Sharers, Park(p)
       PROVE  LostQuiet \/ \E q \in Reloaders : NewClient(q) \/ Swap(q)
  BY <1>10, ProcAssumption DEF Park, mgrVars, lockVars, reqVars, useVars
<1>11. ASSUME NEW d \in LiveDialers, AcceptLive(d)
       PROVE  LostQuiet \/ \E q \in Reloaders : NewClient(q) \/ Swap(q)
  BY <1>11, ProcAssumption DEF AcceptLive, Begin, mgrVars, lockVars, reqVars
<1>12. ASSUME NEW d \in LiveDialers, GetSSClient(d)
       PROVE  LostQuiet \/ \E q \in Reloaders : NewClient(q) \/ Swap(q)
  BY <1>12, ProcAssumption DEF GetSSClient, mgrVars, reqVars
<1>13. ASSUME NEW d \in CapturedDialers, AcceptCaptured(d)
       PROVE  LostQuiet \/ \E q \in Reloaders : NewClient(q) \/ Swap(q)
  BY <1>13, ProcAssumption DEF AcceptCaptured, Begin, mgrVars, lockVars, reqVars
<1>14. ASSUME NEW d \in Dialers, DialOk(d)
       PROVE  LostQuiet \/ \E q \in Reloaders : NewClient(q) \/ Swap(q)
  BY <1>14, ProcAssumption DEF DialOk, mgrVars, lockVars, reqVars, useVars
<1>15. ASSUME NEW d \in Dialers, Close(d)
       PROVE  LostQuiet \/ \E q \in Reloaders : NewClient(q) \/ Swap(q)
  BY <1>15, ProcAssumption DEF Close, mgrVars, lockVars, reqVars
<1>16. ASSUME NEW g \in Readers, HandleConfig(g)
       PROVE  LostQuiet \/ \E q \in Reloaders : NewClient(q) \/ Swap(q)
  BY <1>16, ProcAssumption DEF HandleConfig, Begin, mgrVars, lockVars, reqVars
<1>17. ASSUME NEW g \in Readers, GetConfig(g)
       PROVE  LostQuiet \/ \E q \in Reloaders : NewClient(q) \/ Swap(q)
  BY <1>17, ProcAssumption DEF GetConfig, mgrVars, reqVars, useVars
<1>18. ASSUME NEW g \in Readers, Load(g)
       PROVE  LostQuiet \/ \E q \in Reloaders : NewClient(q) \/ Swap(q)
  BY <1>18, ProcAssumption DEF Load, mgrVars, lockVars, reqVars
<1>19. ASSUME NEW g \in Readers, FinishConfig(g)
       PROVE  LostQuiet \/ \E q \in Reloaders : NewClient(q) \/ Swap(q)
  BY <1>19, ProcAssumption DEF FinishConfig, mgrVars, lockVars, reqVars
<1>20. CASE UNCHANGED vars
  BY <1>20 DEF vars, mgrVars, lockVars, reqVars, useVars
<1> QED
  BY <1>1, <1>2, <1>3, <1>4, <1>5, <1>6, <1>7, <1>8, <1>9, <1>10, <1>11,
     <1>12, <1>13, <1>14, <1>15, <1>16, <1>17, <1>18, <1>19, <1>20
  DEF Next, Reload, Dialing, Reading, Sharers

\* A built client moves from its reload to the history, once.
LEMMA LostStep ==
  ASSUME TypeOK, FreshInv, NoLostClient, [Next]_vars
  PROVE  NoLostClient'
<1>0. \A i \in 1..Len(Installed) : Installed[i] \in 1..Len(clients)
  BY DEF TypeOK, Installed
<1>1. CASE LostQuiet
  <2>1. Installed' = Installed /\ clients' = clients
    BY <1>1 DEF LostQuiet, Installed
  <2>2. \A r \in Reloaders : /\ Waiting(r)' <=> Waiting(r)
                             /\ Waiting(r) => fresh'[r] = fresh[r]
    BY <1>1 DEF LostQuiet, Waiting
  <2> QED
    BY <2>1, <2>2 DEF NoLostClient
<1>2. ASSUME NEW r \in Reloaders, NewClient(r)
      PROVE  NoLostClient'
  <2> DEFINE k == Len(clients) + 1
  <2>1. Installed' = Installed /\ Len(clients') = k /\ Len(clients) \in Nat
    BY <1>2 DEF NewClient, Installed, TypeOK
  <2>2. ~Waiting(r) /\ Waiting(r)' /\ fresh'[r] = k
    BY <1>2, ProcFacts DEF NewClient, Waiting, Goto, TypeOK
  <2>3. \A q \in Reloaders \ {r} : (Waiting(q)' <=> Waiting(q)) /\ fresh'[q] = fresh[q]
    BY <1>2, ProcFacts DEF NewClient, Waiting, Goto, TypeOK
  <2>4. \A q \in Reloaders : Waiting(q) => fresh[q] \in 1..Len(clients)
    BY DEF FreshInv, Waiting
  <2> HIDE DEF k
  <2>5. \A n \in 1..Len(clients') : n \in 1..Len(clients) \/ n = k
    BY <2>1 DEF k
  <2>6. k \notin 1..Len(clients)
    BY <2>1 DEF k
  <2>7. \A n \in 1..Len(clients') : \/ \E i \in 1..Len(Installed') : Installed'[i] = n
                                    \/ \E q \in Reloaders : Waiting(q)' /\ fresh'[q] = n
    <3> TAKE n \in 1..Len(clients')
    <3>1. CASE n = k
      BY <2>2, <3>1
    <3>2. CASE n \in 1..Len(clients) /\ \E i \in 1..Len(Installed) : Installed[i] = n
      BY <2>1, <3>2
    <3>3. CASE n \in 1..Len(clients) /\ \E q \in Reloaders : Waiting(q) /\ fresh[q] = n
      BY <2>2, <2>3, <3>3
    <3> QED
      BY <2>5, <3>1, <3>2, <3>3 DEF NoLostClient
  <2>8. \A i, j \in 1..Len(Installed') : Installed'[i] = Installed'[j] => i = j
    BY <2>1 DEF NoLostClient
  <2>9. \A p, q \in Reloaders : Waiting(p)' /\ Waiting(q)' /\ fresh'[p] = fresh'[q] => p = q
    BY <2>2, <2>3, <2>4, <2>6 DEF NoLostClient
  <2>10. \A i \in 1..Len(Installed'), q \in Reloaders : Waiting(q)' => Installed'[i] /= fresh'[q]
    BY <1>0, <2>1, <2>2, <2>3, <2>6 DEF NoLostClient
  <2> QED
    BY <2>7, <2>8, <2>9, <2>10 DEF NoLostClient
<1>3. ASSUME NEW r \in Reloaders, Swap(r)
      PROVE  NoLostClient'
  <2>1. Installed' = Append(Installed, fresh[r]) /\ clients' = clients /\ fresh' = fresh
    BY <1>3 DEF Swap, Installed
  <2>2. /\ Len(Installed) \in Nat /\ Len(Installed') = Len(Installed) + 1
        /\ \A i \in 1..Len(Installed) : Installed'[i] = Installed[i]
        /\ Installed'[Len(Installed) + 1] = fresh[r]
    <3>1. Installed \in Seq(Nat) /\ fresh[r] \in Nat
      BY DEF Installed, TypeOK
    <3> HIDE DEF Installed
    <3> QED
      BY <2>1, <3>1
  <2>3. Waiting(r) /\ ~Waiting(r)'
    BY <1>3, ProcFacts DEF Swap, Waiting, Goto, TypeOK
  <2>4. \A q \in Reloaders \ {r} : Waiting(q)' <=> Waiting(q)
    BY <1>3, ProcFacts DEF Swap, Waiting, Goto, TypeOK
  <2>5. \A i \in 1..Len(Installed') : i \in 1..Len(Installed) \/ i = Len(Installed) + 1
    BY <2>2
  <2>6. Len(Installed) + 1 \in 1..Len(Installed')
    BY <2>2
  <2>7. 1..Len(Installed) \subseteq 1..Len(Installed')
    BY <2>2
  <2>8. \A n \in 1..Len(clients') : \/ \E i \in 1..Len(Installed') : Installed'[i] = n
                                    \/ \E q \in Reloaders : Waiting(q)' /\ fresh'[q] = n
    <3> TAKE n \in 1..Len(clients')
    <3>1. CASE \E i \in 1..Len(Installed) : Installed[i] = n
      BY <2>2, <2>7, <3>1
    <3>2. CASE \E q \in Reloaders : Waiting(q) /\ fresh[q] = n
      BY <2>1, <2>2, <2>4, <2>6, <3>2
    <3> QED
      BY <2>1, <3>1, <3>2 DEF NoLostClient
  <2>9. \A i, j \in 1..Len(Installed') : Installed'[i] = Installed'[j] => i = j
    BY <2>2, <2>3, <2>5 DEF NoLostClient
  <2>10. \A p, q \in Reloaders : Waiting(p)' /\ Waiting(q)' /\ fresh'[p] = fresh'[q] => p = q
    BY <2>1, <2>3, <2>4 DEF NoLostClient
  <2>11. \A i \in 1..Len(Installed'), q \in Reloaders : Waiting(q)' => Installed'[i] /= fresh'[q]
    BY <2>1, <2>2, <2>3, <2>4, <2>5 DEF NoLostClient
  <2> QED
    BY <2>8, <2>9, <2>10, <2>11 DEF NoLostClient
<1> QED
  BY <1>1, <1>2, <1>3, LostQuietStep

\* A connection that has a client after a step had it before, or got it now.
KeepsOrGets(d) ==
  pc'[d] \in {"dial", "open"} =>
    \/ pc[d] \in {"dial", "open"} /\ client'[d] = client[d] /\ since'[d] = since[d]
    \/ GetSSClient(d)

\* Only GetSSClient gives a connection its client.
LEMMA KeepsOrGetsStep ==
  ASSUME NEW x \in LiveDialers, TypeOK, [Next]_vars
  PROVE  KeepsOrGets(x)
<1> USE ProcFacts, ProcAssumption DEF TypeOK, Goto, KeepsOrGets, Dialers, Sharers
<1>1. ASSUME NEW r \in Reloaders, NEW c \in Configs, RejectReload(r, c)
      PROVE  KeepsOrGets(x)
  BY <1>1 DEF RejectReload, lockVars, mgrVars, useVars
<1>2. ASSUME NEW r \in Reloaders, NEW c \in Configs, HandleReload(r, c)
      PROVE  KeepsOrGets(x)
  BY <1>2 DEF HandleReload, lockVars, mgrVars, useVars
<1>3. ASSUME NEW r \in Reloaders, NewClient(r)
      PROVE  KeepsOrGets(x)
  BY <1>3 DEF NewClient, lockVars, useVars
<1>4. ASSUME NEW r \in Reloaders, NewClientFails(r)
      PROVE  KeepsOrGets(x)
  BY <1>4 DEF NewClientFails, lockVars, mgrVars, useVars
<1>5. ASSUME NEW r \in Reloaders, Lock(r)
      PROVE  KeepsOrGets(x)
  BY <1>5 DEF Lock, mgrVars, reqVars, useVars
<1>6. ASSUME NEW r \in Reloaders, Swap(r)
      PROVE  KeepsOrGets(x)
  BY <1>6 DEF Swap, lockVars, useVars
<1>7. ASSUME NEW r \in Reloaders, NEW w \in Words, StoreWord(r, w)
      PROVE  KeepsOrGets(x)
  BY <1>7 DEF StoreWord, lockVars, useVars
<1>8. ASSUME NEW r \in Reloaders, Unlock(r)
      PROVE  KeepsOrGets(x)
  BY <1>8 DEF Unlock, mgrVars, useVars
<1>9. ASSUME NEW p \in Sharers, RLock(p)
      PROVE  KeepsOrGets(x)
  BY <1>9 DEF RLock, mgrVars, reqVars, useVars
<1>10. ASSUME NEW p \in Sharers, Park(p)
       PROVE  KeepsOrGets(x)
  BY <1>10 DEF Park, mgrVars, lockVars, reqVars, useVars
<1>11. ASSUME NEW d \in LiveDialers, AcceptLive(d)
       PROVE  KeepsOrGets(x)
  BY <1>11 DEF AcceptLive, Begin, mgrVars, lockVars, reqVars
<1>12. ASSUME NEW d \in LiveDialers, GetSSClient(d)
       PROVE  KeepsOrGets(x)
  BY <1>12 DEF GetSSClient, mgrVars, reqVars
<1>13. ASSUME NEW d \in CapturedDialers, AcceptCaptured(d)
       PROVE  KeepsOrGets(x)
  BY <1>13 DEF AcceptCaptured, Begin, mgrVars, lockVars, reqVars
<1>14. ASSUME NEW d \in Dialers, DialOk(d)
       PROVE  KeepsOrGets(x)
  BY <1>14 DEF DialOk, mgrVars, lockVars, reqVars, useVars
<1>15. ASSUME NEW d \in Dialers, Close(d)
       PROVE  KeepsOrGets(x)
  BY <1>15 DEF Close, mgrVars, lockVars, reqVars
<1>16. ASSUME NEW g \in Readers, HandleConfig(g)
       PROVE  KeepsOrGets(x)
  BY <1>16 DEF HandleConfig, Begin, mgrVars, lockVars, reqVars
<1>17. ASSUME NEW g \in Readers, GetConfig(g)
       PROVE  KeepsOrGets(x)
  BY <1>17 DEF GetConfig, mgrVars, reqVars, useVars
<1>18. ASSUME NEW g \in Readers, Load(g)
       PROVE  KeepsOrGets(x)
  BY <1>18 DEF Load, mgrVars, lockVars, reqVars
<1>19. ASSUME NEW g \in Readers, FinishConfig(g)
       PROVE  KeepsOrGets(x)
  BY <1>19 DEF FinishConfig, mgrVars, lockVars, reqVars
<1>20. CASE UNCHANGED vars
  BY <1>20 DEF vars, mgrVars, lockVars, reqVars, useVars
<1> QED
  BY <1>1, <1>2, <1>3, <1>4, <1>5, <1>6, <1>7, <1>8, <1>9, <1>10, <1>11,
     <1>12, <1>13, <1>14, <1>15, <1>16, <1>17, <1>18, <1>19, <1>20
  DEF Next, Reload, Dialing, Reading, Sharers

\* A connection keeps a client that was current since it arrived.
LEMMA DialStep ==
  ASSUME TypeOK, SinceInv, FreshDial, [Next]_vars
  PROVE  FreshDial'
<1> SUFFICES ASSUME NEW d \in LiveDialers, pc'[d] \in {"dial", "open"}
             PROVE  CurrentSince(client[d], since[d])'
  BY DEF FreshDial, UsesRecentClient
<1>1. CASE /\ pc[d] \in {"dial", "open"}
           /\ client'[d] = client[d] /\ since'[d] = since[d]
  <2>1. CurrentSince(client[d], since[d])
    BY <1>1 DEF FreshDial, UsesRecentClient
  <2>2. ASSUME NEW k, NEW s, CurrentSince(k, s)
        PROVE  CurrentSince(k, s)'
    BY <2>2, CurrentSinceKept
  <2>3. \A k, s : CurrentSince(k, s) => CurrentSince(k, s)'
    BY <2>2
  <2> QED
    BY <1>1, <2>1, <2>3 DEF CurrentSince
<1>2. CASE GetSSClient(d)
  <2>1. CurrentSince(ssClient, since[d])
    BY SSClientIsCurrent, ProcFacts DEF SinceInv
  <2> QED
    BY <1>2, <2>1, ProcFacts DEF GetSSClient, CurrentSince, TypeOK, Installed, mgrVars
<1>3. KeepsOrGets(d)
  BY KeepsOrGetsStep
<1> QED
  BY <1>1, <1>2, <1>3 DEF KeepsOrGets

\* A reader that loads after a step was loading before it, or starts now.
KeepsOrLoads(g) ==
  pc'[g] = "load" =>
    \/ pc[g] = "load" /\ seen'[g] = seen[g] /\ since'[g] = since[g]
    \/ GetConfig(g)
    \/ Load(g)

\* Only Load adds to what a reader has seen.
LEMMA KeepsOrLoadsStep ==
  ASSUME NEW x \in Readers, TypeOK, [Next]_vars
  PROVE  KeepsOrLoads(x)
<1> USE ProcFacts, ProcAssumption DEF TypeOK, Goto, KeepsOrLoads, Dialers, Sharers
<1>1. ASSUME NEW r \in Reloaders, NEW c \in Configs, RejectReload(r, c)
      PROVE  KeepsOrLoads(x)
  BY <1>1 DEF RejectReload, lockVars, mgrVars, useVars
<1>2. ASSUME NEW r \in Reloaders, NEW c \in Configs, HandleReload(r, c)
      PROVE  KeepsOrLoads(x)
  BY <1>2 DEF HandleReload, lockVars, mgrVars, useVars
<1>3. ASSUME NEW r \in Reloaders, NewClient(r)
      PROVE  KeepsOrLoads(x)
  BY <1>3 DEF NewClient, lockVars, useVars
<1>4. ASSUME NEW r \in Reloaders, NewClientFails(r)
      PROVE  KeepsOrLoads(x)
  BY <1>4 DEF NewClientFails, lockVars, mgrVars, useVars
<1>5. ASSUME NEW r \in Reloaders, Lock(r)
      PROVE  KeepsOrLoads(x)
  BY <1>5 DEF Lock, mgrVars, reqVars, useVars
<1>6. ASSUME NEW r \in Reloaders, Swap(r)
      PROVE  KeepsOrLoads(x)
  BY <1>6 DEF Swap, lockVars, useVars
<1>7. ASSUME NEW r \in Reloaders, NEW w \in Words, StoreWord(r, w)
      PROVE  KeepsOrLoads(x)
  BY <1>7 DEF StoreWord, lockVars, useVars
<1>8. ASSUME NEW r \in Reloaders, Unlock(r)
      PROVE  KeepsOrLoads(x)
  BY <1>8 DEF Unlock, mgrVars, useVars
<1>9. ASSUME NEW p \in Sharers, RLock(p)
      PROVE  KeepsOrLoads(x)
  BY <1>9 DEF RLock, mgrVars, reqVars, useVars
<1>10. ASSUME NEW p \in Sharers, Park(p)
       PROVE  KeepsOrLoads(x)
  BY <1>10 DEF Park, mgrVars, lockVars, reqVars, useVars
<1>11. ASSUME NEW d \in LiveDialers, AcceptLive(d)
       PROVE  KeepsOrLoads(x)
  BY <1>11 DEF AcceptLive, Begin, mgrVars, lockVars, reqVars
<1>12. ASSUME NEW d \in LiveDialers, GetSSClient(d)
       PROVE  KeepsOrLoads(x)
  BY <1>12 DEF GetSSClient, mgrVars, reqVars
<1>13. ASSUME NEW d \in CapturedDialers, AcceptCaptured(d)
       PROVE  KeepsOrLoads(x)
  BY <1>13 DEF AcceptCaptured, Begin, mgrVars, lockVars, reqVars
<1>14. ASSUME NEW d \in Dialers, DialOk(d)
       PROVE  KeepsOrLoads(x)
  BY <1>14 DEF DialOk, mgrVars, lockVars, reqVars, useVars
<1>15. ASSUME NEW d \in Dialers, Close(d)
       PROVE  KeepsOrLoads(x)
  BY <1>15 DEF Close, mgrVars, lockVars, reqVars
<1>16. ASSUME NEW g \in Readers, HandleConfig(g)
       PROVE  KeepsOrLoads(x)
  BY <1>16 DEF HandleConfig, Begin, mgrVars, lockVars, reqVars
<1>17. ASSUME NEW g \in Readers, GetConfig(g)
       PROVE  KeepsOrLoads(x)
  BY <1>17 DEF GetConfig, mgrVars, reqVars, useVars
<1>18. ASSUME NEW g \in Readers, Load(g)
       PROVE  KeepsOrLoads(x)
  BY <1>18 DEF Load, mgrVars, lockVars, reqVars
<1>19. ASSUME NEW g \in Readers, FinishConfig(g)
       PROVE  KeepsOrLoads(x)
  BY <1>19 DEF FinishConfig, mgrVars, lockVars, reqVars
<1>20. CASE UNCHANGED vars
  BY <1>20 DEF vars, mgrVars, lockVars, reqVars, useVars
<1> QED
  BY <1>1, <1>2, <1>3, <1>4, <1>5, <1>6, <1>7, <1>8, <1>9, <1>10, <1>11,
     <1>12, <1>13, <1>14, <1>15, <1>16, <1>17, <1>18, <1>19, <1>20
  DEF Next, Reload, Dialing, Reading, Sharers

\* A word loaded outside the lock is of the current client, or, while a
\* reload stores, of the client before it: both were current since a reader
\* that is loading began.
LEMMA LoadedWordIsRecent ==
  ASSUME TypeOK, StoreInv, SinceInv, NEW g \in Readers, pc[g] = "load", NEW w \in Words
  PROVE  CurrentSince(config[w], since[g])
<1>1. CASE ~InStore \/ w \notin todo
  <2>1. config[w] = ssClient
    BY <1>1 DEF StoreInv, ClientMatchesConfig
  <2> QED
    BY <2>1, SSClientIsCurrent DEF SinceInv
<1>2. CASE InStore /\ w \in todo
  <2>1. config[w] = oldClients[Len(oldClients)] /\ oldClients /= <<>>
    BY <1>2 DEF StoreInv
  <2> QED
    BY <1>2, <2>1, LastOldIsCurrent DEF SinceInv
<1> QED
  BY <1>1, <1>2

\* What a reader has seen was current since its request.
LEMMA StaleStep ==
  ASSUME TypeOK, StoreInv, SinceInv, SeenInv, NoStaleField, [Next]_vars
  PROVE  NoStaleField'
<1> SUFFICES ASSUME NEW g \in Readers, pc'[g] = "load", NEW n \in 1..Len(seen'[g])
             PROVE  CurrentSince(seen[g][n], since[g])'
  BY DEF NoStaleField
<1>0. \A k, s : CurrentSince(k, s) => CurrentSince(k, s)'
  <2>1. ASSUME NEW k, NEW s, CurrentSince(k, s)
        PROVE  CurrentSince(k, s)'
    BY <2>1, CurrentSinceKept
  <2> QED
    BY <2>1
<1>1. CASE pc[g] = "load" /\ seen'[g] = seen[g] /\ since'[g] = since[g]
  <2>1. CurrentSince(seen[g][n], since[g])
    BY <1>1 DEF NoStaleField
  <2> QED
    BY <1>0, <1>1, <2>1 DEF CurrentSince
<1>2. CASE GetConfig(g)
  <2>1. seen'[g] = <<>>
    BY <1>2 DEF GetConfig, useVars, SeenInv
  <2> QED
    BY <2>1
<1>3. CASE Load(g)
  <2> DEFINE w == LoadOrder[Len(seen[g]) + 1]
  <2>1. pc[g] = "load" /\ since' = since /\ seen'[g] = Append(seen[g], config[w])
    BY <1>3 DEF Load, TypeOK
  <2>2. w \in Words
    BY <1>3, LoadOrderFacts DEF Load, Answerable, SeenInv, TypeOK
  <2>3. CASE n \in 1..Len(seen[g])
    <3>1. seen'[g][n] = seen[g][n]
      BY <2>1, <2>2, <2>3 DEF TypeOK
    <3>2. CurrentSince(seen[g][n], since[g])
      BY <2>1, <2>3 DEF NoStaleField
    <3> QED
      BY <1>0, <2>1, <3>1, <3>2 DEF CurrentSince
  <2>4. CASE n = Len(seen[g]) + 1
    <3>1. seen'[g][n] = config[w]
      BY <2>1, <2>2, <2>4 DEF TypeOK
    <3>2. CurrentSince(config[w], since[g])
      BY <2>1, <2>2, LoadedWordIsRecent
    <3> QED
      BY <1>0, <2>1, <3>1, <3>2 DEF CurrentSince
  <2>5. n \in 1..Len(seen[g]) \/ n = Len(seen[g]) + 1
    BY <2>1, <2>2 DEF TypeOK
  <2> QED
    BY <2>3, <2>4, <2>5
<1>4. KeepsOrLoads(g)
  BY KeepsOrLoadsStep
<1> QED
  BY <1>1, <1>2, <1>3, <1>4 DEF KeepsOrLoads

-----------------------------------------------------------------------------
\* The initial state and every step keep the inductive invariant.
LEMMA IInvInit ==
  ASSUME Init
  PROVE  IInv
<1> USE ProcFacts DEF Init
<1>1. TypeOK
  BY ConfigAssumption, WordAssumption DEF TypeOK
<1>2. LockInv
  BY DEF LockInv, InStore
<1>3. FreshInv /\ StoreInv /\ FreshDial /\ NoStaleField
  BY DEF FreshInv, StoreInv, ClientMatchesConfig, InStore, FreshDial,
         UsesRecentClient, NoStaleField
<1>4. SinceInv /\ NoLostClient
  BY DEF SinceInv, InStore, NoLostClient, Installed, Waiting
<1>5. SeenInv
  BY LoadOrderFacts, WordAssumption DEF SeenInv
<1> QED
  BY <1>1, <1>2, <1>3, <1>4, <1>5 DEF IInv

LEMMA IInvStep ==
  ASSUME IInv, [Next]_vars
  PROVE  IInv'
BY TypeStep, LockStep, FreshStep, StoreStep, SinceStep, SeenStep, LostStep, DialStep, StaleStep
DEF IInv

\* What holds throughout: the lock, the progress of the reload that holds it,
\* and what connections and readers may have seen.
THEOREM IInvariant == Spec => []IInv
<1>1. Init => IInv
  BY IInvInit
<1>2. IInv /\ [Next]_vars => IInv'
  BY IInvStep
<1> QED
  BY <1>1, <1>2, PTL DEF Spec

\* The manager and the goroutines in it stay well formed: the current client
\* and all old ones are clients that were built.
THEOREM TypeCorrect == Spec => []TypeOK
<1>1. IInv => TypeOK
  BY DEF IInv
<1> QED
  BY <1>1, IInvariant, PTL

\* ReloadConfig changes client and configuration together: whoever looks
\* between reloads finds them word for word equal.
THEOREM ClientMatchesConfigAlways == Spec => []ClientMatchesConfig
<1>1. IInv => ClientMatchesConfig
  BY DEF IInv, StoreInv
<1> QED
  BY <1>1, IInvariant, PTL

\* Whatever reloads overlap, every client built is in the history exactly
\* once or still with the one reload that will install it.
THEOREM NoLostClientAlways == Spec => []NoLostClient
<1>1. IInv => NoLostClient
  BY DEF IInv
<1> QED
  BY <1>1, IInvariant, PTL

\* After a reload is installed no connection of the unified proxy that
\* arrives uses an older client.
THEOREM FreshDialAlways == Spec => []FreshDial
<1>1. IInv => FreshDial
  BY DEF IInv
<1> QED
  BY <1>1, IInvariant, PTL

\* GET /config reports no word that is older than its request, although it
\* loads them without the lock.
THEOREM NoStaleFieldAlways == Spec => []NoStaleField
<1>1. IInv => NoStaleField
  BY DEF IInv
<1> QED
  BY <1>1, IInvariant, PTL

-----------------------------------------------------------------------------
(* HotReload implements ReloadRegister: reloads and connections behave as    *)
(* if the client were replaced, and chosen, in one instant.                 *)

\* Appending keeps what was there.
LEMMA AppendKeepsPrefix ==
  ASSUME NEW S, NEW s \in Seq(S), NEW x \in S
  PROVE  /\ Append(s, x) \in Seq(S) /\ Len(Append(s, x)) = Len(s) + 1
         /\ SubSeq(Append(s, x), 1, Len(s)) = s
OBVIOUS

\* A step of a connection leaves the reloads of the register alone.
LEMMA ReloadSideKept ==
  ASSUME TypeOK, NEW d \in LiveDialers, NEW s, pc' = [pc EXCEPT ![d] = s], UNCHANGED reply
  PROVE  UNCHANGED <<[q \in Reloaders |-> AbsReload(q)], [q \in Reloaders |-> AbsAnswer(q)]>>
<1>1. \A q \in Reloaders : pc'[q] = pc[q]
  BY ProcFacts, ProcAssumption DEF Dialers, TypeOK
<1> QED
  BY <1>1 DEF AbsReload, AbsAnswer

\* Nothing is pending or bound at first, and one client is installed.
LEMMA RegisterInit ==
  ASSUME Init
  PROVE  Register!Init
<1> USE ProcFacts DEF Init, Register!Init
<1>1. Installed \in Seq(Nat) /\ Len(Installed) = 1
  BY DEF Installed
<1>2. \A r \in Reloaders : AbsReload(r) = "idle" /\ AbsAnswer(r) = "none"
  BY DEF AbsReload, AbsAnswer
<1>3. \A d \in LiveDialers : AbsBound(d) = <<>>
  BY DEF AbsBound
<1> QED
  BY <1>1, <1>2, <1>3

\* Swap applies, GetSSClient binds; everything else answers or stutters.
LEMMA RegisterStep ==
  ASSUME IInv, [Next]_vars
  PROVE  [Register!Next]_Register!vars
<1> USE ProcFacts DEF TypeOK, Goto, AbsReload, AbsAnswer, AbsBound, Register!vars
<1>0. TypeOK
  BY DEF IInv
<1>1. ASSUME NEW r \in Reloaders, NEW c \in Configs, RejectReload(r, c)
      PROVE  Register!Refuse(r)
  BY <1>0, <1>1 DEF RejectReload, Register!Refuse, Installed, lockVars, mgrVars, useVars
<1>2. ASSUME NEW r \in Reloaders, NEW c \in Configs, HandleReload(r, c)
      PROVE  Register!Submit(r)
  BY <1>0, <1>2 DEF HandleReload, Register!Submit, Installed, lockVars, mgrVars, useVars
<1>3. ASSUME NEW r \in Reloaders, NewClient(r)
      PROVE  UNCHANGED Register!vars
  BY <1>0, <1>3 DEF NewClient, Installed, lockVars, useVars
<1>4. ASSUME NEW r \in Reloaders, NewClientFails(r)
      PROVE  Register!Refuse(r)
  BY <1>0, <1>4 DEF NewClientFails, Register!Refuse, Installed, lockVars, mgrVars, useVars
<1>5. ASSUME NEW r \in Reloaders, Lock(r)
      PROVE  UNCHANGED Register!vars
  BY <1>0, <1>5 DEF Lock, Installed, mgrVars, reqVars, useVars
<1>6. ASSUME NEW r \in Reloaders, Swap(r)
      PROVE  Register!Apply(r)
  <2>1. Installed \in Seq(Nat) /\ fresh[r] \in Nat
    BY <1>0 DEF Installed
  <2>2. Installed' = Append(Installed, fresh[r])
    BY <1>6 DEF Swap, Installed
  <2>3. /\ Installed' \in Seq(Nat) /\ Len(Installed') = Len(Installed) + 1
        /\ SubSeq(Installed', 1, Len(Installed)) = Installed
    BY <2>1, <2>2, AppendKeepsPrefix
  <2>4. /\ pc[r] = "drain" /\ pc' = [pc EXCEPT ![r] = "store"]
        /\ UNCHANGED <<reply, client>>
    BY <1>6 DEF Swap, useVars
  <2>5. [q \in Reloaders |-> AbsReload(q)]'
          = [[q \in Reloaders |-> AbsReload(q)] EXCEPT ![r] = "applied"]
    BY <1>0, <2>4
  <2>6. UNCHANGED <<[q \in Reloaders |-> AbsAnswer(q)], [d \in LiveDialers |-> AbsBound(d)]>>
    BY <1>0, <2>4
  <2>7. [q \in Reloaders |-> AbsReload(q)][r] = "pending"
    BY <2>4
  <2> QED
    BY <2>3, <2>5, <2>6, <2>7 DEF Register!Apply
<1>7. ASSUME NEW r \in Reloaders, NEW w \in Words, StoreWord(r, w)
      PROVE  UNCHANGED Register!vars
  BY <1>0, <1>7 DEF StoreWord, Installed, lockVars, useVars
<1>8. ASSUME NEW r \in Reloaders, Unlock(r)
      PROVE  Register!Confirm(r)
  BY <1>0, <1>8 DEF Unlock, Register!Confirm, Installed, mgrVars, useVars
<1>9. ASSUME NEW p \in Sharers, RLock(p) \/ Park(p)
      PROVE  UNCHANGED Register!vars
  BY <1>0, <1>9 DEF RLock, Park, Installed, mgrVars, lockVars, reqVars, useVars
<1>10. ASSUME NEW d \in LiveDialers, AcceptLive(d)
       PROVE  UNCHANGED Register!vars
  <2>1. /\ pc[d] = "idle" /\ pc' = [pc EXCEPT ![d] = "rlock"]
        /\ UNCHANGED <<ssClient, oldClients, reply, client>>
    BY <1>10 DEF AcceptLive, Begin, mgrVars, reqVars
  <2>2. UNCHANGED <<Installed, [q \in Reloaders |-> AbsReload(q)],
                    [q \in Reloaders |-> AbsAnswer(q)]>>
    BY <1>0, <2>1, ReloadSideKept DEF Installed
  <2>3. \A q \in LiveDialers : AbsBound(q)' = AbsBound(q)
    BY <1>0, <2>1
  <2> QED
    BY <2>2, <2>3
<1>11. ASSUME NEW d \in LiveDialers, GetSSClient(d)
       PROVE  Register!Bind(d)
  <2>1. /\ pc[d] = "shared" /\ pc' = [pc EXCEPT ![d] = "dial"]
        /\ client' = [client EXCEPT ![d] = ssClient]
        /\ UNCHANGED <<ssClient, oldClients, reply>>
    BY <1>11 DEF GetSSClient, mgrVars, reqVars
  <2>2. Register!Current = ssClient
    BY <1>0 DEF Register!Current, Installed
  <2>3. [q \in LiveDialers |-> AbsBound(q)][d] = <<>>
    BY <2>1
  <2>4. [q \in LiveDialers |-> AbsBound(q)]'
          = [[q \in LiveDialers |-> AbsBound(q)] EXCEPT ![d] = <<ssClient>>]
    BY <1>0, <2>1
  <2>5. UNCHANGED <<Installed, [q \in Reloaders |-> AbsReload(q)],
                    [q \in Reloaders |-> AbsAnswer(q)]>>
    BY <1>0, <2>1, ReloadSideKept DEF Installed
  <2> QED
    BY <2>2, <2>3, <2>4, <2>5 DEF Register!Bind
<1>12. ASSUME NEW d \in CapturedDialers, AcceptCaptured(d)
       PROVE  UNCHANGED Register!vars
  BY <1>0, <1>12, ProcAssumption DEF AcceptCaptured, Dialers, Begin, Installed, mgrVars, lockVars, reqVars
<1>13. ASSUME NEW d \in Dialers, DialOk(d)
       PROVE  UNCHANGED Register!vars
  BY <1>0, <1>13 DEF DialOk, Installed, mgrVars, lockVars, reqVars, useVars
<1>14. ASSUME NEW d \in LiveDialers, Close(d)
       PROVE  Register!Release(d)
  <2>1. /\ pc[d] \in {"dial", "open"} /\ pc' = [pc EXCEPT ![d] = "idle"]
        /\ client' = [client EXCEPT ![d] = 0]
        /\ UNCHANGED <<ssClient, oldClients, reply>>
    BY <1>14 DEF Close, mgrVars, reqVars
  <2>2. [q \in LiveDialers |-> AbsBound(q)][d] = <<client[d]>>
    BY <2>1
  <2>3. [q \in LiveDialers |-> AbsBound(q)]'
          = [[q \in LiveDialers |-> AbsBound(q)] EXCEPT ![d] = <<>>]
    BY <1>0, <2>1
  <2>4. UNCHANGED <<Installed, [q \in Reloaders |-> AbsReload(q)],
                    [q \in Reloaders |-> AbsAnswer(q)]>>
    BY <1>0, <2>1, ReloadSideKept DEF Installed
  <2>5. <<client[d]>> /= <<>>
    OBVIOUS
  <2> QED
    BY <2>2, <2>3, <2>4, <2>5 DEF Register!Release
<1>15. ASSUME NEW d \in CapturedDialers, Close(d)
       PROVE  UNCHANGED Register!vars
  BY <1>0, <1>15, ProcAssumption DEF Close, Dialers, Installed, mgrVars, lockVars, reqVars
<1>16. ASSUME NEW g \in Readers, HandleConfig(g)
       PROVE  UNCHANGED Register!vars
  BY <1>0, <1>16, ProcAssumption DEF HandleConfig, Dialers, Begin, Installed, mgrVars, lockVars, reqVars
<1>17. ASSUME NEW g \in Readers, GetConfig(g) \/ Load(g) \/ FinishConfig(g)
       PROVE  UNCHANGED Register!vars
  BY <1>0, <1>17, ProcAssumption
  DEF GetConfig, Load, FinishConfig, Dialers, Installed, mgrVars, lockVars, reqVars, useVars
<1>18. CASE UNCHANGED vars
  BY <1>18 DEF vars, Installed, mgrVars, lockVars, reqVars, useVars
<1> QED
  BY <1>1, <1>2, <1>3, <1>4, <1>5, <1>6, <1>7, <1>8, <1>9, <1>10, <1>11, <1>12,
     <1>13, <1>14, <1>15, <1>16, <1>17, <1>18
  DEF Next, Reload, Dialing, Reading, Sharers, Dialers, Register!Next

\* The handlers, the manager and its lock implement the register: a reload
\* answered 200 installed exactly one client, any other answer none, and a
\* connection of the unified proxy keeps the client that was current at one
\* instant of its arrival.
THEOREM Refinement == Spec => RefinesRegister
<1>1. Init => Register!Init
  BY RegisterInit
<1>2. IInv /\ [Next]_vars => [Register!Next]_Register!vars
  BY RegisterStep
<1> QED
  BY <1>1, <1>2, IInvariant, PTL DEF Spec, RefinesRegister, Register!Spec
=============================================================================
