---------------------------- MODULE IdentityProofs ----------------------------
(***************************************************************************)
(* Proofs about Identity, for any number of processes, apps and keys.      *)
(***************************************************************************)
EXTENDS Identity, FiniteSetTheorems, TLAPS

-----------------------------------------------------------------------------
(* Type correctness.                                                       *)

\* A directory without files, before anything is started, has the types.
LEMMA TypeInit == Init => TypeOK
  BY FileAssumption DEF Init, TypeOK, States

\* Every step of a start keeps the types, and leaves a key in memory exactly
\* where one was read or generated.
LEMMA TypeStep == TypeOK /\ [Next]_vars => TypeOK'
<1> SUFFICES ASSUME TypeOK, [Next]_vars PROVE TypeOK'
  OBVIOUS
<1> USE FileAssumption DEF TypeOK, States
<1>u. CASE UNCHANGED vars
  BY <1>u DEF vars
<1>1. ASSUME NEW p \in Processes, Finds(p) PROVE TypeOK'
  BY <1>1 DEF Finds
<1>2. ASSUME NEW p \in Processes, Generates(p) PROVE TypeOK'
  <2>1. PICK k \in Keys : key' = [key EXCEPT ![p] = k]
    BY <1>2 DEF Generates, Fresh
  <2>2. raced' \in BOOLEAN
    BY <1>2 DEF Generates
  <2>3. QED BY <1>2, <2>1, <2>2 DEF Generates
<1>3. ASSUME NEW p \in Processes, Reads(p) PROVE TypeOK'
  BY <1>3 DEF Reads, Runs
<1>4. ASSUME NEW p \in Processes, ReadFails(p) PROVE TypeOK'
  BY <1>4 DEF ReadFails
<1>5. ASSUME NEW p \in Processes, OpensKeyFile(p) PROVE TypeOK'
  BY <1>5 DEF OpensKeyFile
<1>6. ASSUME NEW p \in Processes, WritesKeyFile(p) PROVE TypeOK'
  <2>1. key[p] \in Keys
    BY <1>6 DEF WritesKeyFile
  <2>2. QED BY <1>6, <2>1 DEF WritesKeyFile, Runs
<1>7. ASSUME NEW p \in Processes, OpensConfig(p) PROVE TypeOK'
  BY <1>7 DEF OpensConfig
<1>8. ASSUME NEW p \in Processes, WritesConfig(p) PROVE TypeOK'
  <2>1. key[p] \in Keys
    BY <1>8 DEF WritesConfig
  <2>2. Signed(p) \in Configs
    BY <2>1 DEF Signed, SignConfig, Configs
  <2>3. QED BY <1>8, <2>2 DEF WritesConfig
<1>9. ASSUME NEW p \in Processes, GoesOnUnpublished(p) PROVE TypeOK'
  BY <1>9 DEF GoesOnUnpublished
<1>10. ASSUME NEW p \in Processes, Ends(p) PROVE TypeOK'
  BY <1>10 DEF Ends
<1>11. ASSUME NEW a \in Apps, Fetches(a) PROVE TypeOK'
  <2>1. configFile.node \in Keys
    BY <1>11 DEF Fetches, Configs
  <2>2. QED BY <1>11, <2>1 DEF Fetches
<1>12. CASE KeyRemoved
  BY <1>12 DEF KeyRemoved
<1>13. QED
  BY <1>u, <1>1, <1>2, <1>3, <1>4, <1>5, <1>6, <1>7, <1>8, <1>9, <1>10, <1>11, <1>12 DEF Next

\* The types hold in every state: a process has a key in memory exactly from
\* the moment from_config read or generated one until it ends.
THEOREM TypeCorrect == Spec => []TypeOK
<1>1. QED BY TypeInit, TypeStep, PTL DEF Spec

-----------------------------------------------------------------------------
(* One id per directory.                                                   *)

\* What makes the first start safe while no two of them overlap: only one
\* process has a generated key that it has not completely written, and until
\* it has, nothing ran here and no start can read a key; from then on the
\* file holds the one id that runs here.
FirstStart ==
  /\ ranHere = {} \/ (keyFile \in Keys /\ ranHere = {keyFile})
  /\ \A p \in Processes : Generating(p) => ranHere = {} /\ keyFile \notin Keys
  /\ \A p, q \in Processes : Generating(p) /\ Generating(q) => p = q

\* Nobody generates before the first start.
LEMMA FirstStartInit == Init => raced \/ FirstStart
  BY FileAssumption DEF Init, FirstStart, Generating

\* A start keeps this, or it overlaps with another and sets raced; the
\* removal of node.key re-establishes it, for the file it is made under then.
LEMMA FirstStartStep ==
  TypeOK /\ (raced \/ FirstStart) /\ [Next]_vars => (raced \/ FirstStart)'
<1> SUFFICES ASSUME TypeOK, raced \/ FirstStart, [Next]_vars, ~raced'
             PROVE  FirstStart'
  OBVIOUS
<1> USE FileAssumption DEF TypeOK
<1>k. CASE KeyRemoved
  <2>1. /\ ranHere' = {}
        /\ \A p \in Processes : ~Generating(p)
        /\ st' = st
    BY <1>k DEF KeyRemoved
  <2>2. QED BY <2>1 DEF FirstStart, Generating
<1>g. ASSUME NEW p \in Processes, Generates(p) PROVE FirstStart'
  <2>1. /\ ~raced /\ keyFile = Absent /\ keyFile' = keyFile /\ ranHere' = ranHere
        /\ \A q \in Processes : ~Generating(q)
        /\ st' = [st EXCEPT ![p] = "generated"]
    BY <1>g DEF Generates
  <2>2. ranHere = {}
    BY <2>1 DEF FirstStart
  <2>3. \A q \in Processes : Generating(q)' => q = p
    BY <2>1 DEF Generating
  <2>4. QED BY <2>1, <2>2, <2>3 DEF FirstStart
<1>n. SUFFICES ASSUME ~raced, FirstStart, UNCHANGED raced,
                      ~KeyRemoved, \A p \in Processes : ~Generates(p)
               PROVE  FirstStart'
  BY <1>k, <1>g
     DEF vars, Next, Finds, Generates, Reads, ReadFails, OpensKeyFile, WritesKeyFile,
         OpensConfig, WritesConfig, GoesOnUnpublished, Ends, Fetches
<1> USE DEF FirstStart, Generating
<1>u. CASE UNCHANGED vars
  BY <1>n, <1>u DEF vars
<1>1. ASSUME NEW p \in Processes, Finds(p) PROVE FirstStart'
  BY <1>n, <1>1 DEF Finds
<1>3. ASSUME NEW p \in Processes, Reads(p) PROVE FirstStart'
  BY <1>n, <1>3 DEF Reads, Runs
<1>4. ASSUME NEW p \in Processes, ReadFails(p) PROVE FirstStart'
  BY <1>n, <1>4 DEF ReadFails
<1>5. ASSUME NEW p \in Processes, OpensKeyFile(p) PROVE FirstStart'
  BY <1>n, <1>5 DEF OpensKeyFile
<1>6. ASSUME NEW p \in Processes, WritesKeyFile(p) PROVE FirstStart'
  <2>1. /\ keyFile' = key[p] /\ key[p] \in Keys
        /\ ranHere = {} /\ ranHere' = ranHere \cup {key[p]}
        /\ st' = [st EXCEPT ![p] = "loaded"]
    BY <1>n, <1>6 DEF WritesKeyFile, Runs
  <2>2. \A q \in Processes : ~Generating(q)'
    BY <1>n, <1>6, <2>1 DEF WritesKeyFile
  <2>3. QED BY <2>1, <2>2
<1>7. ASSUME NEW p \in Processes, OpensConfig(p) PROVE FirstStart'
  BY <1>n, <1>7 DEF OpensConfig
<1>8. ASSUME NEW p \in Processes, WritesConfig(p) PROVE FirstStart'
  BY <1>n, <1>8 DEF WritesConfig
<1>9. ASSUME NEW p \in Processes, GoesOnUnpublished(p) PROVE FirstStart'
  BY <1>n, <1>9 DEF GoesOnUnpublished
<1>10. ASSUME NEW p \in Processes, Ends(p) PROVE FirstStart'
  BY <1>n, <1>10 DEF Ends
<1>11. ASSUME NEW a \in Apps, Fetches(a) PROVE FirstStart'
  BY <1>n, <1>11 DEF Fetches
<1>12. QED
  BY <1>n, <1>u, <1>1, <1>3, <1>4, <1>5, <1>6, <1>7, <1>8, <1>9, <1>10, <1>11 DEF Next

\* The first start is safe in every state.
LEMMA FirstStartHolds == Spec => [](raced \/ FirstStart)
<1>1. QED BY TypeCorrect, FirstStartInit, FirstStartStep, PTL DEF Spec

\* However many processes are started in a directory and wherever each ends,
\* all that came to run took one id, until node.key is removed; only first
\* starts that overlap can end under two ids.
THEOREM OneIdentityHolds == Spec => []OneIdentity
<1>1. raced \/ FirstStart => OneIdentity
  BY FS_EmptySet, FS_Singleton DEF FirstStart, OneIdentity
<1>2. QED BY <1>1, FirstStartHolds, PTL

\* Once an id was in use, node.key holds a whole key in every state, so that
\* the next start can read it.
THEOREM StartsAgainHolds == Spec => []StartsAgain
<1>1. raced \/ FirstStart => StartsAgain
  BY DEF FirstStart, StartsAgain
<1>2. QED BY <1>1, FirstStartHolds, PTL

-----------------------------------------------------------------------------
(* The signed config.                                                      *)

\* A process that came through from_config runs under an id on record.
OnRecord ==
  \A p \in Processes : st[p] \in {"loaded", "publishing", "running"} => key[p] \in ran

\* The step of the inductive invariant: whoever writes a config has its id on
\* record by then, and what an app takes from one is the id that signed it.
LEMMA CertifiedStep ==
  TypeOK /\ OnRecord /\ PublishedCertifiesItself /\ [Next]_vars
    => (OnRecord /\ PublishedCertifiesItself)'
<1> SUFFICES ASSUME TypeOK, OnRecord, PublishedCertifiesItself, [Next]_vars
             PROVE  OnRecord' /\ PublishedCertifiesItself'
  OBVIOUS
<1> USE FileAssumption DEF TypeOK
<1>m. ran \subseteq ran'
  BY DEF vars, Next, Finds, Generates, Reads, ReadFails, OpensKeyFile, WritesKeyFile, Runs,
         OpensConfig, WritesConfig, GoesOnUnpublished, Ends, Fetches, KeyRemoved
<1>1. OnRecord'
  <2> USE DEF OnRecord
  <2>u. CASE UNCHANGED vars
    BY <2>u DEF vars
  <2>1. ASSUME NEW p \in Processes, Finds(p) \/ ReadFails(p) \/ OpensKeyFile(p) PROVE OnRecord'
    BY <2>1 DEF Finds, ReadFails, OpensKeyFile
  <2>2. ASSUME NEW p \in Processes, Generates(p) PROVE OnRecord'
    BY <2>2 DEF Generates
  <2>3. ASSUME NEW p \in Processes, Reads(p) PROVE OnRecord'
    BY <2>3 DEF Reads, Runs
  <2>4. ASSUME NEW p \in Processes, WritesKeyFile(p) PROVE OnRecord'
    BY <2>4 DEF WritesKeyFile, Runs
  <2>5. ASSUME NEW p \in Processes, OpensConfig(p) \/ WritesConfig(p) \/ GoesOnUnpublished(p)
        PROVE OnRecord'
    BY <2>5 DEF OpensConfig, WritesConfig, GoesOnUnpublished
  <2>6. ASSUME NEW p \in Processes, Ends(p) PROVE OnRecord'
    BY <2>6 DEF Ends
  <2>7. ASSUME NEW a \in Apps, Fetches(a) PROVE OnRecord'
    BY <2>7 DEF Fetches
  <2>8. CASE KeyRemoved
    BY <2>8 DEF KeyRemoved
  <2>9. QED BY <2>u, <2>1, <2>2, <2>3, <2>4, <2>5, <2>6, <2>7, <2>8 DEF Next
<1>2. PublishedCertifiesItself'
  <2> USE DEF PublishedCertifiesItself, Verifies
  <2>1. ASSUME UNCHANGED <<configFile, pinned>> PROVE PublishedCertifiesItself'
    BY <2>1, <1>m
  <2>2. ASSUME NEW p \in Processes, OpensConfig(p) PROVE PublishedCertifiesItself'
    <3>1. configFile' = Cut /\ pinned' = pinned
      BY <2>2 DEF OpensConfig
    <3>2. QED BY <3>1, <1>m
  <2>3. ASSUME NEW p \in Processes, WritesConfig(p) PROVE PublishedCertifiesItself'
    <3>1. key[p] \in ran /\ pinned' = pinned
      BY <2>3 DEF WritesConfig, OnRecord
    <3>2. CASE configFile' = Signed(p)
      BY <3>1, <3>2, <1>m DEF Signed, SignConfig
    <3>3. CASE configFile' = Cut
      BY <3>1, <3>3, <1>m
    <3>4. QED BY <2>3, <3>2, <3>3 DEF WritesConfig
  <2>4. ASSUME NEW a \in Apps, Fetches(a) PROVE PublishedCertifiesItself'
    <3>1. configFile.node \in ran /\ pinned' = [pinned EXCEPT ![a] = configFile.node]
          /\ configFile' = configFile
      BY <2>4 DEF Fetches
    <3>2. QED BY <3>1, <1>m
  <2>5. QED
    BY <2>1, <2>2, <2>3, <2>4
       DEF vars, Next, Finds, Generates, Reads, ReadFails, OpensKeyFile, WritesKeyFile,
           GoesOnUnpublished, Ends, KeyRemoved
<1>3. QED BY <1>1, <1>2

\* A config that is whole verifies under the id it names, and that id and every
\* id an app has pinned are ids a node ran under, whoever wrote the file when.
THEOREM PublishedCertifiesItselfHolds == Spec => []PublishedCertifiesItself
<1>1. Init => OnRecord /\ PublishedCertifiesItself
  BY FileAssumption DEF Init, OnRecord, PublishedCertifiesItself
<1>2. QED BY <1>1, TypeCorrect, CertifiedStep, PTL DEF Spec
=============================================================================
