------------------------------ MODULE Identity ------------------------------
(***************************************************************************)
(* Who a node is, across starts, and what it tells apps about it: node.key *)
(* and XaeroFlux::from_config (src/lib.rs), the signed rendezvous config   *)
(* (src/rendezvous.rs) and its publication by the bootstrap server         *)
(* (src/bin/xaeroflux_bootstrap.rs).                                       *)
(*                                                                         *)
(* Several processes may be started in one directory, as in the CLI demo.  *)
(* Both files are written by std::fs::write, which empties the file and    *)
(* then fills it: two steps, between which the process may end and others  *)
(* may read.  The signature scheme is external: a signature names its key  *)
(* and what it covers.                                                     *)
(***************************************************************************)
EXTENDS Naturals, FiniteSets, Functions

CONSTANTS
  Processes,  \* the processes started in one directory
  Apps,       \* apps that fetch the rendezvous config
  Keys,       \* the keys, each its own node id
  Absent,     \* no such file
  Cut,        \* a file that holds a part of its content, or a mixture
  None

\* The signed configs, whole: what they name, and who signed what.
Configs == [node : Keys, signer : Keys, signedBy : Keys, signedNode : Keys]

\* A file that is not there, or not whole, holds neither a key nor a config.
ASSUME FileAssumption ==
  /\ {Absent, Cut, None} \cap Keys = {}
  /\ {Absent, Cut} \cap Configs = {}
  /\ Absent # Cut

VARIABLES
  keyFile,     \* node.key
  configFile,  \* the file at RENDEZVOUS_PATH, as it is served
  st,          \* how far each process has come
  key,         \* the secret key a process has in memory
  pinned,      \* the node id each app took from a config
  \* history
  ran,         \* the ids that a process ever ran under
  ranHere,     \* those it took since an operator last removed node.key
  raced        \* two first starts overlapped, or one was cut short by the removal

vars == <<keyFile, configFile, st, key, pinned, ran, ranHere, raced>>

\* "starting": the key file was found; "generated", "writing": it was not;
\* "loaded": from_config has the key; "publishing": the config file is empty.
States == {"down", "starting", "generated", "writing", "loaded", "publishing", "running"}

\* The types, and that a process has a key once it has read or generated one.
TypeOK ==
  /\ keyFile \in Keys \cup {Absent, Cut}
  /\ configFile \in Configs \cup {Absent, Cut}
  /\ st \in [Processes -> States]
  /\ key \in [Processes -> Keys \cup {None}]
  /\ pinned \in [Apps -> Keys \cup {None}]
  /\ ran \subseteq Keys /\ ranHere \subseteq ran
  /\ raced \in BOOLEAN
  /\ \A p \in Processes : (key[p] = None) = (st[p] \in {"down", "starting"})

Init ==
  /\ keyFile = Absent
  /\ configFile = Absent
  /\ st = [p \in Processes |-> "down"]
  /\ key = [p \in Processes |-> None]
  /\ pinned = [a \in Apps |-> None]
  /\ ran = {} /\ ranHere = {}
  /\ raced = FALSE

-----------------------------------------------------------------------------
(* from_config: load or generate.                                          *)

Generating(p) == st[p] \in {"generated", "writing"}

\* key_path.exists(): yes.
Finds(p) ==
  /\ st[p] = "down"
  /\ keyFile # Absent
  /\ st' = [st EXCEPT ![p] = "starting"]
  /\ UNCHANGED <<keyFile, configFile, key, pinned, ran, ranHere, raced>>

\* A random key is none that was ever in use.
Fresh == Keys \ (ran \cup {keyFile} \cup Range(key))

\* key_path.exists(): no; a key is generated.
Generates(p) ==
  /\ st[p] = "down"
  /\ keyFile = Absent
  /\ \E k \in Fresh : key' = [key EXCEPT ![p] = k]
  /\ st' = [st EXCEPT ![p] = "generated"]
  /\ raced' = (raced \/ \E q \in Processes : Generating(q))
  /\ UNCHANGED <<keyFile, configFile, pinned, ran, ranHere>>

Runs(p, k) ==
  /\ ran' = ran \cup {k}
  /\ ranHere' = ranHere \cup {k}

\* MUTANT of Reads: a key that was read is written back, with the
\* permissions it should have.
ReadsAndRewrites(p) ==
  /\ st[p] = "starting"
  /\ keyFile \in Keys
  /\ key' = [key EXCEPT ![p] = keyFile]
  /\ st' = [st EXCEPT ![p] = "generated"]
  /\ Runs(p, keyFile)
  /\ UNCHANGED <<keyFile, configFile, pinned, raced>>

\* The file is read, and is 32 bytes long.
Reads(p) ==
  /\ st[p] = "starting"
  /\ keyFile \in Keys
  /\ key' = [key EXCEPT ![p] = keyFile]
  /\ st' = [st EXCEPT ![p] = "loaded"]
  /\ Runs(p, keyFile)
  /\ UNCHANGED <<keyFile, configFile, pinned, raced>>

\* MUTANT of ReadFails: the start goes on without the key.
ReadFailsGoesOn(p) ==
  /\ st[p] = "starting"
  /\ keyFile \in {Absent, Cut}
  /\ st' = [st EXCEPT ![p] = "loaded"]
  /\ UNCHANGED <<keyFile, configFile, key, pinned, ran, ranHere, raced>>

\* "Invalid key file", or the file is gone by now: the start fails.
ReadFails(p) ==
  /\ st[p] = "starting"
  /\ keyFile \in {Absent, Cut}
  /\ st' = [st EXCEPT ![p] = "down"]
  /\ UNCHANGED <<keyFile, configFile, key, pinned, ran, ranHere, raced>>

\* MUTANT of OpensKeyFile: a key file that cannot be written is ignored.
GoesOnWithoutFile(p) ==
  /\ st[p] = "generated"
  /\ st' = [st EXCEPT ![p] = "loaded"]
  /\ Runs(p, key[p])
  /\ UNCHANGED <<keyFile, configFile, key, pinned, raced>>

\* fs::write: the file is created or emptied ...
OpensKeyFile(p) ==
  /\ st[p] = "generated"
  /\ keyFile' = Cut
  /\ st' = [st EXCEPT ![p] = "writing"]
  /\ UNCHANGED <<configFile, key, pinned, ran, ranHere, raced>>

\* ... and gets its 32 bytes, unless that file was removed meanwhile, and
\* perhaps another one made under its name.
WritesKeyFile(p) ==
  /\ st[p] = "writing"
  /\ \/ keyFile # Absent /\ keyFile' = key[p]
     \/ raced /\ UNCHANGED keyFile
  /\ st' = [st EXCEPT ![p] = "loaded"]
  /\ Runs(p, key[p])
  /\ UNCHANGED <<configFile, key, pinned, raced>>

-----------------------------------------------------------------------------
(* signed_rendezvous_config, publish_signed, and the apps.                 *)

\* sign_config: the key k signs a config that names id.
SignConfig(id, k) == [node |-> id, signer |-> k, signedBy |-> k, signedNode |-> id]

\* MUTANT of Signed: the node id is read from the file anew.
SignedFromFile(p) == SignConfig(IF keyFile \in Keys THEN keyFile ELSE key[p], key[p])

\* signed_rendezvous_config: the node's own id under the node's own key.
Signed(p) == SignConfig(key[p], key[p])

\* verify_config.
Verifies(c) == c.signedBy = c.signer /\ c.signedNode = c.node

\* FileSink::publish: the file is created or emptied ...
OpensConfig(p) ==
  /\ st[p] = "loaded"
  /\ configFile' = Cut
  /\ st' = [st EXCEPT ![p] = "publishing"]
  /\ UNCHANGED <<keyFile, key, pinned, ran, ranHere, raced>>

\* ... and filled; over what another process wrote meanwhile, a longer config
\* keeps its tail.
WritesConfig(p) ==
  /\ st[p] = "publishing"
  /\ \/ configFile' = Signed(p)
     \/ configFile # Cut /\ configFile' = Cut
  /\ st' = [st EXCEPT ![p] = "running"]
  /\ UNCHANGED <<keyFile, key, pinned, ran, ranHere, raced>>

\* Signing or writing fails before the file is touched: logged, and main goes
\* on without; a node that is no bootstrap server does not publish either.
GoesOnUnpublished(p) ==
  /\ st[p] = "loaded"
  /\ st' = [st EXCEPT ![p] = "running"]
  /\ UNCHANGED <<keyFile, configFile, key, pinned, ran, ranHere, raced>>

\* An app fetches the config, verifies it and pins the node id; a part of a
\* config does not parse.
Fetches(a) ==
  /\ configFile \in Configs
  /\ Verifies(configFile)
  /\ pinned' = [pinned EXCEPT ![a] = configFile.node]
  /\ UNCHANGED <<keyFile, configFile, st, key, ran, ranHere, raced>>

-----------------------------------------------------------------------------
\* The process ends, between any two steps.
Ends(p) ==
  /\ st[p] # "down"
  /\ st' = [st EXCEPT ![p] = "down"]
  /\ key' = [key EXCEPT ![p] = None]
  /\ UNCHANGED <<keyFile, configFile, pinned, ran, ranHere, raced>>

\* An operator removes node.key to give the node a new id, as the test
\* republish_on_restart_reflects_new_identity does; bound: while Keys has
\* enough left for every process.
KeyRemoved ==
  /\ keyFile # Absent
  /\ Cardinality(Fresh) >= Cardinality(Processes)
  /\ keyFile' = Absent
  /\ ranHere' = {}
  /\ raced' = (\E p \in Processes : Generating(p))
  /\ UNCHANGED <<configFile, st, key, pinned, ran>>

Next ==
  \/ \E p \in Processes :
       \/ Finds(p) \/ Generates(p) \/ Reads(p) \/ ReadFails(p)
       \/ OpensKeyFile(p) \/ WritesKeyFile(p)
       \/ OpensConfig(p) \/ WritesConfig(p) \/ GoesOnUnpublished(p)
       \/ Ends(p)
  \/ \E a \in Apps : Fetches(a)
  \/ KeyRemoved

Spec == Init /\ [][Next]_vars

-----------------------------------------------------------------------------
\* "Load or generate persistent node identity": all starts in a directory
\* take the same id, wherever one of them is cut short, until node.key is
\* removed; only first starts that overlap can end under two ids.
OneIdentity == raced \/ Cardinality(ranHere) <= 1

\* What a first start left complete no later one can spoil: with node.key
\* once in use, a process that ends at any point leaves a file that the next
\* start can read; only a first start can leave "Invalid key file" behind.
StartsAgain == raced \/ ranHere = {} \/ keyFile \in Keys

\* "A self-published config is self-certifying: signer == bootstrap.node_id"
\* (rendezvous.rs): a config that is whole verifies, under the id it names,
\* and an app pins only ids that a node ran under, whoever writes the file
\* when, and whatever became of the key meanwhile.
PublishedCertifiesItself ==
  /\ configFile \in Configs =>
       Verifies(configFile) /\ configFile.signer = configFile.node /\ configFile.node \in ran
  /\ \A a \in Apps : pinned[a] \in ran \cup {None}
=============================================================================
