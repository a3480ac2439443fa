----------------------------- MODULE MemoryStore -----------------------------
(***************************************************************************)
(* One memory file, its cache entry in FileMemoryStorage                   *)
(* (agents/memory/storage.py), and the operations of updater.py on it: the *)
(* event loop serves the API while the queue's timer thread updates.       *)
(*                                                                         *)
(* A step is what a thread does between two system calls or sections under *)
(* _cache_lock.  Files are replaced whole, so a file's content is a value; *)
(* each replacement gives it another modification time, which is a number  *)
(* here and serves as the version of the content, 0 for no file at all and *)
(* 0, too, for a time that could not be asked for: the code has None for   *)
(* both.  A read that fails gives an empty memory like that of no file.    *)
(***************************************************************************)
EXTENDS Integers, FiniteSets

CONSTANTS Actor,       \* threads that use the storage
          Fact,        \* the facts a memory can hold
          MaxFacts,    \* config.max_facts
          MaxVersion   \* bounds the replacements of the file

ASSUME MaxFactsAssumption == MaxFacts \in Nat
ASSUME MaxVersionAssumption == MaxVersion \in Nat

VARIABLES file,    \* the file
          cache,   \* _memory_cache[cache_key]
          pc,      \* what the actor does next
          op,      \* its operation
          memory,  \* its memory_data
          mtime,   \* its current_mtime or mtime
          since,   \* history: the file's version when its operation began, or
                    \* when it has replaced the file
          raced    \* history: the file was replaced under somebody who had
                   \* read or written it and not yet asked for its time

actorVars == <<pc, op, memory, mtime, since>>
storeVars == <<file, cache, actorVars, raced>>

-----------------------------------------------------------------------------
(* memory_data; its version is history and says which content of the file  *)
(* it comes from, a negative one that a read of that content has failed.   *)
Memory == [facts : SUBSET Fact, version : Int]
EmptyMemory == [facts |-> {}, version |-> 0]
Unread(v) == [facts |-> {}, version |-> -v]

Source(m) == IF m.version < 0 THEN -m.version ELSE m.version

Entry == [memory : Memory, mtime : Nat]
NoEntry == [mtime |-> -1]

(* Those that load, change and save, which differ in the change alone;     *)
(* those that only save; the readers.                                      *)
Saving == {"import", "clear"}
Op == {"change", "get", "reload"} \cup Saving

StoreTypeOK == /\ file \in Memory /\ file.version \in Nat
               /\ cache \in Entry \cup {NoEntry}
               /\ pc \in [Actor -> {"idle", "stat", "lookup", "read", "fill",
                                    "loaded", "replace", "restat", "store"}]
               /\ op \in [Actor -> Op]
               /\ memory \in [Actor -> Memory]
               /\ mtime \in [Actor -> Nat]
               /\ since \in [Actor -> Nat]
               /\ raced \in BOOLEAN

StoreInit == /\ file = EmptyMemory
             /\ cache = NoEntry
             /\ pc = [a \in Actor |-> "idle"]
             /\ op = [a \in Actor |-> "get"]
             /\ memory = [a \in Actor |-> EmptyMemory]
             /\ mtime = [a \in Actor |-> 0]
             /\ since = [a \in Actor |-> 0]
             /\ raced = FALSE

-----------------------------------------------------------------------------
GoTo(a, place) == pc' = [pc EXCEPT ![a] = place]

(* The operation returns or raises, and its local variables are gone.      *)
Return(a) == /\ GoTo(a, "idle")
             /\ op' = [op EXCEPT ![a] = "get"]
             /\ memory' = [memory EXCEPT ![a] = EmptyMemory]
             /\ mtime' = [mtime EXCEPT ![a] = 0]
             /\ since' = [since EXCEPT ![a] = 0]

(* A request or a batch begins.  What is imported is any memory.           *)
Begin(a) ==
    /\ pc[a] = "idle"
    /\ \E o \in Op, facts \in SUBSET Fact :
         /\ o # "import" => facts = {}
         /\ op' = [op EXCEPT ![a] = o]
         /\ memory' = [memory EXCEPT ![a] = [facts |-> facts, version |-> 0]]
         /\ GoTo(a, CASE o \in Saving -> "replace"
                      [] o = "reload" -> "read"
                      [] OTHER        -> "stat")
    /\ since' = [since EXCEPT ![a] = file.version]
    /\ UNCHANGED <<file, cache, mtime, raced>>

-----------------------------------------------------------------------------
(* load: the time first, then the cache or the file.                       *)

(* The answer to a question for the file's time, None if it fails.         *)
TimeOfFile == {file.version, 0}

Stat(a) == /\ pc[a] = "stat"
           /\ \E time \in TimeOfFile : mtime' = [mtime EXCEPT ![a] = time]
           /\ GoTo(a, "lookup")
           /\ UNCHANGED <<file, cache, op, memory, since, raced>>

(* A cached memory is good whatever the time of the file.                  *)
MistakeLookup(a) == /\ pc[a] = "lookup"
                    /\ \/ /\ cache # NoEntry
                          /\ memory' = [memory EXCEPT ![a] = cache.memory]
                          /\ GoTo(a, "loaded")
                       \/ /\ cache = NoEntry
                          /\ GoTo(a, "read")
                          /\ UNCHANGED memory
                    /\ UNCHANGED <<file, cache, op, mtime, since, raced>>

Lookup(a) == /\ pc[a] = "lookup"
             /\ \/ /\ cache.mtime = mtime[a]
                   /\ memory' = [memory EXCEPT ![a] = cache.memory]
                   /\ GoTo(a, "loaded")
                \/ /\ cache.mtime # mtime[a]
                   /\ GoTo(a, "read")
                   /\ UNCHANGED memory
             /\ UNCHANGED <<file, cache, op, mtime, since, raced>>

(* _load_memory_from_file, of load and of reload: a file that cannot be    *)
(* opened or parsed counts as an empty memory.                             *)
Read(a) == /\ pc[a] = "read"
           /\ \/ memory' = [memory EXCEPT ![a] = file]
              \/ memory' = [memory EXCEPT ![a] = Unread(file.version)]
           /\ GoTo(a, IF op[a] = "reload" THEN "restat" ELSE "fill")
           /\ UNCHANGED <<file, cache, op, mtime, since, raced>>

(* The file is not even text: the error goes through to the caller.        *)
ReadRaises(a) == /\ pc[a] = "read" /\ file.version > 0
                 /\ Return(a)
                 /\ UNCHANGED <<file, cache, raced>>

(* load asks for the time after it has read.                               *)
MistakeFill(a) == /\ pc[a] = "fill"
                  /\ cache' = [memory |-> memory[a], mtime |-> file.version]
                  /\ GoTo(a, "loaded")
                  /\ UNCHANGED <<file, op, memory, mtime, since, raced>>

Fill(a) == /\ pc[a] = "fill"
           /\ cache' = [memory |-> memory[a], mtime |-> mtime[a]]
           /\ GoTo(a, "loaded")
           /\ UNCHANGED <<file, op, memory, mtime, since, raced>>

-----------------------------------------------------------------------------
(* reload and save: the file first, then its time.                         *)

(* Whom a replacement catches between the file and its time.               *)
Caught(a) == \E b \in Actor \ {a} : pc[b] = "restat"

(* temp_path.replace(file_path); mtime is of save now, no longer of load.  *)
Replace(a) ==
    /\ pc[a] = "replace" /\ file.version < MaxVersion
    /\ file' = [facts |-> memory[a].facts, version |-> file.version + 1]
    /\ memory' = [memory EXCEPT ![a] = file']
    /\ mtime' = [mtime EXCEPT ![a] = 0]
    /\ since' = [since EXCEPT ![a] = file'.version]
    /\ raced' = (raced \/ Caught(a))
    /\ GoTo(a, "restat")
    /\ UNCHANGED <<cache, op>>

(* An OSError: save returns False before it has touched anything.          *)
SaveFails(a) == /\ pc[a] = "replace"
                /\ Return(a)
                /\ UNCHANGED <<file, cache, raced>>

Restat(a) == /\ pc[a] = "restat"
             /\ \E time \in TimeOfFile : mtime' = [mtime EXCEPT ![a] = time]
             /\ GoTo(a, "store")
             /\ UNCHANGED <<file, cache, op, memory, since, raced>>

(* import_memory_data goes on and loads what it has saved.                 *)
Store(a) ==
    /\ pc[a] = "store"
    /\ cache' = [memory |-> memory[a], mtime |-> mtime[a]]
    /\ IF op[a] = "import"
       THEN /\ op' = [op EXCEPT ![a] = "get"]
            /\ memory' = [memory EXCEPT ![a] = EmptyMemory]
            /\ mtime' = [mtime EXCEPT ![a] = 0]
            /\ GoTo(a, "stat")
            /\ UNCHANGED since
       ELSE Return(a)
    /\ UNCHANGED <<file, raced>>

-----------------------------------------------------------------------------
(* The operations of updater.py, between their load and their save.        *)

(* _apply_updates: new facts are those the memory does not hold; above the *)
(* limit the ones of most confidence stay, here any of that number.        *)
ApplyUpdates(facts) ==
    LET updated == {(facts \ removed) \cup added :
                      removed \in SUBSET facts, added \in SUBSET (Fact \ facts)}
    IN {u \in updated : Cardinality(u) <= MaxFacts}
         \cup {k \in SUBSET Fact : /\ Cardinality(k) = MaxFacts
                                   /\ \E u \in updated : k \subseteq u}

(* What becomes of the facts that were loaded: one is created, deleted or  *)
(* edited through the API, which checks no limit, or an update is applied; *)
(* an edited fact is another fact.                                         *)
Outcome(facts) == {facts \cup {f} : f \in Fact \ facts}
                    \cup {facts \ {f} : f \in facts}
                    \cup {(facts \ {f}) \cup {g} : f \in facts, g \in Fact \ facts}
                    \cup ApplyUpdates(facts)

(* The change; for an update it comes with the answer of the model.        *)
Change(a) ==
    /\ pc[a] = "loaded" /\ op[a] = "change"
    /\ \E facts \in Outcome(memory[a].facts) :
         memory' = [memory EXCEPT ![a].facts = facts]
    /\ GoTo(a, "replace")
    /\ UNCHANGED <<file, cache, op, mtime, since, raced>>

(* A reader has its answer; a fact is missing; the model fails.            *)
GiveUp(a) == /\ pc[a] = "loaded"
             /\ Return(a)
             /\ UNCHANGED <<file, cache, raced>>

-----------------------------------------------------------------------------
(* Another process or an editor replaces the file.                         *)
Elsewhere ==
    /\ file.version < MaxVersion
    /\ \E facts \in SUBSET Fact :
         file' = [facts |-> facts, version |-> file.version + 1]
    /\ raced' = (raced \/ \E b \in Actor : pc[b] = "restat")
    /\ UNCHANGED <<cache, actorVars>>

(* The process stops anywhere and starts again.                            *)
Restart == /\ cache' = NoEntry
           /\ pc' = [a \in Actor |-> "idle"]
           /\ op' = [a \in Actor |-> "get"]
           /\ memory' = [a \in Actor |-> EmptyMemory]
           /\ mtime' = [a \in Actor |-> 0]
           /\ since' = [a \in Actor |-> 0]
           /\ raced' = FALSE
           /\ UNCHANGED file

Load(a) == Stat(a) \/ Lookup(a) \/ Read(a) \/ ReadRaises(a) \/ Fill(a)
Save(a) == Replace(a) \/ SaveFails(a) \/ Restat(a) \/ Store(a)

StoreNext == \/ \E a \in Actor : Begin(a) \/ Load(a) \/ Change(a) \/ GiveUp(a) \/ Save(a)
             \/ Elsewhere \/ Restart

StoreSpec == StoreInit /\ [][StoreNext]_storeVars

-----------------------------------------------------------------------------
(* Properties.                                                             *)

(* What may stand for the file: what it says, or the empty memory of a     *)
(* read of this very content that has failed.                              *)
OfTheFile == {file, Unread(file.version)}

(* The operation has got the file's time, where there was a file.          *)
Timed(a) == mtime[a] # 0 \/ since[a] = 0

(* A cache entry that load would take for the file's (storage.py 133-136)  *)
(* is the file's, or empty after a failed read of what the file still says *)
(* (115-117), unless a replacement has caught a reload or a save between   *)
(* the file and its time: what a failed read does to the cache ends with   *)
(* the next replacement of the file.                                       *)
CacheTrueUnlessRaced == ~raced /\ cache.mtime = file.version => cache.memory \in OfTheFile

(* A load returns what the file held when the operation began or something *)
(* newer, or the empty memory of a failed read of such a content, under    *)
(* the same condition and when it was told the file's time: storage.py     *)
(* 128-143 may ask for the time and read the file at different moments.    *)
FreshUnlessRaced ==
    \A a \in Actor :
      ~raced /\ pc[a] = "loaded" /\ Timed(a) => Source(memory[a]) >= since[a]

(* A change made while nobody else replaced the file is a change of what   *)
(* the file says (updater.py 96-190 and 331-367), or of nothing if a read  *)
(* of this content has failed: otherwise nothing is lost and what was      *)
(* cleared does not come back.                                             *)
BasedOnFile ==
    \A a \in Actor :
      /\ ~raced
      /\ pc[a] = "replace" /\ op[a] = "change"
      /\ file.version = since[a] /\ Timed(a)
      => Source(memory[a]) = file.version

(* The cache never holds a memory that was not in the file, but for the    *)
(* empty one of a failed read: a save that fails, or a change that is      *)
(* never saved, leaves it alone (storage.py 167-170, updater.py 363-365).  *)
(* The two are compared where they are of one version.                     *)
CacheWasSaved ==
    cache # NoEntry /\ Source(cache.memory) = file.version
      => cache.memory \in OfTheFile

-----------------------------------------------------------------------------
(* What the proofs rest on.                                                *)

(* Nothing comes from the future, and what an actor holds unchanged of the *)
(* file's version is what the file says, if it could be read.              *)
Unchanged(a) == pc[a] \in {"fill", "loaded", "restat", "store"}
Past == /\ cache # NoEntry => /\ Source(cache.memory) <= file.version
                              /\ cache.mtime <= file.version
        /\ \A a \in Actor : /\ Source(memory[a]) <= file.version
                            /\ mtime[a] <= file.version
                            /\ since[a] <= file.version
                            /\ Unchanged(a) /\ Source(memory[a]) = file.version
                                 => memory[a] \in OfTheFile

(* Unless raced, a content is never taken for one newer than it is.        *)
NotAhead ==
    ~raced => /\ cache # NoEntry => cache.mtime <= Source(cache.memory)
              /\ \A a \in Actor :
                   /\ pc[a] \in {"fill", "store"} => mtime[a] <= Source(memory[a])
                   /\ pc[a] = "restat" => Source(memory[a]) = file.version

Began == \A a \in Actor :
           /\ pc[a] \in {"stat", "lookup", "fill"} => op[a] # "reload"
           /\ pc[a] \in {"lookup", "read", "fill"} /\ op[a] # "reload" /\ Timed(a)
                => since[a] <= mtime[a]
           /\ ~raced /\ pc[a] = "replace" /\ op[a] = "change" /\ Timed(a)
                => since[a] <= Source(memory[a])

StoreInv == /\ StoreTypeOK /\ CacheTrueUnlessRaced /\ FreshUnlessRaced
            /\ CacheWasSaved /\ Past /\ NotAhead /\ Began
=============================================================================
