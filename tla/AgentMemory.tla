------------------------------ MODULE AgentMemory ------------------------------
(***************************************************************************)
(* The retrieval memory of AI_Agent: one user's file of personal skills    *)
(* (personal_memory.py) and the cached policies of one domain              *)
(* (industry_baselines.py), as the two endpoints that use them see it.     *)
(*                                                                         *)
(* A container has its own copy of the volume, the one the volume had when *)
(* the container started: nothing reloads it.  Requests of one container   *)
(* interleave at their awaits; reading, changing and replacing the file    *)
(* has none.                                                               *)
(***************************************************************************)
EXTENDS FiniteSets, Integers

CONSTANTS Entries,        \* ids of the user's skills
          Containers,
          Rows,           \* what may be written for a skill
          Saves, Reads,   \* slots for requests of the two kinds
          MaxUpserts,     \* bound: rows written
          MaxTroubles     \* bound: restarts, damaged files

ASSUME MemoryAssumption ==
  /\ IsFiniteSet(Containers) /\ "damage" \notin Containers
  /\ Rows \subseteq [active : BOOLEAN, dim : {"own", "other"}]
  /\ Saves \cap Reads = {} /\ MaxUpserts \in Nat /\ MaxTroubles \in Nat

NoRow   == [active |-> FALSE, dim |-> "none"]
Empty   == [i \in Entries |-> NoRow]
Damaged == [i \in Entries |-> [active |-> FALSE, dim |-> "damaged"]]

VARIABLES volume,         \* the file, as committed
          copy,           \* per container: its file
          cache,          \* per container: the domain's policies, embedded
          use,            \* per slot: the request under way
          written,         \* history, per id: the row last written
          kept,           \* history: ids whose upsert was answered after a commit
          writers,        \* history: who changed a file, containers and damage
          upserts, troubles

memoryFileVars == <<volume, copy, cache, use, written, kept, writers, upserts, troubles>>

Uses == Saves \union Reads
Free == [at |-> "free"]

MemoryInit ==
  /\ volume = Empty /\ copy = [c \in Containers |-> Empty]
  /\ cache = [c \in Containers |-> "none"]
  /\ use = [u \in Uses |-> Free]
  /\ written = Empty /\ kept = {} /\ writers = {}
  /\ upserts = 0 /\ troubles = 0

(* Where a request goes on after its next await; its slot, once answered. *)
Moves(u, at) == use' = [use EXCEPT ![u] = [@ EXCEPT !.at = at]]
Answers(u)   == use' = [use EXCEPT ![u] = Free]

-----------------------------------------------------------------------------
(* personalization_memory_upsert: embed the row, unless it came embedded. *)
Upsert(u, c, i, r) ==
  /\ use[u].at = "free" /\ upserts < MaxUpserts
  /\ upserts' = upserts + 1
  /\ \E at \in IF r.dim = "own" THEN {"embedding", "writing"} ELSE {"writing"} :
       use' = [use EXCEPT ![u] = [at |-> at, c |-> c, id |-> i, row |-> r]]
  /\ UNCHANGED <<volume, copy, cache, written, kept, writers, troubles>>

(* The backend answers; or it fails, or has no vector: 500 or 502. *)
Embedded(u) ==
  /\ use[u].at = "embedding"
  /\ Moves(u, "writing") \/ Answers(u)
  /\ UNCHANGED <<volume, copy, cache, written, kept, writers, upserts, troubles>>

(* _read_existing: a file that does not parse is put aside. *)
Existing(f) == IF f = Damaged THEN Empty ELSE f

(* Mutant: the other rows are not written back. *)
Merged_Alone(f, i, r) == [Empty EXCEPT ![i] = r]

Merged(f, i, r) == [Existing(f) EXCEPT ![i] = r]

(* upsert_personal_skill, up to its commit. *)
Replace(u) ==
  /\ use[u].at = "writing"
  /\ LET c == use[u].c
         i == use[u].id
     IN  /\ copy' = [copy EXCEPT ![c] = Merged(@, i, use[u].row)]
         /\ written' = [written EXCEPT ![i] = use[u].row]
         /\ writers' = writers \union {c}
         /\ kept' = kept \ {i}
  /\ Moves(u, "committing")
  /\ UNCHANGED <<volume, cache, upserts, troubles>>

(* The temporary file cannot be written: 500, the old file stays; except   *)
(* one that was put aside.                                                 *)
ReplaceFails(u) ==
  /\ use[u].at = "writing"
  /\ copy' = [copy EXCEPT ![use[u].c] = Existing(@)]
  /\ Answers(u)
  /\ UNCHANGED <<volume, cache, written, kept, writers, upserts, troubles>>

(* The container's file goes to the volume, whatever is there; or the      *)
(* commit fails, which only the log tells.                                 *)
Commit(u) ==
  /\ use[u].at = "committing"
  /\ \/ volume' = copy[use[u].c] /\ kept' = kept \union {use[u].id}
     \/ UNCHANGED <<volume, kept>>
  /\ Answers(u)
  /\ UNCHANGED <<copy, cache, written, writers, upserts, troubles>>

-----------------------------------------------------------------------------
(* extract_reflective: PersonalMemoryPool.load, once; then the policies.   *)
Pool(f) == {i \in Entries : f # Damaged /\ f[i].active}

LoadPool(u, c) ==
  /\ use[u].at = "free"
  /\ use' = [use EXCEPT ![u] =
       [at |-> IF cache[c] = "none" THEN "baselines" ELSE "searching", c |-> c,
        pool |-> Pool(copy[c]), file |-> copy[c], base |-> cache[c], hits |-> {}]]
  /\ UNCHANGED <<volume, copy, cache, written, kept, writers, upserts, troubles>>

(* IndustryBaselinePool.load, past its cache: a file that is missing or    *)
(* malformed and vectors that do not match are cached like policies; an    *)
(* embedding backend that fails is not.                                    *)
Baselines(u) ==
  /\ use[u].at = "baselines"
  /\ \/ \E found \in {"full", "empty"} :
          /\ cache' = [cache EXCEPT ![use[u].c] = found]
          /\ use' = [use EXCEPT ![u] = [@ EXCEPT !.at = "searching", !.base = found]]
     \/ Answers(u) /\ UNCHANGED cache
  /\ UNCHANGED <<volume, copy, written, kept, writers, upserts, troubles>>

(* search_personal_skills, offered when the pool is not empty: the best k  *)
(* of the rows with vectors of the query's length.                         *)
Comparable(u) == {i \in use[u].pool : use[u].file[i].dim = "own"}

SearchPool(u) ==
  /\ use[u].at = "searching"
  /\ use[u].pool # {}
  /\ \E k \in 0..Cardinality(Entries) : \E top \in SUBSET Comparable(u) :
       /\ Cardinality(top) = (IF k < Cardinality(Comparable(u)) THEN k ELSE Cardinality(Comparable(u)))
       /\ use' = [use EXCEPT ![u].hits = top]
  /\ UNCHANGED <<volume, copy, cache, written, kept, writers, upserts, troubles>>

Done(u) ==
  /\ use[u].at = "searching"
  /\ Answers(u)
  /\ UNCHANGED <<volume, copy, cache, written, kept, writers, upserts, troubles>>

-----------------------------------------------------------------------------
(* A container is scaled down or dies, and another starts in its place. *)
Restart(c) ==
  /\ troubles < MaxTroubles /\ troubles' = troubles + 1
  /\ copy' = [copy EXCEPT ![c] = volume]
  /\ cache' = [cache EXCEPT ![c] = "none"]
  /\ use' = [u \in Uses |-> IF use[u].at # "free" /\ use[u].c = c THEN Free ELSE use[u]]
  /\ UNCHANGED <<volume, written, kept, writers, upserts>>

(* A file is damaged: nothing of what was written there is expected back. *)
Damage(c) ==
  /\ troubles < MaxTroubles /\ troubles' = troubles + 1
  /\ copy[c] # Empty
  /\ copy' = [copy EXCEPT ![c] = Damaged]
  /\ writers' = writers \union {c, "damage"}
  /\ UNCHANGED <<volume, cache, use, written, kept, upserts>>

MemoryNext ==
  \/ \E u \in Uses :
       \/ \E c \in Containers :
            \/ u \in Reads /\ LoadPool(u, c)
            \/ u \in Saves /\ \E i \in Entries, r \in Rows : Upsert(u, c, i, r)
       \/ Embedded(u) \/ Replace(u) \/ ReplaceFails(u) \/ Commit(u)
       \/ Baselines(u) \/ SearchPool(u) \/ Done(u)
  \/ \E c \in Containers : Restart(c) \/ Damage(c)

MemorySpec == MemoryInit /\ [][MemoryNext]_memoryFileVars

-----------------------------------------------------------------------------
(* As long as one container does the writing, no upsert undoes another,    *)
(* however they overlap: an answered and committed row is what a container *)
(* that starts now will find, until the same skill is written again, and   *)
(* what a search finds is active in that file (personal_memory.py:301-364).*)
MemoryKept ==
  /\ Cardinality(writers) <= 1 => \A i \in kept : volume[i] = written[i]
  /\ \A u \in Uses : use[u].at = "searching" =>
       \A i \in use[u].hits : use[u].file[i] = [active |-> TRUE, dim |-> "own"]

-----------------------------------------------------------------------------
(* What makes that inductive.  The shapes of a request under way: *)
Row  == [active : BOOLEAN, dim : {"own", "other", "none", "damaged"}]
File == [Entries -> Row]

Saving == [at : {"embedding", "writing", "committing"}, c : Containers, id : Entries, row : Rows]
Reading == [at : {"baselines", "searching"}, c : Containers, pool : SUBSET Entries, file : File,
            base : {"none", "full", "empty"}, hits : SUBSET Entries]

MemoryTypeOK ==
  /\ volume \in File /\ written \in File
  /\ copy \in [Containers -> File]
  /\ cache \in [Containers -> {"none", "full", "empty"}]
  /\ use \in [Uses -> {Free} \union Saving \union Reading]
  /\ kept \subseteq Entries
  /\ writers \subseteq Containers \union {"damage"}

(* Nobody's file holds anything before the first write, or a broken row    *)
(* before the first damage; who is about to commit has written.            *)
WritersTold ==
  /\ writers = {} => volume = Empty /\ kept = {} /\ \A c \in Containers : copy[c] = Empty
  /\ "damage" \in writers => \E c \in Containers : c \in writers
  /\ "damage" \notin writers =>
       \A i \in Entries : /\ volume[i].dim # "damaged"
                          /\ \A c \in Containers : copy[c][i].dim # "damaged"
  /\ \A u \in Uses : use[u].at = "committing" => use[u].c \in writers

Committing(c, i) == \E u \in Uses : use[u].at = "committing" /\ use[u].c = c /\ use[u].id = i

(* The only writer's copy has every row that is kept, or on its way there. *)
OneWritersFile ==
  \A c \in Containers : writers \subseteq {c} =>
    \A i \in Entries :
      /\ i \in kept \/ Committing(c, i) => copy[c][i] = written[i]
      /\ i \in kept => volume[i] = written[i]

HitsAreActive ==
  \A u \in Uses : use[u].at \in {"baselines", "searching"} =>
    /\ use[u].pool = Pool(use[u].file)
    /\ use[u].hits \subseteq Comparable(u)

MemoryInv == MemoryTypeOK /\ WritersTold /\ OneWritersFile /\ HitsAreActive
=============================================================================
