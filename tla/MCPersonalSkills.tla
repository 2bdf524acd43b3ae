--------------------------- MODULE MCPersonalSkills ---------------------------
(***************************************************************************)
(* PersonalSkills within two bounds: as long as one request at a time is   *)
(* served, with nothing failing and nothing approved through the skills    *)
(* router, on three rows and two hashes; from then on with one lost call   *)
(* or one crash, on two rows of one hash.                                  *)
(***************************************************************************)
EXTENDS PersonalSkills, TLC

Symmetric == Permutations(Request) \cup Permutations(Skill) \cup Permutations(Hash)

Untouched(s) == skill[s] = None /\ \A r \in Request : target[r] # s

Bounds ==
    IF Sequential
    THEN \E r \in Request : pc[r] = "idle" /\ target[r] = None
    ELSE /\ losses + crashes <= 1
         /\ \E s \in Skill : Untouched(s)
         /\ \E h \in Hash : \A r \in Request : edit[r] # h

MCNext == Next /\ Bounds'
MCSpec == Init /\ [][MCNext]_vars
=============================================================================
