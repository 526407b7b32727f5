---------------------------- MODULE MCSelection ----------------------------
(* Registries, corpora and skills of Selection, for TLC.                   *)
EXTENDS Selection

CONSTANTS w1, w2, h1, h2, a, b, c

Template(base, domain, priority, builds) ==
  [base |-> base, domain |-> domain, priority |-> priority, builds |-> builds]

MCTemplates ==
  {Template("core", {w1}, 1, TRUE), Template("broken", {w1, w2}, 1, FALSE),
   Template("expert", {w1, w2}, 2, TRUE), Template("rare", {w2}, 3, TRUE), Template("rusty", {w1, w2}, 2, FALSE),
   Template("core", {w2}, 2, TRUE), Template("idle", {}, 1, TRUE)}

MCRegistries ==
  {r \in UNION {[1 .. n -> MCTemplates] : n \in 0 .. 4} :
     \A i, j \in DOMAIN r : r[i].base = r[j].base => i = j}

MCSkills ==
  {[base |-> "skillA", builds |-> TRUE], [base |-> "skillB", builds |-> TRUE],
   [base |-> "skillA", builds |-> FALSE]}

MCLines == <<2, 3, 2>>

MCCorpora == <<"knowledge", "skills">>
=============================================================================
