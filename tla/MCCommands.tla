----------------------------- MODULE MCCommands -----------------------------
(* An instance of Commands for TLC. *)
EXTENDS Commands, TLC

CONSTANTS ask, read, edit, explorer, research, reviewer, s1, s2, m1, m2, wildcard,
          coder, thinker, former, near, far

ThisCanon == (research :> explorer) @@ [a \in {explorer, reviewer} |-> a]
ThisOffers == (s1 :> {read, m1}) @@ (s2 :> {m2})

AnyFile == [NoFile EXCEPT !.declared = {s1, s2}]
OneServer == [AnyFile EXCEPT !.enabled = {{s1}}]
Scopes == [named |-> {read, s1}, profiles |-> {}, providers |-> {}, rewrites |-> FALSE]
Models == [named |-> {}, profiles |-> {coder, thinker, former}, providers |-> {near, far}, rewrites |-> FALSE]
Files == [named |-> {read}, profiles |-> {coder}, providers |-> {near}, rewrites |-> TRUE]
Upgraded == [named |-> {}, profiles |-> {former, thinker}, providers |-> {}, rewrites |-> TRUE]
Renamings == [named |-> {}, profiles |-> {}, providers |-> {}, rewrites |-> TRUE]
ThisStarts ==
  {[about |-> Scopes, file |-> file] : file \in
    {[OneServer EXCEPT !.mode = {"advanced"}],
     [OneServer EXCEPT !.tools.base = {wildcard},
                       !.profiles = <<[NoProfile(research) EXCEPT !.mcps.base = {s1}]>>]}}
  \cup
  {[about |-> Models, file |-> [AnyFile EXCEPT !.llm = llm]] : llm \in
    {NoModels,
     [NoModels EXCEPT !.active = {coder}, !.providers = far :> {FALSE},
                      !.models = (coder :> Complete(near)) @@ (thinker :> Complete(far))]}}
  \cup
  {[about |-> Files, file |-> file] : file \in
    {[OneServer EXCEPT !.mode = {"advanced"}, !.denied = {{read}}, !.allowed = {{reviewer}},
                       !.tools.base = {read}],
     [AnyFile EXCEPT !.llm.active = {coder}, !.llm.models = coder :> Complete(near),
                    !.profiles = <<[NoProfile(research) EXCEPT !.tools.base = {read}]>>]}}
  \cup
  {[about |-> Upgraded, file |-> [AnyFile EXCEPT !.llm.active = {former},
                                                !.llm.models = former :> Complete(near)]],
   \* One sub-agent under two names, and a tool denied that the advanced mode needs.
   [about |-> Renamings, file |->
     [OneServer EXCEPT !.allowed = {{read, explorer}}, !.denied = {{edit}},
        !.profiles = <<[NoProfile(research) EXCEPT !.tools.base = {edit}],
                       [NoProfile(explorer) EXCEPT !.mcps.base = {s1}]>>]]}
ThisYamlFiles == {[local |-> {research}, global |-> {}], [local |-> {}, global |-> {explorer}]}
\* In the basic mode the supervisor is confined to one tool.
UpgradeStarts == {[about |-> Files, file |-> [AnyFile EXCEPT !.tools.base = {read}]]}
=============================================================================
