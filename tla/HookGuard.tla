------------------------------ MODULE HookGuard -----------------------------
(* The permission guard of the shell pipe, which decides from the settings   *)
(* files it can see whether a command may be rewritten.                      *)

(* A settings file is missing, cannot be read, is no JSON object, or maps    *)
(* some of the three kinds of rule to a list of entries (or to no list).     *)
Kinds == {"deny", "ask", "allow"}
File(state, rules) == [state |-> state, rules |-> rules]
Missing == File("missing", <<>>)
NotList == {"not a list"}

BashEntries == {"Bash", "Bash(ls:*)", "Bash(rm:*"}
Body(entry) == IF entry = "Bash(ls:*)" THEN "ls:*" ELSE "None"

(* What one file adds: the bodies of its Bash rules, and doubt about a shape *)
(* that could hide one.                                                      *)
FromEntries(entries) ==
  [bodies |-> {Body(e) : e \in entries \intersect BashEntries},
   doubt |-> entries = NotList \/ "not text" \in entries]

FromFile(file) ==
  [bodies |-> UNION {FromEntries(file.rules[k]).bodies : k \in DOMAIN file.rules},
   doubt |-> \/ file.state \in {"unreadable", "garbled"}
             \/ \E k \in DOMAIN file.rules : FromEntries(file.rules[k]).doubt]

(* The environment may name another managed policy, a project root other     *)
(* than the working directory, and another home for the user's settings.     *)
(* The policy's path is a file, a directory with fragments, or neither.      *)
ManagedSources(scene) ==
  CASE scene.override = "unset" -> {"managed", "fragment"}
    [] scene.override = "file" -> {"policy"}
    [] scene.override = "directory" -> {"policy", "policy fragment"}
    [] OTHER -> {}

Sources(scene) ==
  ManagedSources(scene)
    \union (IF scene.rootSet THEN {"root", "cwd"} ELSE {"cwd"})
    \union (IF scene.configSet THEN {"home", "config"} ELSE {"home"})

SettingsIn(scene, source) == IF source \in DOMAIN scene.files THEN scene.files[source] ELSE Missing
Bodies(scene) == UNION {FromFile(SettingsIn(scene, s)).bodies : s \in Sources(scene)}

Doubt(scene) ==
  \/ scene.override = "neither"
  \/ \E s \in Sources(scene) : FromFile(SettingsIn(scene, s)).doubt

HasAnyBashRule_Truthy(bodies) == \E b \in bodies : b # "None"
HasAnyBashRule(bodies) == bodies # {}
Rewrites(scene) == ~Doubt(scene) /\ ~HasAnyBashRule(Bodies(scene))

(* The host reads the project's root, or the working directory without one,  *)
(* and takes a configured directory in place of the home.  What is in force  *)
(* there for Bash, or may be, the guard must have seen.                      *)
InForce(scene) ==
  (IF scene.override = "neither" THEN {"managed", "fragment"} ELSE ManagedSources(scene))
    \union {IF scene.rootSet THEN "root" ELSE "cwd", IF scene.configSet THEN "config" ELSE "home"}

GovernsBash(file) ==
  \/ file.state \in {"unreadable", "garbled"}
  \/ \E k \in DOMAIN file.rules : file.rules[k] \intersect BashEntries # {}

Governed(scene) == \E s \in InForce(scene) : GovernsBash(SettingsIn(scene, s))

(* Only what no rule governs is rewritten.                                   *)
NeverMasks(scene) == Rewrites(scene) => ~Governed(scene)
=============================================================================
