----------------------------- MODULE MCPlanner -----------------------------
(***************************************************************************)
(* A small repository for Planner: two npm projects, one with a directory  *)
(* that may become a third, a file of neither, and a tool of every shape.  *)
(***************************************************************************)
EXTENDS PlanProperties

Glob(dir, ending) == [under |-> dir, ending |-> ending]
Ts  == {Glob(Root, "ts")}
Dts == {Glob(Root, "d.ts")}

Source == <<"api", "src", "b.ts">>
Outer  == <<"web", "c.ts">>
Decl   == <<"api", "d.d.ts">>
Loose  == <<"r.ts">>
ApiNpm == <<"api", "package.json">>
WebNpm == <<"web", "package.json">>
Deep   == <<"api", "src", "gen", "g.ts">>
Nested == <<"api", "src", "gen", "package.json">>
Lock   == <<"api", "lock">>

SmallTree == {Source, Deep, Outer, Decl, Loose, ApiNpm, WebNpm, IgnoreFile}
SmallVolatile == {Nested, Lock, ApiNpm}

EndingsOf ==
  [n \in {"b.ts", "c.ts", "g.ts", "r.ts"} |-> {"ts"}] @@
  ("d.d.ts" :> {"ts", "d.ts"}) @@ ("package.json" :> {"package.json"}) @@
  [n \in {"lock", "x", ".datamitsuignore"} |-> {}]

Op(scope, granularity, arity, globs, exclude, priority, on) ==
  [scope |-> scope, granularity |-> granularity, arity |-> arity, globs |-> globs,
   exclude |-> exclude, priority |-> priority, invalidateOn |-> on]
Tool(types, ops) == [types |-> types, skip |-> FALSE, available |-> TRUE, ops |-> ops]
Fix(o) == "fix" :> o

SmallTools ==
  [format   |-> Tool({}, Fix(Op("per-file", "", "one", Ts, {}, 1, {}))),
   lint     |-> Tool({"npm"}, Fix(Op("per-project", "", "many", Ts, {Glob(<<"web">>, "d.ts")}, 1, {}))),
   declare  |-> Tool({"npm"}, Fix(Op("per-project", "file", "many", Dts, {}, 1, {}))),
   types    |-> Tool({"npm"}, Fix(Op("per-project", "", "none", Ts, {}, 2, {"package.json"}))
                              @@ ("lint" :> Op("per-project", "", "none", {}, {}, 2, {}))),
   whole    |-> Tool({}, Fix(Op("per-project", "unit", "many", Ts, {}, 2, {}))),
   unused   |-> Tool({}, Fix(Op("repository", "", "none", {}, {}, 3, {}))
                         @@ ("lint" :> Op("repository", "", "none", Ts, {}, 3, {}))),
   spell    |-> Tool({}, Fix(Op("repository", "", "many", {AnyGlob}, {Glob(<<"web">>, "*")}, 3, {}))),
   off      |-> [Tool({}, Fix(Op("per-file", "", "one", Ts, {}, 1, {}))) EXCEPT !.skip = TRUE],
   foreign  |-> [Tool({}, Fix(Op("per-file", "", "one", Ts, {}, 1, {}))) EXCEPT !.available = FALSE]]

Npm == [npm |-> Glob(Root, "package.json")]

Rule(invert, glob, tool) == [invert |-> invert, glob |-> glob, tool |-> tool]
BuiltIn == <<Rule(FALSE, Glob(<<".datamitsu">>, "*"), "*")>>
NoRules == <<>>
OptIn   == <<Rule(FALSE, AnyGlob, "format"), Rule(TRUE, Glob(<<"api", "src">>, "*"), "format"),
             Rule(FALSE, Glob(<<"web">>, "*"), "lint")>>
SmallRules == {NoRules, OptIn, Malformed}

Ask(op, paths, fileScoped, tools) ==
  [op |-> op, paths |-> paths, fileScoped |-> fileScoped, tools |-> tools]
SmallRequests ==
  {Ask("fix", {}, FALSE, {}), Ask("fix", {Source}, FALSE, {}), Ask("fix", {Outer, Loose}, FALSE, {}),
   Ask("fix", {}, TRUE, {}), Ask("lint", {}, FALSE, {}), Ask("lint", {Source}, FALSE, {"types", "unused"}),
   Ask("fix", {}, FALSE, {"lint", "nosuch"})}

AllDirs == {Root, <<"api">>, <<"api", "src">>}
Suffix == {<<"ts", "d.ts">>}
=============================================================================
