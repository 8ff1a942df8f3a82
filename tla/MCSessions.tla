----------------------------- MODULE MCSessions -----------------------------
(* Instances of Sessions for TLC. *)
EXTENDS Sessions, TLC

CONSTANTS a, b, c

ThreeTasks == {a, b, c}

Run(x, y, z) == (a :> x) @@ (b :> y) @@ (c :> z)

(* Three tasks of the bot; two of the bot and a worker; one of the bot and *)
(* two workers; three probes.  The tasks are interchangeable, so a mix is  *)
(* listed in one order only.                                               *)
BotKinds    == <<"answer", "generate", "intake", "mark_sent", "publish", "qualify">>
WorkerKinds == <<"poll", "put_in_gdocs", "remind">>

ThreeKinds ==
  {Run(BotKinds[i], BotKinds[j], BotKinds[k]) :
     <<i, j, k>> \in {m \in (1 .. 6) \X (1 .. 6) \X (1 .. 6) : m[1] <= m[2] /\ m[2] <= m[3]}}
  \cup {Run(BotKinds[i], BotKinds[j], WorkerKinds[k]) :
     <<i, j, k>> \in {m \in (1 .. 6) \X (1 .. 6) \X (1 .. 3) : m[1] <= m[2]}}
  \cup {Run(BotKinds[i], WorkerKinds[j], WorkerKinds[k]) :
     <<i, j, k>> \in {m \in (1 .. 6) \X (1 .. 3) \X (1 .. 3) : m[2] <= m[3]}}
  \cup {Run("probe", "probe", "probe")}
=============================================================================
