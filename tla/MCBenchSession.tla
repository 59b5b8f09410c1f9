--------------------------- MODULE MCBenchSession ---------------------------
(* Instances of BenchSession: frameworks named for how they serve. *)
EXTENDS BenchSession

\* A framework of one process and one of a cluster.
OneEach == <<"gin", "koa">>

\* One that needs Linux for more than one worker, selected twice, and two whose
\* workers hold the pipes: with and without need of their leader.
Twice == <<"elysia", "koa", "elysia", "fastapi">>

\* Frameworks that listen for themselves, one of them with shared ports.
Sharing == <<"elysia", "koa">>

\* Each with one and with two workers, or with two only.
OneAndTwo == <<1, 2>>
Two == <<2>>
One == <<1>>

MCKinds == [f \in Frameworks |->
    CASE f = "gin" -> "single" [] f = "koa" -> "cluster"
      [] f = "fastapi" -> "prefork" [] f = "elysia" -> "shared"]
=============================================================================
