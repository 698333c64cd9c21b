------------------------------ MODULE MCKernel ------------------------------
(* Kernel on a small instance: see MCKernel.cfg. *)
EXTENDS Kernel

\* A plan that runs, and one that is refused for a file it modifies; a plan
\* with a cycle is refused alike.
MCSubmitted ==
    {[order |-> <<1, 2>>, mutable |-> {}, edges |-> <<<<1, 2>>>>],
     [order |-> <<1>>, mutable |-> {1}, edges |-> <<>>]}

MCCapability == [architect |-> {"analysis", "design"}]

=============================================================================
