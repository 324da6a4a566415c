----------------------------- MODULE MCTcpConnect -----------------------------
(***************************************************************************)
(* Instances of TcpConnect.  Calls, mutexes and registrations are           *)
(* interchangeable, and so are sockets and targets that a configuration     *)
(* treats alike: TLC explores one of each set of permuted states.           *)
(***************************************************************************)
EXTENDS TcpTable, TLC

Tasks   == Permutations(Call) \cup Permutations(Lock) \cup Permutations(Reg)
Sockets == Tasks \cup Permutations(Socket)
Targets == Tasks \cup Permutations(Target)
===============================================================================
