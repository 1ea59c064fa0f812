------------------------------ MODULE MCClients -----------------------------
(* Small instances of the Clients for TLC.                                 *)
EXTENDS Clients

(* Of every size from none to MaxEntries, with an address before, between  *)
(* and after the entries.                                                  *)
MaxEntries == 9

MCDatabases ==
  { [i \in 0..(n - 1) |-> [ipStart |-> 3 * i + 1, ipEnd |-> 3 * i + 2]] :
      n \in 0..MaxEntries }

MCAddresses == 0..(3 * MaxEntries)

=============================================================================
