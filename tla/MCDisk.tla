------------------------------- MODULE MCDisk -------------------------------
(* Two threads use the disks of one channel.  One spurious interrupt is    *)
(* enough: more of them only add to the count.                             *)
EXTENDS Disk, TLC

Pairs ==
  {<<"ata", "ata">>, <<"none", "ata">>, <<"atapi", "ata">>, <<"ata", "deaf">>, <<"deaf", "ata">>, <<"alone", "deaf">>,
   <<"sata", "none">>, <<"none", "none">>, <<"atapi", "deaf">>}

MCAttached == {0 :> k[1] @@ 1 :> k[2] : k \in Pairs}
=============================================================================
