------------------------------ MODULE MCAmpBoot ------------------------------
(* Core 0 is u-boot's.  Every combination of up to one Linux image, two    *)
(* loadables and two amp-cpus nodes on the cores 0, 0x100 and 0x300, and a *)
(* tree with more nodes than slots that also has 0x200.                    *)
EXTENDS AmpBoot, SequencesExt

MCCpu  == {0, 256, 512, 768}
Sample == MCCpu \ {512}

AmpImages == [cpu : Sample, linux : {FALSE}, standalone : {FALSE},
              complete : {TRUE}, entry : {TRUE}, bootOn : BOOLEAN]
Loadables ==
  AmpImages
  \cup { [cpu |-> 0, linux |-> FALSE, standalone |-> TRUE,
           complete |-> TRUE, entry |-> TRUE, bootOn |-> TRUE],
         [cpu |-> 0, linux |-> FALSE, standalone |-> FALSE,
           complete |-> TRUE, entry |-> FALSE, bootOn |-> TRUE],
         [cpu |-> 768, linux |-> FALSE, standalone |-> FALSE,
           complete |-> FALSE, entry |-> TRUE, bootOn |-> TRUE] }
LinuxImages == [cpu : {0, 256}, linux : {TRUE}, standalone : {FALSE},
                complete : {TRUE}, entry : {TRUE}, bootOn : {TRUE}]

MCConfigurations ==
  { l \o r : l \in BoundedSeq(LinuxImages, 1), r \in BoundedSeq(Loadables, 2) }

Nodes == { n \in [id : Sample, complete : BOOLEAN, available : BOOLEAN,
                  bootOn : BOOLEAN] : n.bootOn \/ (n.complete /\ n.available) }

Good(c) == [id |-> c, complete |-> TRUE, available |-> TRUE, bootOn |-> TRUE]

MCTrees == BoundedSeq(Nodes, 2) \cup { <<Good(768), Good(512), Good(256)>> }
=============================================================================
