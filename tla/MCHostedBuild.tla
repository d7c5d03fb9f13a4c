--------------------------- MODULE MCHostedBuild ---------------------------
(***************************************************************************)
(* Constants of the model-checking runs of HostedBuild: a build, its retry  *)
(* under the same key, another build of the same proposal and a cancel.     *)
(***************************************************************************)
EXTENDS HostedBuild, TLC

CONSTANTS build, retry, clash, other, cancel, repair, keyB, keyO, keyC, bodyB, bodyO, bodyC

KeyTable == [c \in Calls |-> IF c \in {build, retry, clash, repair} THEN keyB
                             ELSE IF c = other THEN keyO ELSE keyC]
BodyTable == [c \in Calls |-> IF c \in {build, retry, repair} THEN bodyB
                              ELSE IF c \in {clash, other} THEN bodyO ELSE bodyC]

\* Who calls: a build against a cancel, or against another build of the same
\* proposal; a build, its retry and a recovery of its key; another
\* build under the key of the first.
CallGroups == {{build, cancel}, {build, other}, {build, retry, repair},
               {build, clash}}
=============================================================================
