---------------------------- MODULE Generations ----------------------------
(* The two allocators of generations side by side, each with its file and  *)
(* its lock: native PTY generations under the file lock, and those of the  *)
(* ACP controllers under the older lock.  They share nothing but the       *)
(* processes and the promise of GenerationAllocator.                       *)
EXTENDS NativePtyGeneration

CONSTANTS MaxAcpClaims, MaxRunning, Disturbances, None

VARIABLES acpLock, acpPc, acpSeq, inode, nonce, moved, acpFile, acpNext, acpIssued

acpVars == <<acpLock, acpPc, acpSeq, inode, nonce, moved, acpFile, acpNext, acpIssued>>

Acp == INSTANCE AcpControllerGeneration WITH
         MaxClaims <- MaxAcpClaims, lock <- acpLock, pc <- acpPc, seq <- acpSeq,
         file <- acpFile, next <- acpNext, issued <- acpIssued

(* Of the ACP controllers no two work on their file at the same time, and  *)
(* their generations increase too (see AcpControllerGeneration).           *)
OneWriter == Acp!OneWriter
AcpFenced == Acp!Fenced
=============================================================================
