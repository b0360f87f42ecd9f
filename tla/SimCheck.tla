------------------------------ MODULE SimCheck ------------------------------
(***************************************************************************)
(* TB_SIMCHK of sim/tb_system.cpp: on every word the SIM serial ROM hands  *)
(* to the ADSP in the running machine, is it the word of the ROM image,    *)
(* and was no fetch under way when it was handed over?                     *)
(***************************************************************************)
EXTENDS SimPrefetch

(* SIM words are big-endian in the image, 0xffff past the end of the file.  *)
Want(idx) == <<Image[2 * idx], Image[2 * idx + 1]>>
ServedDuringFetch == sim_consume /\ sim_fetching
Mismatch == sim_consume /\ sim_idx < End /\ sim_word # Want(sim_idx)

(* The probe never counts a word as wrong: the structural check, which sees *)
(* a stale buffer even where the ROM repeats itself, and the comparison.    *)
SimCheckSilent == ~ServedDuringFetch /\ ~Mismatch
=============================================================================
