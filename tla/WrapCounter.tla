----------------------------- MODULE WrapCounter -----------------------------
(***************************************************************************)
(* The masking law of waveflow/hw/reverse_stream.py: every reverse-channel *)
(* counter is an unsigned register of ctr_bits bits, and differences are   *)
(* taken modulo 2^ctr_bits.  M stands for 2^ctr_bits.                      *)
(***************************************************************************)
EXTENDS Integers

\* Fault: the mask forgotten.
WrapUnmasked(x, M) == x

\* (x + n) & CTR_MASK: what assigning to a masked counter keeps of its sum.
Wrap(x, M) == x % M

\* Fault: the plain difference.
UdiffUnmasked(a, b, M) == a - b

\* udiff(a, b, bits): a - b on a wrapping unsigned counter.
Udiff(a, b, M) == (a - b) % M
=============================================================================
