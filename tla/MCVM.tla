------------------------------- MODULE MCVM -------------------------------
(* A small user pool: the executable, a page it grows and the stack do not  *)
(* fit in together, and the copies of the command lines stay in it.         *)
EXTENDS VM, TLC

CONSTANTS p1, p2, f1, f2, f3, f4, f5, code, stack, heap, top

OneProc == {p1}
TwoProcs == {p1, p2}
FourFrames == {f1, f2, f3, f4}
FiveFrames == {f1, f2, f3, f4, f5}
Code == {code}
StackAndHeap == {stack, heap}
OneStack == {stack}
OneValue == {"a"}
FrameSymmetry == Permutations({f1, f2, f3, f4, f5})
=============================================================================
