------------------------------- MODULE MCSsh --------------------------------
(* One session, one SFTP object and one handle; outputs of two cells with
   buffers of one or two cells, so that a read of two cells takes two requests;
   the remote file ends in a zero byte. *)
EXTENDS Ssh

CONSTANTS a, b, s1, h1

MCSftps == {s1}
MCHandles == {h1}
MCCells == {a, b, Nul}
MCOutput == <<a, b>>
MCRemoteFile == <<a, Nul>>
MCPayloads == {<<>>, <<a, b>>}
MCLimits == {-1, 0, 1, 2}
=============================================================================
