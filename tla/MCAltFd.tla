------------------------------- MODULE MCAltFd -------------------------------
(* Two devices and a file system, and a pool with room for two descriptors
   beside the standard ones. *)
EXTENDS AltFd, TLC

CONSTANTS null, uart, zip
MCNameOf == (null :> <<"dev", "null">>) @@ (uart :> <<"dev", "uart_0">>) @@ (zip :> <<"mnt">>)
MCCallbacks == (null :> {"write"}) @@ (uart :> {"close", "read", "write"})
               @@ (zip :> {"open", "close", "read", "lseek", "fstat", "ioctl"})
MCOpenArgs == {[mode |-> "O_RDWR", flags |-> {"ALT_FD_EXCL"}], [mode |-> "O_WRONLY", flags |-> {}]}
MCSetflArgs == {{}, {"ALT_FD_EXCL"}}
MCName == {<<"dev", "null">>, <<"dev", "uart_0">>, <<"mnt", "file">>}
=============================================================================
