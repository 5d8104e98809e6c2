------------------------------ MODULE CpSocket ------------------------------
(***************************************************************************)
(* The part of doc_ferry_server/src/cp_socket.cpp whose behaviour differs  *)
(* between the two platforms the file supports.                            *)
(***************************************************************************)
EXTENDS Integers

CONSTANT Platform      \* which branch of #ifdef CP_WINDOWS / CP_LINUX is built

ASSUME PlatformAssumption == Platform \in {"windows", "linux"}

(* The file status flags of a descriptor that matter here. *)
FileFlag == {"O_RDWR", "O_NONBLOCK"}

(***************************************************************************)
(* cp_setblocking(): ioctlsocket(FIONBIO) on Windows.  On Linux the flags  *)
(* are read with F_GETFL and stored with F_SETFL, and is_block keeps only  *)
(* the O_NONBLOCK bit (mode & O_NONBLOCK), it does not clear it.           *)
(***************************************************************************)
cp_setblocking(flags, is_block) ==
  IF ~is_block THEN flags \cup {"O_NONBLOCK"}
  ELSE IF Platform = "windows" THEN flags \ {"O_NONBLOCK"}
       ELSE flags \cap {"O_NONBLOCK"}

(***************************************************************************)
(* An accepted socket: BaseSocket's constructor makes it non-blocking,     *)
(* SocketHandler's asks for blocking again.                                *)
(***************************************************************************)
SocketFlags == cp_setblocking(cp_setblocking({"O_RDWR"}, FALSE), TRUE)

(***************************************************************************)
(* A host as text: no host, "0.0.0.0", an address, "255.255.255.255", a    *)
(* short form of 0.0.0.0 such as "0", anything else.                       *)
(***************************************************************************)
Host == {"NULL", "any", "address", "broadcast", "zero", "malformed"}

(***************************************************************************)
(* cp_inet_pton(): 1 for success.  Windows has inet_addr() only, and takes *)
(* INADDR_ANY and INADDR_NONE for failures.                                *)
(***************************************************************************)
cp_inet_pton(host) ==
  CASE host \in {"NULL", "any", "address"} -> 1
    [] host = "broadcast" -> IF Platform = "windows" THEN -1 ELSE 1
    [] OTHER -> IF host = "malformed" /\ Platform = "windows" THEN -1 ELSE 0

(* The listening socket, as BaseSocket::create_socket() leaves it. *)
ListenerFlags == cp_setblocking({"O_RDWR"}, FALSE)
=============================================================================
