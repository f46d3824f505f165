-------------------------- MODULE MCSocks5Handshake --------------------------
EXTENDS Socks5Handshake

\* 93.184.216.34, port 443 = 1 * 256 + 187
TargetAddr == <<93, 184, 216, 34>>
=============================================================================
