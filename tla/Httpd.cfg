CONSTANTS
    TCP_SND_BUF = 2
    TCP_MAXRTX = 2
    TCP_TIMEOUT = 1
    HTTPD_MAX_RETRIES = 2
    HTTPD_POLL_INTERVAL = 2
    LWIP_HTTPD_REQ_QUEUELEN = 1
    LWIP_HTTPD_REQ_BUFSIZE = 3
    PBUF_POOL_SIZE = 2
    LineLen = 2
    ReqLen = 3
    MaxSend = 4
    Answers = {0, 2, 3, Bad}
    Bad = Bad
SPECIFICATION Spec
INVARIANTS TypeOK HsOwned EndMeansWhole ResetExplained
PROPERTIES PbufsReturned ConnectionEnds
