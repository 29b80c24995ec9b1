--------------------------- MODULE StartResolveMC ---------------------------
EXTENDS StartResolve
CONSTANTS projectKey, foreignKey, dev, production

endpoint(scheme, host, strict) == [scheme |-> scheme, host |-> host, strict |-> strict]

MCDefaultUrl == endpoint("https", "app-server.fireweave.ai", TRUE)
MCUrls == {endpoint("https", "self.hosted", TRUE), endpoint("https", "self.hosted", FALSE),
           endpoint("http", "self.hosted", TRUE), endpoint("http", "localhost", TRUE),
           endpoint("ftp", "self.hosted", TRUE), endpoint("https", None, TRUE)}
=============================================================================
